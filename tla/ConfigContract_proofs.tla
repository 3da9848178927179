----------------------- MODULE ConfigContract_proofs -----------------------
(***************************************************************************)
(* What clients see of the service as a whole.  It implements              *)
(* ConfigContract, and rows change only at the request of their owner.     *)
(* The quota of handleCreateConfig holds but for the creates that run at   *)
(* once: its count and its insert are separate statements, so these may    *)
(* pass the check together; nothing else can overrun it.                   *)
(***************************************************************************)
EXTENDS ConfigService_proofs, FiniteSetTheorems
----------------------------------------------------------------------------
(***************************************************************************)
(* The contract.                                                           *)
(***************************************************************************)

\* What the contract sees of a row is a configuration.
LEMMA AsConfigType ==
    ASSUME NEW row \in Row
    PROVE  /\ AsConfig(row) \in Contract!Config
           /\ AsConfig(row).user = row.user
           /\ AsConfig(row).name = row.name
           /\ AsConfig(row).content = Plain(row.env)
           /\ AsConfig(row).luwv = row.luwv
           /\ AsConfig(row).modified = row.modified
<1>1. row # NoRow
  BY ConstantsOK, Zenon
<1> QED BY <1>1, Zenon DEF AsConfig, Contract!Config, Row, Envelopes, Plain

\* No configuration is the absent one.
LEMMA ConfigNotNoRow == NoRow \notin Contract!Config
<1>1. NoRow \notin Config
  BY ConstantsOK, Zenon
<1> QED BY <1>1 DEF Config, Contract!Config

\* What the contract finds under an id.
LEMMA ConfigAt ==
    ASSUME NEW table, NEW id \in Ids
    PROVE  AsConfigs(table)[id] = AsConfig(table[id])
BY DEF AsConfigs

\* A commit adds a configuration, or changes or touches one.
LEMMA CommitRefines ==
    ASSUME Inv, NEW s \in Slots, Commit(s)
    PROVE  Contract!Next \/ UNCHANGED Contract!vars
<1> DEFINE a == AsConfigs(rows)
           b == AsConfigs(rows')
<1>0. TypeOK /\ rows' = txRows /\ seq' = txSeq /\ pc[s] = "commit" /\ Contract!Ids = Ids
  BY DEF Inv, Commit, At, Contract!Ids, Ids
<1>1. CASE q[s].op = "create"
  <2>1. txSeq = seq + 1 /\ txSeq \in Ids
    BY <1>1, CommitIsCreateOrPatch
  <2>2. /\ TxOnly(txSeq)
        /\ txRows[txSeq] \in Row
        /\ txRows[txSeq].luwv = ""
        /\ Plain(txRows[txSeq].env) = ""
        /\ txRows[txSeq].name = q[s].name
    BY <1>0, <1>1, Zenon DEF Inv, TxInv, TxOK, TxCreates
  <2>3. q[s].name # ""
    BY <1>1, CommitIsCreateOrPatch, Zenon DEF WellFormed
  <2>4. b[txSeq] = AsConfig(txRows[txSeq])
    BY <1>0, <2>1, ConfigAt
  <2>5. b = [a EXCEPT ![txSeq] = b[txSeq]]
    <3>1. \A i \in Ids \ {txSeq} : rows'[i] = rows[i]
      BY <1>0, <2>2, Zenon DEF TxOnly
    <3> QED BY <2>1, <3>1, Zenon DEF AsConfigs
  <2> HIDE DEF a, b
  <2>6. /\ b[txSeq] \in Contract!Config
        /\ b[txSeq].name # "" /\ b[txSeq].content = "" /\ b[txSeq].luwv = ""
    BY <2>2, <2>3, <2>4, AsConfigType, Zenon
  <2>7. Contract!Only(txSeq)
    BY <2>5 DEF Contract!Only, a, b
  <2>8. Contract!Create(txSeq)
    BY <1>0, <2>1, <2>6, Zenon DEF Contract!Create, b
  <2> QED BY <1>0, <2>1, <2>7, <2>8 DEF Contract!Next
<1>2. CASE q[s].op = "patch"
  <2> DEFINE id == q[s].id
             old == rows[id]
             new == txRows[id]
  <2>1. txSeq = seq /\ id \in Ids
    BY <1>2, CommitIsCreateOrPatch
  <2>2. /\ TxOnly(id)
        /\ old \in Row /\ new \in Row
        /\ RowEvolves(old, new)
    BY <1>0, <1>2 DEF Inv, TxInv, TxOK, TxPatches
  <2>3. a[id] = AsConfig(old) /\ b[id] = AsConfig(new)
    BY <1>0, <2>1, ConfigAt
  <2>4. b = [a EXCEPT ![id] = b[id]]
    <3>1. \A i \in Ids \ {id} : rows'[i] = rows[i]
      BY <1>0, <2>2 DEF TxOnly
    <3> QED BY <2>1, <3>1, Zenon DEF AsConfigs
  <2> HIDE DEF a, b, old, new
  <2>5. a[id] \in Contract!Config /\ b[id] \in Contract!Config /\ a[id] # NoRow
    BY <2>2, <2>3, AsConfigType, ConfigNotNoRow
  <2>6. Contract!Only(id)
    BY <2>4 DEF Contract!Only, a, b
  <2>7. CASE new.modified > old.modified
    <3>1. b[id].user = a[id].user /\ b[id].modified > a[id].modified
      BY <2>2, <2>3, <2>7, AsConfigType DEF RowEvolves
    <3>2. Contract!Write(id)
      BY <1>0, <2>1, <2>5, <3>1, Zenon DEF Contract!Write, a, b
    <3> QED BY <1>0, <2>1, <2>6, <3>2 DEF Contract!Next
  <2>8. CASE /\ new.modified = old.modified
             /\ new.name = old.name
             /\ Plain(new.env) = Plain(old.env)
    <3>1. b[id] = [a[id] EXCEPT !.luwv = new.luwv] /\ new.luwv \in Versions
      <4>1. new.user = old.user
        BY <2>2 DEF RowEvolves
      <4>2. old # NoRow /\ new # NoRow
        BY <2>2, ConstantsOK, Zenon
      <4> QED BY <2>2, <2>3, <2>8, <4>1, <4>2 DEF AsConfig, Row
    <3>2. Contract!Touch(id)
      BY <1>0, <2>1, <2>5, <3>1 DEF Contract!Touch, a, b
    <3> QED BY <1>0, <2>1, <2>6, <3>2 DEF Contract!Next
  <2> QED BY <2>2, <2>7, <2>8 DEF RowEvolves
<1> QED BY <1>1, <1>2, CommitIsCreateOrPatch

\* DELETE removes a configuration.
LEMMA DeleteRefines ==
    ASSUME Inv, NEW s \in Slots, UNCHANGED seq, WellFormed(q[s]), q[s].op = "delete",
           rows[q[s].id] \in Row, rows' = [rows EXCEPT ![q[s].id] = NoRow]
    PROVE  Contract!Next
<1> DEFINE id == q[s].id
           a == AsConfigs(rows)
           b == AsConfigs(rows')
<1>1. id \in Ids /\ Contract!Ids = Ids
  BY DEF WellFormed, Contract!Ids, Ids
<1>2. rows'[id] = NoRow /\ \A i \in Ids \ {id} : rows'[i] = rows[i]
  BY <1>1 DEF Inv, TypeOK, Tables
<1>3. a[id] = AsConfig(rows[id]) /\ b[id] = AsConfig(rows'[id])
  BY <1>1, ConfigAt, Zenon
<1>4. b = [a EXCEPT ![id] = b[id]]
  <2>1. b = [i \in Ids |-> AsConfig(rows'[i])] /\ a = [i \in Ids |-> AsConfig(rows[i])]
    BY DEF AsConfigs
  <2>2. \A i \in Ids \ {id} : b[i] = a[i]
    BY <1>2, <2>1
  <2> HIDE DEF a, b, id
  <2> QED BY <1>1, <2>1, <2>2
<1>5. a[id] # NoRow /\ b[id] = NoRow
  BY <1>2, <1>3, AsConfigType, ConfigNotNoRow, Zenon DEF AsConfig
<1> HIDE DEF a, b
<1>6. Contract!Only(id) /\ Contract!Delete(id)
  BY <1>4, <1>5 DEF Contract!Only, Contract!Delete, a, b
<1> QED BY <1>1, <1>6, Zenon DEF Contract!Next

\* The service implements the contract of the store, for every number of
\* processes, handlers, users and ids, and under every fault of the model: no
\* interleaving, crash or retry shows clients anything but single
\* configurations created under fresh ids, written with an advancing
\* modified_at, touched, or deleted.
THEOREM ContractImplemented == Spec => ImplementsContract
<1>1. Init => Contract!Init
  BY DEF Init, Contract!Init, AsConfigs, AsConfig, Contract!Ids, Ids
<1>2. Inv /\ [Next]_vars => [Contract!Next]_(Contract!vars)
  <2> SUFFICES ASSUME Inv, [Next]_vars
               PROVE  Contract!Next \/ UNCHANGED Contract!vars
    OBVIOUS
  <2>1. CASE UNCHANGED dbVars
    BY <2>1 DEF dbVars, Contract!vars
  <2> QED BY <2>1, TableStep, DeleteRefines, CommitRefines
<1> QED BY <1>1, <1>2, Invariance, PTL DEF Spec, ImplementsContract, Contract!Spec
----------------------------------------------------------------------------
(***************************************************************************)
(* Owners.                                                                 *)
(***************************************************************************)

\* Slot s, serving its owner, takes a step that changes the row under id.
ChangesForOwner(s, id) ==
    /\ Busy(s) /\ pc'[s] # pc[s]
    /\ IF rows[id] = NoRow
       THEN q[s].op = "create" /\ rows'[id].user = q[s].user
       ELSE /\ q[s].op \in {"patch", "delete"}
            /\ q[s].id = id
            /\ q[s].user = rows[id].user

\* A DELETE changes the row it addresses, which is its user's.
LEMMA DeleteForOwner ==
    ASSUME Inv, NEW s \in Slots, Delete(s), WellFormed(q[s]), q[s].op = "delete",
           rows[q[s].id] \in Row, rows[q[s].id].user = q[s].user,
           rows' = [rows EXCEPT ![q[s].id] = NoRow],
           NEW id \in Ids, rows'[id] # rows[id]
    PROVE  ChangesForOwner(s, id)
<1>1. id = q[s].id
  BY Zenon DEF Inv, TypeOK, Tables
<1>2. pc[s] = "delete" /\ pc'[s] = "idle"
  BY Zenon DEF Delete, At, Respond, Inv, TypeOK
<1>3. rows[id] # NoRow
  BY <1>1, ConstantsOK, Zenon
<1> QED BY <1>1, <1>2, <1>3 DEF ChangesForOwner, Busy

\* A COMMIT changes the row a PATCH addresses, or the new row of a create.
LEMMA CommitForOwner ==
    ASSUME Inv, NEW s \in Slots, Commit(s), NEW id \in Ids, rows'[id] # rows[id]
    PROVE  ChangesForOwner(s, id)
<1>1. rows' = txRows /\ pc[s] = "commit" /\ pc'[s] \in {"idle", "reload"}
  BY Zenon DEF Commit, At, Respond, Goto, Inv, TypeOK
<1>2. CASE q[s].op = "create"
  <2>1. TxOnly(txSeq) /\ txRows[txSeq].user = q[s].user
    BY <1>1, <1>2, Zenon DEF Inv, TxInv, TxOK, TxCreates
  <2>2. rows[txSeq] = NoRow
    BY <1>2, CommitIsCreateOrPatch
  <2>3. id = txSeq
    BY <1>1, <2>1 DEF TxOnly
  <2> QED BY <1>1, <1>2, <2>1, <2>2, <2>3, Zenon DEF ChangesForOwner, Busy
<1>3. CASE q[s].op = "patch"
  <2>1. TxOnly(q[s].id) /\ rows[q[s].id] \in Row /\ rows[q[s].id].user = q[s].user
    BY <1>1, <1>3 DEF Inv, TxInv, TxOK, TxPatches
  <2>2. id = q[s].id
    BY <1>1, <2>1 DEF TxOnly
  <2>3. rows[id] # NoRow
    BY <2>1, <2>2, ConstantsOK, Zenon
  <2> QED BY <1>1, <1>3, <2>1, <2>2, <2>3 DEF ChangesForOwner, Busy
<1> QED BY <1>2, <1>3, CommitIsCreateOrPatch, Zenon

\* A row changes only in a step of a request of its owner, and only the row the
\* request addresses (or the new row of a create): the user_id of every WHERE
\* clause and the write lock see to it, whatever two processes interleave.
THEOREM OwnersOnly == Spec => RowsChangeForOwner
<1>1. ASSUME Inv, [Next]_vars, NEW id \in Ids, rows'[id] # rows[id]
      PROVE  \E s \in Slots : ChangesForOwner(s, id)
  <2>1. ~ UNCHANGED dbVars
    BY <1>1 DEF dbVars
  <2> QED BY <1>1, <2>1, TableStep, DeleteForOwner, CommitForOwner
<1>2. Inv /\ [Next]_vars =>
        [\A id \in Ids : rows'[id] # rows[id] =>
            \E s \in Slots : ChangesForOwner(s, id)]_vars
  BY <1>1
<1>3. Spec => [][\A id \in Ids : rows'[id] # rows[id] =>
                   \E s \in Slots : ChangesForOwner(s, id)]_vars
  BY <1>2, Invariance, PTL DEF Spec
<1> QED BY <1>3 DEF RowsChangeForOwner, ChangesForOwner
----------------------------------------------------------------------------
(***************************************************************************)
(* The quota.                                                              *)
(***************************************************************************)

\* What is counted is finite.
LEMMA Countable ==
    ASSUME NEW user
    PROVE  /\ IsFiniteSet(OwnedIds(rows, user)) /\ Cardinality(OwnedIds(rows, user)) \in Nat
           /\ IsFiniteSet(Pending(user)) /\ Cardinality(Pending(user)) \in Nat
           /\ Pending(user) \subseteq Slots
           /\ IsFiniteSet(Slots) /\ Cardinality(Slots) \in Nat
           /\ MaxConfigsPerUser \in Nat /\ MaxConfigsPerUser >= 1
<1>1. IsFiniteSet(Slots) /\ MaxConfigsPerUser \in Nat \ {0}
  BY ConstantsOK, Zenon
<1>2. IsFiniteSet(Ids)
  BY MaxIdNat, FS_Interval DEF Ids
<1>3. Pending(user) \subseteq Slots /\ OwnedIds(rows, user) \subseteq Ids
  BY DEF Pending, OwnedIds
<1>4. IsFiniteSet(Pending(user)) /\ IsFiniteSet(OwnedIds(rows, user))
  BY <1>1, <1>2, <1>3, FS_Subset
<1> QED BY <1>1, <1>3, <1>4, FS_CardinalityType

\* A create joins the pending ones only where it has just counted fewer rows than
\* the quota.
LEMMA PendingStep ==
    ASSUME Inv, [Next]_vars, NEW user, NEW s \in Slots,
           s \in Pending(user)', s \notin Pending(user)
    PROVE  /\ UNCHANGED dbVars
           /\ ~QuotaReached(Cardinality(OwnedIds(rows, user)))
<1> DEFINE Late == {"begin", "reserve", "build", "commit"}
<1>0. /\ TypeOK
      /\ q'[s].op = "create" /\ q'[s].user = user /\ pc'[s] \in Late /\ q'[s] # Nil
  BY DEF Inv, Pending
<1>1. ~(q'[s] = q[s] /\ pc[s] \in Late)
  BY <1>0 DEF Pending
<1>2. ASSUME NEW status, NEW body, Respond(s, status, body) PROVE FALSE
  BY <1>0, <1>2 DEF Respond, TypeOK
<1>3. ASSUME NEW step, Goto(s, step) PROVE pc'[s] = step /\ q' = q
  BY <1>0, <1>3 DEF Goto, TypeOK
<1>4. ~Same(s)
  BY <1>0, <1>1 DEF Same
<1>5. CASE SlotStep(s)
  <2>0. ~Connect(s)
    BY <1>4, Zenon DEF Connect, Same, reqVars
  <2>1. ASSUME NEW m \in Workload, Accept(s, m) PROVE FALSE
    <3>1. m \in Request
      BY ConstantsOK, Zenon
    <3> QED BY <1>0, <2>1, <3>1, AcceptedWellFormed DEF Accept, TypeOK
  <2>2. ~(Get(s) \/ Reload(s) \/ List(s) \/ Delete(s) \/ BusyTimeout(s) \/ Abort(s))
    BY <1>2, Responding, Zenon
  <2>3. ~(Begin(s) \/ Reserve(s) \/ Build(s))
    BY <1>1, <1>2, <1>3, Zenon DEF Begin, Reserve, Build, At
  <2>4. ~Commit(s)
    BY <1>0, <1>2, <1>3 DEF Commit
  <2>5. ~(Read(s) \/ Seal(s) \/ Apply(s))
    <3> SUFFICES ASSUME Read(s) \/ Seal(s) \/ Apply(s) PROVE FALSE
      OBVIOUS
    <3>1. pc[s] \in {"read", "seal", "apply"}
      BY DEF Read, Seal, Apply, At
    <3>2. q[s].op = "patch"
      BY <3>1, Zenon DEF Inv, HandlerInv, HandlerOK, Busy, WellFormed, StepsOf, Request
    <3>3. q' = q
      BY <1>2, <1>3, Zenon DEF Read, Seal, Apply
    <3> QED BY <1>0, <3>2, <3>3
  <2>6. Count(s)
    BY <1>5, <2>1, <2>2, <2>3, <2>4, <2>5, <2>0 DEF SlotStep, Handle
  <2>7. ~QuotaReached(Cardinality(OwnedIds(rows, q[s].user))) /\ Goto(s, "begin")
    BY <1>2, <2>6, Zenon DEF Count
  <2>8. q[s].user = user
    BY <1>0, <1>3, <2>7
  <2> QED BY <2>6, <2>7, <2>8 DEF Count
<1>6. ASSUME NEW p \in Procs, Die(p) PROVE FALSE
  <2>1. CASE s \in SlotsOf(p)
    BY <1>0, <1>6, <2>1 DEF Die
  <2>2. CASE s \notin SlotsOf(p)
    BY <1>4, <1>6, <2>2 DEF Die, Same
  <2> QED BY <2>1, <2>2
<1>7. ~UNCHANGED <<dbVars, txVars, reqVars>>
  BY <1>4 DEF reqVars, Same
<1> QED BY <1>0, <1>4, <1>5, <1>6, <1>7, StepKinds, SlotFrame

\* A user comes to own another row only where one of the pending creates commits.
LEMMA OwnedStep ==
    ASSUME Inv, [Next]_vars, NEW user,
           ~(OwnedIds(rows, user)' \subseteq OwnedIds(rows, user))
    PROVE  \E s \in Slots :
             /\ s \in Pending(user) /\ s \notin Pending(user)'
             /\ OwnedIds(rows, user)' \subseteq OwnedIds(rows, user) \cup {txSeq}
<1>0. TypeOK /\ rows \in Tables
  BY DEF Inv, TypeOK
<1>1. ~UNCHANGED dbVars
  BY DEF dbVars, OwnedIds
<1>2. ASSUME NEW s \in Slots, rows' = [rows EXCEPT ![q[s].id] = NoRow] PROVE FALSE
  <2>1. \A id \in Ids : rows'[id] = rows[id] \/ rows'[id] = NoRow
    BY <1>0, <1>2 DEF Tables
  <2> QED BY <2>1 DEF OwnedIds, Lookup
<1>3. PICK s \in Slots : Commit(s)
  BY <1>1, <1>2, TableStep
<1>4. rows' = txRows /\ pc[s] = "commit" /\ WellFormed(q[s]) /\ q[s].op \in {"create", "patch"}
  BY <1>3, CommitIsCreateOrPatch DEF Commit
<1>5. q[s].op # "patch"
  <2> SUFFICES ASSUME q[s].op = "patch" PROVE FALSE
    OBVIOUS
  <2>1. /\ TxOnly(q[s].id) /\ rows[q[s].id] \in Row
        /\ txRows[q[s].id].user = rows[q[s].id].user
    BY <1>4 DEF Inv, TxInv, TxOK, TxPatches, RowEvolves
  <2>2. rows[q[s].id] # NoRow
    BY <2>1, ConstantsOK, Zenon
  <2>3. \A id \in Ids : \/ rows'[id] = rows[id]
                        \/ rows[id] # NoRow /\ rows'[id].user = rows[id].user
    BY <1>4, <2>1, <2>2 DEF TxOnly
  <2> QED BY <2>3 DEF OwnedIds, Lookup
<1>6. TxOnly(txSeq) /\ txRows[txSeq].user = q[s].user
  BY <1>4, <1>5, Zenon DEF Inv, TxInv, TxOK, TxCreates
<1>7. OwnedIds(rows, user)' \subseteq OwnedIds(rows, user) \cup {txSeq}
  BY <1>4, <1>6 DEF OwnedIds, Lookup, TxOnly
<1>8. q[s].user = user
  <2>1. PICK id \in Ids : Lookup(rows', user, id) # NoRow /\ Lookup(rows, user, id) = NoRow
    BY DEF OwnedIds
  <2>2. id = txSeq
    BY <1>7, <2>1 DEF OwnedIds
  <2> QED BY <1>4, <1>6, <2>1, <2>2 DEF Lookup
<1>9. pc'[s] = "idle"
  BY <1>0, <1>3, <1>4, <1>5 DEF Commit, Respond, TypeOK
<1>10. q[s] # Nil
  BY <1>4, ConstantsOK, Zenon DEF WellFormed
<1> QED BY <1>4, <1>5, <1>7, <1>8, <1>9, <1>10 DEF Pending

\* Every step keeps the bound.
LEMMA QuotaStep == Inv /\ Inv' /\ QuotaSlack /\ [Next]_vars => QuotaSlack'
<1> SUFFICES ASSUME Inv, QuotaSlack, [Next]_vars, NEW user \in Users
             PROVE  Cardinality(OwnedIds(rows, user)') + Cardinality(Pending(user)')
                      <= MaxConfigsPerUser - 1 + Cardinality(Slots)
  BY DEF QuotaSlack
<1> DEFINE O == OwnedIds(rows, user)
           P == Pending(user)
           OO == OwnedIds(rows, user)'
           PP == Pending(user)'
<1>1. /\ IsFiniteSet(O) /\ Cardinality(O) \in Nat /\ IsFiniteSet(P) /\ Cardinality(P) \in Nat
      /\ IsFiniteSet(Slots) /\ Cardinality(Slots) \in Nat
      /\ MaxConfigsPerUser \in Nat /\ MaxConfigsPerUser >= 1
      /\ Cardinality(O) + Cardinality(P) <= MaxConfigsPerUser - 1 + Cardinality(Slots)
  BY Countable DEF QuotaSlack
<1>2. PP \subseteq Slots
  BY DEF Pending
<1>3. CASE ~(PP \subseteq P)
  <2>1. PICK s \in Slots : s \in PP /\ s \notin P
    BY <1>2, <1>3
  <2>2. UNCHANGED dbVars /\ ~QuotaReached(Cardinality(O))
    BY <2>1, PendingStep
  <2>3. OO = O
    BY <2>2 DEF dbVars, OwnedIds
  <2> HIDE DEF O, OO, PP
  <2>4. Cardinality(PP) <= Cardinality(Slots) /\ Cardinality(PP) \in Nat
    BY <1>1, <1>2, FS_Subset, FS_CardinalityType
  <2>5. Cardinality(OO) <= MaxConfigsPerUser - 1 /\ Cardinality(OO) \in Nat
    BY <1>1, <2>2, <2>3 DEF QuotaReached
  <2>6. Cardinality(OO) + Cardinality(PP) <= MaxConfigsPerUser - 1 + Cardinality(Slots)
    BY <1>1, <2>4, <2>5
  <2> QED BY <2>6 DEF OO, PP
<1>4. CASE PP \subseteq P /\ OO \subseteq O
  <2> HIDE DEF O, P, OO, PP
  <2>1. /\ Cardinality(OO) <= Cardinality(O) /\ Cardinality(OO) \in Nat
        /\ Cardinality(PP) <= Cardinality(P) /\ Cardinality(PP) \in Nat
    BY <1>1, <1>4, FS_Subset, FS_CardinalityType
  <2>2. Cardinality(OO) + Cardinality(PP) <= MaxConfigsPerUser - 1 + Cardinality(Slots)
    BY <1>1, <2>1
  <2> QED BY <2>2 DEF OO, PP
<1>5. CASE PP \subseteq P /\ ~(OO \subseteq O)
  <2>1. PICK s \in Slots : s \in P /\ s \notin PP /\ OO \subseteq O \cup {txSeq}
    BY <1>5, OwnedStep
  <2> HIDE DEF O, P, OO, PP
  <2>2. PP \subseteq P \ {s}
    BY <1>5, <2>1
  <2>3. /\ IsFiniteSet(P \ {s}) /\ Cardinality(P \ {s}) = Cardinality(P) - 1
        /\ IsFiniteSet(O \cup {txSeq}) /\ Cardinality(O \cup {txSeq}) <= Cardinality(O) + 1
    <3>1. IsFiniteSet(P \ {s}) /\ Cardinality(P \ {s}) = Cardinality(P) - 1
      BY <1>1, <2>1, FS_RemoveElement, Zenon
    <3>2. /\ IsFiniteSet(O \cup {txSeq})
          /\ Cardinality(O \cup {txSeq}) = IF txSeq \in O THEN Cardinality(O) ELSE Cardinality(O) + 1
      BY <1>1, FS_AddElement, Zenon
    <3> QED BY <1>1, <3>1, <3>2
  <2>4. /\ Cardinality(PP) <= Cardinality(P \ {s}) /\ Cardinality(PP) \in Nat
        /\ Cardinality(OO) <= Cardinality(O \cup {txSeq}) /\ Cardinality(OO) \in Nat
        /\ Cardinality(P \ {s}) \in Nat /\ Cardinality(O \cup {txSeq}) \in Nat
    BY <2>1, <2>2, <2>3, FS_Subset, FS_CardinalityType
  <2>5. Cardinality(OO) + Cardinality(PP) <= MaxConfigsPerUser - 1 + Cardinality(Slots)
    BY <1>1, <2>3, <2>4
  <2> QED BY <2>5 DEF OO, PP
<1> QED BY <1>3, <1>4, <1>5

\* However many handlers and processes create at once and however they fail, a user
\* never owns more than the quota plus the number of other requests in flight: the
\* count of handleCreateConfig and its insert are separate statements, and this is
\* all that costs.
THEOREM QuotaBounded == Spec => []QuotaSlack
<1>1. Init => QuotaSlack
  <2> SUFFICES ASSUME Init, NEW user \in Users
               PROVE  Cardinality(OwnedIds(rows, user)) + Cardinality(Pending(user))
                        <= MaxConfigsPerUser - 1 + Cardinality(Slots)
    BY DEF QuotaSlack
  <2>1. OwnedIds(rows, user) = {} /\ Pending(user) = {}
    BY DEF Init, OwnedIds, Lookup, Pending
  <2>2. Cardinality(OwnedIds(rows, user)) = 0 /\ Cardinality(Pending(user)) = 0
    BY <2>1, FS_EmptySet
  <2>3. /\ Cardinality(Slots) \in Nat
        /\ MaxConfigsPerUser \in Nat /\ MaxConfigsPerUser >= 1
    BY Countable
  <2> QED BY <2>2, <2>3
<1> QED BY <1>1, Invariance, QuotaStep, PTL DEF Spec

\* A service that handles one request at a time keeps the quota exactly.
THEOREM QuotaHoldsAlone ==
    ASSUME Cardinality(Slots) = 1
    PROVE  Spec => []QuotaHolds
<1>1. QuotaSlack => QuotaHolds
  <2> SUFFICES ASSUME QuotaSlack, NEW user \in Users
               PROVE  Cardinality(OwnedIds(rows, user)) <= MaxConfigsPerUser
    BY DEF QuotaHolds
  <2>1. /\ Cardinality(OwnedIds(rows, user)) \in Nat /\ Cardinality(Pending(user)) \in Nat
        /\ MaxConfigsPerUser \in Nat
    BY Countable
  <2>2. Cardinality(OwnedIds(rows, user)) + Cardinality(Pending(user)) <= MaxConfigsPerUser - 1 + 1
    BY DEF QuotaSlack
  <2> QED BY <2>1, <2>2
<1> QED BY <1>1, QuotaBounded, PTL
==============================================================================
