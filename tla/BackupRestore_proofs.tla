------------------------ MODULE BackupRestore_proofs ------------------------
(***************************************************************************)
(* Proofs about BackupRestore, for any number of rows, backups, restores   *)
(* and kills.                                                              *)
(***************************************************************************)
EXTENDS BackupRestore, TLAPS

Files == {"db", "wal", "key", "users", "token"}
Parts == {"db", "key", "users"}
Row == [id : 1..MaxDraws, key : 1..MaxDraws]

\* The turn of a file in the loops of restore.sh and backup.sh.
Turn(f) == IF f = "db" THEN 1 ELSE IF f = "wal" THEN 2 ELSE IF f = "key" THEN 3
           ELSE IF f = "users" THEN 4 ELSE 5
PartTurn(f) == IF f = "db" THEN 1 ELSE IF f = "key" THEN 2 ELSE 3

\* What a file of the name may hold when n values have been drawn: the rows and
\* the values among them.  Nothing puts a damaged log or key on the volume.
Drawn(n) == {row \in Row : row.id \in 1..n /\ row.key \in 1..n}

FileOK(f, x, n) ==
    /\ f = "db" => x \in {Absent, Damaged} \cup SUBSET Drawn(n)
    /\ f = "wal" => x \in {Absent} \cup SUBSET Drawn(n)
    /\ f = "key" => x \in {Absent} \cup 1..n
    /\ f \in {"users", "token"} => x \in {Absent, Damaged} \cup 1..n

VolumeOK(v, n) == v = [f \in Files |-> v[f]] /\ \A f \in Files : FileOK(f, v[f], n)
PayloadOK(v, n) == v = [f \in Parts |-> v[f]] /\ \A f \in Parts : FileOK(f, v[f], n)

Steps == {"idle", "bstop", "copy", "publish", "rstop", "extract", "finish"} \cup InContainer

TypeInv ==
    /\ draws \in Nat /\ i \in 1..5 /\ pc \in Steps
    /\ svc \in {"up", "stopped", "crashed"} /\ was \in BOOLEAN /\ broken \in BOOLEAN
    /\ VolumeOK(data, draws) /\ VolumeOK(old, draws) /\ \A b \in before : VolumeOK(b, draws)
    /\ PayloadOK(tmp, draws) /\ PayloadOK(src, draws) /\ PayloadOK(new, draws)
    /\ \A b \in backups : PayloadOK(b.files, draws)

\* Where the loops are.
IndexInv ==
    /\ pc \in {"bstop", "rstop", "extract", "clear"} => i = 1
    /\ pc \in {"copy", "install"} => i \in 1..3

\* The service is down wherever a script takes it to be.
QuietInv ==
    /\ pc \in {"copy", "publish", "extract"} \cup InContainer => svc # "up"
    /\ pc \in {"bstop", "rstop"} /\ ~was => svc # "up"
    /\ before # {} => svc # "up"

\* A running service has opened its files.
UpInv ==
    svc = "up" => data.db \notin {Absent, Damaged} /\ data.wal # Absent /\ data.key # Absent

\* A file of b is in its place, or it is in .restore-old and its place is free.
Here(b, f) == data[f] = b[f] /\ old[f] = Absent
Aside(b, f) == data[f] = Absent /\ old[f] = b[f]

\* The volume is what the source of the restore has.
Restored ==
    /\ data.wal = Absent /\ data.token = Absent
    /\ \A f \in Parts : data[f] = src[f]

\* Where the files of the volume are at each step of a restore.
PhaseInv ==
    /\ pc \in InContainer \ {"sweep"} => before # {}
    /\ pc = "move" => new = src
    /\ pc = "move" => \A b \in before : \A f \in Files :
         IF Turn(f) < i THEN Aside(b, f) ELSE Here(b, f)
    /\ pc \in {"install", "doctor", "clear"} => \A b \in before : old = b
    /\ pc = "install" =>
         /\ data.wal = Absent /\ data.token = Absent
         /\ \A f \in Parts : IF PartTurn(f) < i THEN data[f] = src[f] ELSE new[f] = src[f]
    /\ pc = "doctor" => Restored
    /\ pc = "putback" => \A b \in before : \A f \in Files :
         IF Turn(f) < i THEN data[f] = b[f] ELSE Aside(b, f) \/ Here(b, f)
    /\ pc = "sweep" => IF before = {} THEN Restored ELSE \A b \in before : data = b
    /\ pc \notin InContainer => OldFilesKept

\* A volume a service can start on with every row it owes: no log without its
\* database, and no row without its key.
Whole(v, owes) ==
    /\ v.db # Damaged
    /\ v.db = Absent => v.wal = Absent
    /\ v.key = Absent => Rows(v) = {}
    /\ owes \subseteq Rows(v)
    /\ Readable(Rows(v), v.key)

\* Unless a killed restore left the volume half done, it is whole, or what it
\* was before the restore is; outside the container of a restore the two agree.
WholeInv ==
    ~broken =>
      /\ before = {} => Whole(data, acked)
      /\ \A b \in before : Whole(b, acked)
      /\ pc \notin InContainer => \A b \in before : data = b

\* What backup.sh has copied is what is on the volume.
CopyInv ==
    /\ pc = "copy" => \A f \in Parts : PartTurn(f) < i => tmp[f] = data[f] /\ data[f] # Absent
    /\ pc = "publish" => \A f \in Parts : tmp[f] = data[f] /\ data[f] # Absent

\* The inductive invariant.
Inv ==
    /\ TypeInv /\ IndexInv /\ QuietInv /\ UpInv
    /\ PhaseInv /\ WholeInv /\ CopyInv /\ BackupsComplete
----------------------------------------------------------------------------
(***************************************************************************)
(* Files, volumes and loops.                                               *)
(***************************************************************************)

\* The loops reach every file once, in its turn.
LEMMA Turns ==
    /\ Len(LiveFiles) = 5 /\ Len(Payload) = 3 /\ Parts \subseteq Files
    /\ \A j \in 1..5 : LiveFiles[j] \in Files /\ Turn(LiveFiles[j]) = j
    /\ \A f \in Files : Turn(f) \in 1..5 /\ LiveFiles[Turn(f)] = f
    /\ \A j \in 1..3 : Payload[j] \in Parts /\ PartTurn(Payload[j]) = j
    /\ \A f \in Parts : PartTurn(f) \in 1..3 /\ Payload[PartTurn(f)] = f
BY DEF LiveFiles, Payload, Files, Parts, Turn, PartTurn

\* Empty directories.
LEMMA Empty ==
    /\ \A n \in Nat : VolumeOK(NoFiles, n) /\ PayloadOK(NoPayload, n)
    /\ \A f \in Files : NoFiles[f] = Absent
    /\ DOMAIN NoFiles = Files /\ DOMAIN NoPayload = Parts
<1>1. NoFiles = [f \in Files |-> NoFiles[f]] /\ \A f \in Files : NoFiles[f] = Absent
  BY DEF NoFiles, Files
<1>2. NoPayload = [f \in Parts |-> NoPayload[f]] /\ \A f \in Parts : NoPayload[f] = Absent
  BY DEF NoPayload, Parts
<1>3. DOMAIN NoFiles = Files /\ DOMAIN NoPayload = Parts
  BY DEF NoFiles, Files, NoPayload, Parts
<1> QED BY <1>1, <1>2, <1>3 DEF VolumeOK, PayloadOK, FileOK

\* What a volume may hold it may hold when more has been drawn.
LEMMA DrawsGrow ==
    ASSUME NEW n \in Nat, NEW m \in Nat, n <= m
    PROVE  /\ \A v : VolumeOK(v, n) => VolumeOK(v, m)
           /\ \A v : PayloadOK(v, n) => PayloadOK(v, m)
<1>1. 1..n \subseteq 1..m /\ Drawn(n) \subseteq Drawn(m)
  BY DEF Drawn
<1>2. SUBSET Drawn(n) \subseteq SUBSET Drawn(m)
  BY <1>1
<1>3. \A f, x : FileOK(f, x, n) => FileOK(f, x, m)
  BY <1>1, <1>2, Zenon DEF FileOK
<1> QED BY <1>3 DEF VolumeOK, PayloadOK

\* One file of a directory changes.
LEMMA OneFile ==
    ASSUME NEW n, NEW v, VolumeOK(v, n), NEW f \in Files, NEW x, FileOK(f, x, n)
    PROVE  /\ VolumeOK([v EXCEPT ![f] = x], n)
           /\ [v EXCEPT ![f] = x][f] = x
           /\ \A g \in Files : g # f => [v EXCEPT ![f] = x][g] = v[g]
<1> DEFINE w == [v EXCEPT ![f] = x]
<1>1. w = [g \in Files |-> w[g]] /\ w[f] = x /\ \A g \in Files : g # f => w[g] = v[g]
  BY DEF VolumeOK
<1> HIDE DEF w
<1>2. \A g \in Files : FileOK(g, w[g], n)
  BY <1>1 DEF VolumeOK
<1>3. VolumeOK(w, n)
  BY <1>1, <1>2 DEF VolumeOK
<1> QED BY <1>1, <1>3 DEF w

\* One file of a payload changes.
LEMMA OnePart ==
    ASSUME NEW n, NEW v, PayloadOK(v, n), NEW f \in Parts, NEW x, FileOK(f, x, n)
    PROVE  /\ PayloadOK([v EXCEPT ![f] = x], n)
           /\ [v EXCEPT ![f] = x][f] = x
           /\ \A g \in Parts : g # f => [v EXCEPT ![f] = x][g] = v[g]
<1> DEFINE w == [v EXCEPT ![f] = x]
<1>1. w = [g \in Parts |-> w[g]] /\ w[f] = x /\ \A g \in Parts : g # f => w[g] = v[g]
  BY DEF PayloadOK
<1> HIDE DEF w
<1>2. \A g \in Parts : FileOK(g, w[g], n)
  BY <1>1 DEF PayloadOK
<1>3. PayloadOK(w, n)
  BY <1>1, <1>2 DEF PayloadOK
<1> QED BY <1>1, <1>3 DEF w

\* Volumes with the same files are equal.
LEMMA SameVolume ==
    ASSUME NEW n, NEW v, NEW w, VolumeOK(v, n), VolumeOK(w, n), \A f \in Files : v[f] = w[f]
    PROVE  v = w
BY DEF VolumeOK
----------------------------------------------------------------------------
(***************************************************************************)
(* What a start and a stop make of a volume.                               *)
(***************************************************************************)

\* The files of a volume, one by one.
LEMMA Fields ==
    ASSUME NEW v, NEW n, VolumeOK(v, n)
    PROVE  /\ v.db \in {Absent, Damaged} \cup SUBSET Drawn(n)
           /\ v.wal \in {Absent} \cup SUBSET Drawn(n)
           /\ v.key \in {Absent} \cup 1..n
           /\ \A rows \in SUBSET Drawn(n) : rows # Absent /\ rows # Damaged
<1>1. \A rows \in SUBSET Drawn(n) : rows # Absent /\ rows # Damaged
  <2>1. SUBSET Drawn(n) \subseteq SUBSET Row
    BY DEF Drawn
  <2> QED BY <2>1, FilesAssumption, Zenon DEF Row
<1> QED BY <1>1 DEF VolumeOK, FileOK, Files

\* A checkpoint keeps the rows.
LEMMA CheckpointedOK ==
    ASSUME NEW n \in Nat, NEW v, VolumeOK(v, n), v.db # Damaged
    PROVE  /\ VolumeOK(Checkpointed(v), n)
           /\ Checkpointed(v).db # Damaged
           /\ Checkpointed(v).users = v.users /\ Checkpointed(v).key = v.key
           /\ Rows(Checkpointed(v)) = Rows(v)
           /\ \A owes : Whole(v, owes) => Whole(Checkpointed(v), owes)
<1>1. CASE v.wal = Absent
  BY <1>1 DEF Checkpointed
<1>2. CASE v.wal # Absent
  <2> DEFINE u == [v EXCEPT !.db = Rows(v)]
             w == [u EXCEPT !.wal = Absent]
  <2>1. Rows(v) \in SUBSET Drawn(n)
    BY <1>2, Fields DEF Rows, Contents
  <2>2. Rows(v) # Absent /\ Rows(v) # Damaged
    BY <2>1, Fields
  <2>3. "db" \in Files /\ "wal" \in Files /\ "key" \in Files /\ "users" \in Files
    BY DEF Files
  <2>4. FileOK("db", Rows(v), n) /\ FileOK("wal", Absent, n)
    BY <2>1 DEF FileOK
  <2>5. VolumeOK(u, n) /\ u.db = Rows(v) /\ u.key = v.key /\ u.users = v.users
    BY <2>3, <2>4, OneFile
  <2> HIDE DEF u
  <2>6. VolumeOK(w, n) /\ w.db = Rows(v) /\ w.wal = Absent /\ w.key = v.key /\ w.users = v.users
    BY <2>3, <2>4, <2>5, OneFile
  <2>7. Checkpointed(v) = w
    BY <1>2 DEF Checkpointed, u
  <2> HIDE DEF w
  <2>8. Rows(w) = Rows(v)
    BY <2>2, <2>6 DEF Rows, Contents
  <2>9. ASSUME NEW owes, Whole(v, owes) PROVE Whole(w, owes)
    BY <2>2, <2>6, <2>8, <2>9 DEF Whole
  <2> QED BY <2>2, <2>6, <2>7, <2>8, <2>9
<1> QED BY <1>1, <1>2

\* The entrypoint leaves rows and key alone.
LEMMA BootstrappedOK ==
    ASSUME draws \in Nat, NEW v, VolumeOK(v, draws)
    PROVE  /\ VolumeOK(Bootstrapped(v), draws + 1)
           /\ Bootstrapped(v) = v \/ (v.users = Absent /\ Bootstrapped(v).users = draws + 1)
           /\ Bootstrapped(v).db = v.db /\ Bootstrapped(v).wal = v.wal
           /\ Bootstrapped(v).key = v.key
<1>0. VolumeOK(v, draws + 1)
  <2>1. draws + 1 \in Nat /\ draws <= draws + 1
    OBVIOUS
  <2> QED BY <2>1, DrawsGrow
<1>1. CASE v.users # Absent
  BY <1>0, <1>1 DEF Bootstrapped
<1>2. CASE v.users = Absent
  <2> DEFINE u == [v EXCEPT !.users = draws + 1]
             w == [u EXCEPT !.token = draws + 1]
  <2>1. FileOK("users", draws + 1, draws + 1) /\ FileOK("token", draws + 1, draws + 1)
    BY DEF FileOK
  <2>2. "users" \in Files /\ "token" \in Files /\ "db" \in Files /\ "wal" \in Files /\ "key" \in Files
    BY DEF Files
  <2>3. /\ VolumeOK(u, draws + 1) /\ u.users = draws + 1
        /\ u.db = v.db /\ u.wal = v.wal /\ u.key = v.key
    BY <1>0, <2>1, <2>2, OneFile
  <2> HIDE DEF u
  <2>4. /\ VolumeOK(w, draws + 1) /\ w.users = draws + 1
        /\ w.db = v.db /\ w.wal = v.wal /\ w.key = v.key
    BY <2>1, <2>2, <2>3, OneFile
  <2>5. Bootstrapped(v) = w
    BY <1>2 DEF Bootstrapped, u
  <2> QED BY <1>2, <2>4, <2>5
<1> QED BY <1>1, <1>2

\* sqlite.Open on a database that is not damaged.
LEMMA OpenedOK ==
    ASSUME NEW n \in Nat, NEW v, VolumeOK(v, n), v.db # Damaged
    PROVE  /\ VolumeOK(Opened(v), n)
           /\ Opened(v).db \notin {Absent, Damaged} /\ Opened(v).wal # Absent
           /\ Opened(v).key = v.key /\ Opened(v).users = v.users
           /\ \A owes : Whole(v, owes) => Whole(Opened(v), owes)
<1> DEFINE w == Opened(v)
<1>1. {} \in SUBSET Drawn(n) /\ {} # Absent /\ {} # Damaged
  <2>1. {} \in SUBSET Drawn(n)
    OBVIOUS
  <2> QED BY <2>1, Fields
<1>2. "users" \in Files /\ "db" \in Files /\ "wal" \in Files /\ "key" \in Files
  BY DEF Files
<1>3. CASE v.db = Absent
  <2> DEFINE u == [v EXCEPT !.db = {}]
  <2>1. FileOK("db", {}, n) /\ FileOK("wal", {}, n)
    BY <1>1 DEF FileOK
  <2>2. VolumeOK(u, n) /\ u.db = {} /\ u.users = v.users /\ u.key = v.key
    BY <1>2, <2>1, OneFile
  <2>3. w = [u EXCEPT !.wal = {}]
    BY <1>3 DEF Opened
  <2> HIDE DEF u, w
  <2>4. VolumeOK(w, n) /\ w.db = {} /\ w.wal = {} /\ w.users = v.users /\ w.key = v.key
    BY <1>2, <2>1, <2>2, <2>3, OneFile
  <2>5. ASSUME NEW owes, Whole(v, owes) PROVE Whole(w, owes)
    <3>1. Rows(v) = {} /\ Rows(w) = {}
      BY <1>1, <1>3, <2>4, <2>5 DEF Whole, Rows, Contents
    <3> QED BY <1>1, <2>4, <2>5, <3>1 DEF Whole, Readable
  <2> QED BY <1>1, <2>4, <2>5 DEF w
<1>4. CASE v.db # Absent
  <2>1. FileOK("wal", Contents(v.wal), n) /\ Contents(v.wal) # Absent
    BY <1>1, Fields DEF FileOK, Contents
  <2>2. w = [v EXCEPT !.wal = Contents(v.wal)]
    BY <1>4 DEF Opened
  <2> HIDE DEF w
  <2>3. VolumeOK(w, n) /\ w.db = v.db /\ w.wal = Contents(v.wal) /\ w.users = v.users /\ w.key = v.key
    BY <1>2, <2>1, <2>2, OneFile
  <2>4. Rows(w) = Rows(v)
    BY <2>1, <2>3 DEF Rows, Contents
  <2>5. ASSUME NEW owes, Whole(v, owes) PROVE Whole(w, owes)
    BY <1>4, <2>3, <2>4, <2>5 DEF Whole
  <2> QED BY <1>4, <2>1, <2>3, <2>5 DEF w
<1> QED BY <1>3, <1>4

\* A start keeps the rows, and a service that comes up has opened its files.
LEMMA StartedOK ==
    ASSUME draws \in Nat, NEW v, VolumeOK(v, draws)
    PROVE  /\ VolumeOK(Started(v), draws + 1)
           /\ Started(v).users = v.users /\ Started(v).key = v.key => VolumeOK(Started(v), draws)
           /\ Damaged \notin {Started(v).db, Started(v).users} =>
                /\ Started(v).db \notin {Absent, Damaged}
                /\ Started(v).wal # Absent /\ Started(v).key # Absent
           /\ \A owes : Whole(v, owes) => Whole(Started(v), owes)
<1> DEFINE u == Bootstrapped(v)
           o == Opened(u)
           w == Started(v)
           n == IF u = v THEN draws ELSE draws + 1
<1>1. /\ VolumeOK(u, n) /\ u.db = v.db /\ u.wal = v.wal /\ u.key = v.key
      /\ u = v \/ u.users # v.users
  <2>1. /\ VolumeOK(u, draws + 1) /\ u.db = v.db /\ u.wal = v.wal /\ u.key = v.key
        /\ u = v \/ (v.users = Absent /\ u.users = draws + 1)
    BY BootstrappedOK
  <2> HIDE DEF u
  <2>2. draws + 1 # Absent
    BY FilesAssumption
  <2> QED BY <2>1, <2>2
<1>2. \A owes : Whole(v, owes) => Whole(u, owes)
  BY <1>1 DEF Whole, Rows
<1>3. n \in Nat /\ \A x : VolumeOK(x, n) => VolumeOK(x, draws + 1)
  <2>1. n \in Nat /\ n <= draws + 1
    OBVIOUS
  <2> QED BY <2>1, DrawsGrow
<1>4. u.users = v.users => n = draws
  BY <1>1
<1> HIDE DEF n
<1>5. CASE u.db = Damaged
  <2>1. w = u
    BY <1>5 DEF Started
  <2> QED BY <1>1, <1>2, <1>3, <1>4, <1>5, <2>1
<1>6. CASE u.db # Damaged /\ u.users = Damaged
  <2>1. w = Checkpointed(o)
    BY <1>6 DEF Started
  <2> HIDE DEF u, w
  <2>2. /\ VolumeOK(o, n) /\ o.db # Damaged /\ o.users = u.users /\ o.key = u.key
        /\ \A owes : Whole(u, owes) => Whole(o, owes)
    BY <1>1, <1>3, <1>6, OpenedOK
  <2> HIDE DEF o
  <2>3. /\ VolumeOK(w, n) /\ w.users = u.users /\ w.key = v.key
        /\ \A owes : Whole(o, owes) => Whole(w, owes)
    BY <1>1, <1>3, <2>1, <2>2, CheckpointedOK
  <2> QED BY <1>2, <1>3, <1>4, <1>6, <2>2, <2>3 DEF w
<1>7. CASE u.db # Damaged /\ u.users # Damaged
  <2>1. w = Keyed(o)
    BY <1>7 DEF Started
  <2> HIDE DEF u, w
  <2>2. /\ VolumeOK(o, n) /\ o.db \notin {Absent, Damaged} /\ o.wal # Absent
        /\ o.users = u.users /\ o.key = u.key
        /\ \A owes : Whole(u, owes) => Whole(o, owes)
    BY <1>1, <1>3, <1>7, OpenedOK
  <2> HIDE DEF o
  <2>3. CASE o.key # Absent
    BY <1>1, <1>2, <1>3, <1>4, <2>1, <2>2, <2>3 DEF Keyed, w
  <2>4. CASE o.key = Absent
    <3>1. w = [o EXCEPT !.key = draws + 1]
      BY <2>1, <2>4 DEF Keyed
    <3>2. FileOK("key", draws + 1, draws + 1) /\ VolumeOK(o, draws + 1)
      BY <1>3, <2>2 DEF FileOK
    <3>3. "db" \in Files /\ "wal" \in Files /\ "key" \in Files
      BY DEF Files
    <3>4. VolumeOK(w, draws + 1) /\ w.key = draws + 1 /\ w.db = o.db /\ w.wal = o.wal
      BY <3>1, <3>2, <3>3, OneFile
    <3>5. draws + 1 # Absent
      BY FilesAssumption
    <3>6. ASSUME NEW owes, Whole(o, owes) PROVE Whole(w, owes)
      <4>1. Rows(o) = {} /\ Rows(w) = {}
        BY <2>4, <3>4, <3>6 DEF Whole, Rows
      <4> QED BY <3>4, <3>5, <3>6, <4>1 DEF Whole, Readable
    <3> QED BY <1>1, <1>2, <2>2, <2>4, <3>4, <3>5, <3>6 DEF w
  <2> QED BY <2>3, <2>4
<1> QED BY <1>5, <1>6, <1>7
----------------------------------------------------------------------------
(***************************************************************************)
(* The service keeps the invariant.                                        *)
(***************************************************************************)

\* The invariant holds of a volume nobody has started on.
LEMMA InitInv == Init => Inv
<1> SUFFICES ASSUME Init PROVE Inv
  OBVIOUS
<1>1. TypeInv
  <2>1. VolumeOK(NoFiles, 0) /\ PayloadOK(NoPayload, 0)
    BY Empty
  <2>2. draws \in Nat /\ i \in 1..5
    BY DEF Init
  <2> QED BY <2>1, <2>2, Zenon DEF Init, TypeInv, Steps
<1>2. IndexInv /\ QuietInv /\ UpInv /\ CopyInv /\ BackupsComplete
  BY DEF Init, IndexInv, QuietInv, UpInv, CopyInv, BackupsComplete, InContainer
<1>3. PhaseInv
  BY DEF Init, PhaseInv, InContainer, OldFilesKept
<1>4. Whole(NoFiles, {})
  BY FilesAssumption DEF Whole, NoFiles, Rows, Contents, Readable
<1>5. WholeInv
  BY <1>4 DEF Init, WholeInv
<1> QED BY <1>1, <1>2, <1>3, <1>5 DEF Inv

\* What a start of the service outside the container of a restore does.
LEMMA StartKeeps ==
    ASSUME Inv, StartService, pc \notin InContainer
    PROVE  /\ draws' \in Nat /\ draws <= draws' /\ svc' \in {"up", "crashed"} /\ before' = {}
           /\ VolumeOK(data', draws')
           /\ UpInv'
           /\ ~broken => Whole(data', acked)
<1>1. draws \in Nat /\ VolumeOK(data, draws) /\ data' = Started(data)
  BY DEF Inv, TypeInv, StartService
<1>2. /\ VolumeOK(data', draws + 1)
      /\ data'.users = data.users /\ data'.key = data.key => VolumeOK(data', draws)
      /\ Damaged \notin {data'.db, data'.users} =>
           data'.db \notin {Absent, Damaged} /\ data'.wal # Absent /\ data'.key # Absent
      /\ \A owes : Whole(data, owes) => Whole(data', owes)
  BY <1>1, StartedOK
<1>3. draws' = IF data'.users = data.users /\ data'.key = data.key THEN draws ELSE draws + 1
  BY DEF StartService
<1>4. VolumeOK(data', draws')
  BY <1>2, <1>3
<1>5. svc' \in {"up", "crashed"} /\ before' = {} /\ UpInv'
  BY <1>2 DEF StartService, UpInv
<1>6. ~broken => Whole(data', acked)
  BY <1>2 DEF Inv, WholeInv
<1> QED BY <1>1, <1>3, <1>4, <1>5, <1>6

\* What a stop does.
LEMMA StopKeeps ==
    ASSUME Inv, StopService, pc \notin InContainer
    PROVE  /\ draws' = draws /\ svc' = "stopped"
           /\ VolumeOK(data', draws)
           /\ before # {} => data' = data
           /\ ~broken => Whole(data', acked)
<1>1. draws' = draws /\ svc' = "stopped"
  BY DEF StopService
<1>2. ~broken => Whole(data, acked)
  BY DEF Inv, WholeInv
<1>3. CASE svc = "up"
  <2>1. before = {} /\ data.db # Damaged /\ VolumeOK(data, draws) /\ draws \in Nat
    BY <1>3 DEF Inv, QuietInv, UpInv, TypeInv
  <2>2. data' \in {Checkpointed(data), data}
    BY <1>3 DEF StopService
  <2> QED BY <1>1, <1>2, <2>1, <2>2, CheckpointedOK
<1>4. CASE svc # "up"
  <2>1. data' = data
    BY <1>4 DEF StopService
  <2> QED BY <1>1, <1>2, <2>1 DEF Inv, TypeInv
<1> QED BY <1>3, <1>4

\* An operator, or Docker, starts the service.
LEMMA UpStep == ASSUME Inv, Up PROVE Inv'
<1>1. /\ pc = "idle" /\ pc \notin InContainer /\ StartService
      /\ UNCHANGED <<pc, i, was, tmp, src, new, old, backups, faults, acked, broken>>
  BY DEF Up, script, InContainer
<1>2. /\ draws' \in Nat /\ draws <= draws' /\ svc' \in {"up", "crashed"} /\ before' = {}
      /\ VolumeOK(data', draws') /\ UpInv' /\ (~broken => Whole(data', acked))
  BY <1>1, StartKeeps
<1>3. /\ \A v : VolumeOK(v, draws) => VolumeOK(v, draws')
      /\ \A v : PayloadOK(v, draws) => PayloadOK(v, draws')
  BY <1>2, DrawsGrow DEF Inv, TypeInv
<1>4. TypeInv'
  BY <1>1, <1>2, <1>3 DEF Inv, TypeInv
<1>5. IndexInv' /\ QuietInv' /\ CopyInv' /\ BackupsComplete'
  BY <1>1, <1>2 DEF Inv, IndexInv, QuietInv, CopyInv, BackupsComplete
<1>6. PhaseInv' /\ WholeInv'
  BY <1>1, <1>2 DEF PhaseInv, OldFilesKept, InContainer, WholeInv
<1> QED BY <1>2, <1>4, <1>5, <1>6 DEF Inv

\* An operator stops it.
LEMMA DownStep == ASSUME Inv, Down PROVE Inv'
<1>1. /\ pc = "idle" /\ pc \notin InContainer /\ StopService
      /\ UNCHANGED <<pc, i, was, tmp, src, new, old, backups, faults, acked, before, broken>>
  BY DEF Down, script, ghosts, InContainer
<1>2. /\ draws' = draws /\ svc' = "stopped" /\ VolumeOK(data', draws)
      /\ (before # {} => data' = data) /\ (~broken => Whole(data', acked))
  BY <1>1, StopKeeps
<1>3. TypeInv'
  BY <1>1, <1>2 DEF Inv, TypeInv
<1>4. IndexInv' /\ QuietInv' /\ UpInv' /\ CopyInv' /\ BackupsComplete'
  BY <1>1, <1>2 DEF Inv, IndexInv, QuietInv, UpInv, CopyInv, BackupsComplete
<1>5. OldFilesKept'
  BY <1>1, <1>2 DEF Inv, PhaseInv, OldFilesKept
<1>6. PhaseInv'
  BY <1>1, <1>5 DEF PhaseInv, InContainer
<1>7. WholeInv'
  BY <1>1, <1>2 DEF Inv, WholeInv
<1> QED BY <1>3, <1>4, <1>6, <1>7 DEF Inv

\* It crashes.
LEMMA CrashStep == ASSUME Inv, Crash PROVE Inv'
<1>1. /\ svc = "up" /\ svc' = "crashed" /\ before = {}
      /\ UNCHANGED <<data, draws, pc, i, was, tmp, src, new, old, backups, faults, acked, before, broken>>
      /\ pc \notin InContainer
  BY DEF Crash, script, ghosts, Inv, QuietInv
<1>2. TypeInv'
  BY <1>1 DEF Inv, TypeInv
<1>3. IndexInv' /\ QuietInv' /\ UpInv' /\ CopyInv' /\ BackupsComplete' /\ WholeInv'
  BY <1>1 DEF Inv, IndexInv, QuietInv, UpInv, CopyInv, BackupsComplete, WholeInv
<1>4. PhaseInv'
  BY <1>1 DEF PhaseInv, InContainer, OldFilesKept
<1> QED BY <1>2, <1>3, <1>4 DEF Inv

\* It stores a row, encrypted under the key it has read.
LEMMA WriteStep == ASSUME Inv, Write PROVE Inv'
<1> DEFINE row == [id |-> draws + 1, key |-> data.key]
<1>1. /\ svc = "up" /\ svc' = "up" /\ before = {} /\ pc \notin InContainer
      /\ pc \notin {"copy", "publish"}
      /\ data' = [data EXCEPT !.wal = data.wal \cup {row}]
      /\ acked' = acked \cup {row} /\ draws' = draws + 1 /\ draws < MaxDraws
      /\ UNCHANGED <<pc, i, was, tmp, src, new, old, backups, faults, before, broken>>
  BY DEF Write, script, Inv, QuietInv
<1>2. /\ draws \in Nat /\ draws' \in Nat /\ draws <= draws' /\ VolumeOK(data, draws)
      /\ data.db \notin {Absent, Damaged} /\ data.wal # Absent /\ data.key # Absent
  BY <1>1 DEF Inv, TypeInv, UpInv
<1>3. /\ \A v : VolumeOK(v, draws) => VolumeOK(v, draws')
      /\ \A v : PayloadOK(v, draws) => PayloadOK(v, draws')
  BY <1>2, DrawsGrow
<1>4. row \in Drawn(draws')
  <2>1. data.key \in 1..draws
    BY <1>2, Fields
  <2>2. draws + 1 \in 1..MaxDraws /\ data.key \in 1..MaxDraws
    BY <1>1, <1>2, <2>1, FilesAssumption
  <2>3. draws + 1 \in 1..draws' /\ data.key \in 1..draws'
    BY <1>1, <1>2, <2>1
  <2> QED BY <2>2, <2>3 DEF Drawn, Row
<1>5. data.wal \in SUBSET Drawn(draws') /\ VolumeOK(data, draws')
  BY <1>2, <1>3, Fields
<1> DEFINE log == data.wal \cup {row}
<1>6. log \in SUBSET Drawn(draws') /\ row \in log /\ row.key = data.key
  BY <1>4, <1>5
<1> HIDE DEF row
<1>7. FileOK("wal", log, draws') /\ log # Absent
  BY <1>5, <1>6, Fields DEF FileOK
<1>8. "db" \in Files /\ "wal" \in Files /\ "key" \in Files
  BY DEF Files
<1> HIDE DEF log
<1>9. VolumeOK(data', draws') /\ data'.wal = log /\ data'.db = data.db /\ data'.key = data.key
  <2> DEFINE w == [data EXCEPT !["wal"] = log]
  <2>1. data' = w
    BY <1>1 DEF log
  <2>2. /\ VolumeOK(w, draws') /\ w["wal"] = log
        /\ \A g \in Files : g # "wal" => w[g] = data[g]
    BY <1>5, <1>7, <1>8, OneFile
  <2> QED BY <1>8, <2>1, <2>2
<1>10. Rows(data') = Rows(data) \cup {row}
  BY <1>2, <1>7, <1>9 DEF Rows, Contents, log
<1>11. TypeInv'
  BY <1>1, <1>2, <1>3, <1>9 DEF Inv, TypeInv
<1>12. IndexInv' /\ QuietInv' /\ UpInv' /\ CopyInv' /\ BackupsComplete'
  BY <1>1, <1>2, <1>7, <1>9, Zenon DEF Inv, IndexInv, QuietInv, UpInv, CopyInv, BackupsComplete
<1>13. PhaseInv'
  BY <1>1 DEF PhaseInv, InContainer, OldFilesKept
<1>14. WholeInv'
  BY <1>1, <1>2, <1>6, <1>9, <1>10, Zenon DEF Inv, WholeInv, Whole, Readable
<1> QED BY <1>11, <1>12, <1>13, <1>14 DEF Inv
----------------------------------------------------------------------------
(***************************************************************************)
(* backup.sh keeps it, and so does what the scripts share.                 *)
(***************************************************************************)

\* A script begins or goes on outside the container and leaves the volume alone.
LEMMA OutsideStep ==
    ASSUME Inv, pc \notin InContainer, pc' \notin InContainer,
           UNCHANGED <<data, svc, draws, old, acked, before, broken>>
    PROVE  UpInv' /\ PhaseInv' /\ WholeInv'
<1>1. UpInv'
  BY DEF Inv, UpInv
<1>2. OldFilesKept'
  BY DEF Inv, PhaseInv, OldFilesKept
<1>3. PhaseInv'
  BY <1>2 DEF PhaseInv, InContainer
<1>4. WholeInv'
  BY DEF Inv, WholeInv
<1> QED BY <1>1, <1>3, <1>4

\* A script begins.
LEMMA BeginStep ==
    ASSUME Inv, Begin, pc' \in {"bstop", "rstop"}, PayloadOK(src', draws)
    PROVE  Inv'
<1>1. /\ pc = "idle" /\ pc \notin InContainer /\ pc' \notin InContainer /\ pc' \in Steps
      /\ was' = (svc = "up") /\ i' = 1
      /\ UNCHANGED <<data, svc, draws, tmp, new, old, backups, faults, acked, before, broken>>
  BY DEF Begin, volume, ghosts, InContainer, Steps
<1>2. was' \in BOOLEAN
  BY <1>1, Zenon
<1>3. TypeInv'
  BY <1>1, <1>2 DEF Inv, TypeInv
<1>4. IndexInv' /\ QuietInv' /\ CopyInv' /\ BackupsComplete'
  BY <1>1, Zenon DEF Inv, IndexInv, QuietInv, CopyInv, BackupsComplete, InContainer
<1> QED BY <1>1, <1>3, <1>4, OutsideStep DEF Inv

\* What restore.sh accepts has the files a backup may have.
LEMMA BeginRestoreStep ==
    ASSUME Inv, NEW files \in Sources, BeginRestore(files)
    PROVE  Inv'
<1>1. Acceptable(files) /\ Begin /\ src' = files /\ pc' = "rstop"
  BY DEF BeginRestore
<1>2. CASE files \in {b.files : b \in backups}
  <2>1. PayloadOK(files, draws)
    BY <1>2 DEF Inv, TypeInv
  <2> QED BY <1>1, <2>1, BeginStep
<1>3. CASE files \notin {b.files : b \in backups}
  <2>1. PICK b \in backups, f \in DOMAIN NoPayload, x \in {Absent, Damaged} :
          files = [b.files EXCEPT ![f] = x]
    BY <1>3 DEF Sources
  <2>2. f \in Parts /\ PayloadOK(b.files, draws)
    BY Empty DEF Inv, TypeInv
  <2>3. files[f] = x /\ DOMAIN files = Parts
    BY <2>1, <2>2 DEF PayloadOK
  <2>4. FileOK(f, x, draws)
    BY <1>1, <2>2, <2>3 DEF Acceptable, FileOK, Parts
  <2>5. PayloadOK(files, draws)
    BY <2>1, <2>2, <2>4, OnePart
  <2> QED BY <1>1, <2>5, BeginStep
<1> QED BY <1>2, <1>3

\* The stop of either script.
LEMMA ScriptStop ==
    ASSUME Inv, pc \in {"bstop", "rstop"}, StopIfRunning,
           pc' = IF pc = "bstop" THEN "copy" ELSE "extract",
           UNCHANGED <<i, was, tmp, src, new, old, backups, faults, acked, before, broken>>
    PROVE  Inv'
<1>1. pc \notin InContainer /\ pc' \notin InContainer /\ pc' \in Steps /\ i = 1
  BY DEF InContainer, Steps, Inv, IndexInv
<1>2. /\ draws' = draws /\ svc' # "up" /\ svc' \in {"up", "stopped", "crashed"}
      /\ VolumeOK(data', draws) /\ (before # {} => data' = data)
      /\ ~broken => Whole(data', acked)
  <2>1. CASE was
    <3>1. StopService
      BY <2>1 DEF StopIfRunning
    <3> QED BY <1>1, <3>1, StopKeeps
  <2>2. CASE ~was
    BY <1>1, <2>2 DEF StopIfRunning, volume, Inv, TypeInv, QuietInv, WholeInv
  <2> QED BY <2>1, <2>2
<1>3. TypeInv'
  BY <1>1, <1>2 DEF Inv, TypeInv
<1>4. PartTurn("db") = 1 /\ \A f \in Parts : ~ (PartTurn(f) < 1)
  BY DEF PartTurn, Parts
<1>5. IndexInv' /\ QuietInv' /\ UpInv' /\ CopyInv' /\ BackupsComplete'
  BY <1>1, <1>2, <1>4 DEF Inv, IndexInv, QuietInv, UpInv, CopyInv, BackupsComplete
<1>6. OldFilesKept'
  BY <1>1, <1>2 DEF Inv, PhaseInv, OldFilesKept
<1>7. PhaseInv'
  BY <1>1, <1>6 DEF PhaseInv, InContainer
<1>8. WholeInv'
  BY <1>1, <1>2 DEF Inv, WholeInv
<1> QED BY <1>3, <1>5, <1>7, <1>8 DEF Inv

\* One file is copied.
LEMMA CopyStep == ASSUME Inv, Copy PROVE Inv'
<1> DEFINE f == Payload[i]
<1>1. /\ pc = "copy" /\ data[f] # Absent /\ tmp' = [tmp EXCEPT ![f] = data[f]]
      /\ UNCHANGED <<data, svc, draws, was, src, new, old, backups, faults, acked, before, broken>>
      /\ IF i < 3 THEN i' = i + 1 /\ pc' = "copy" ELSE i' = 1 /\ pc' = "publish"
  BY Turns DEF Copy, Copyable, NextFile, volume, ghosts
<1>2. i \in 1..3 /\ f \in Parts /\ f \in Files /\ PartTurn(f) = i
  BY <1>1, Turns DEF Inv, IndexInv
<1>3. \A g \in Parts : PartTurn(g) \in 1..3 /\ (PartTurn(g) = i => g = f)
  BY Turns
<1> HIDE DEF f
<1>4. FileOK(f, data[f], draws) /\ PayloadOK(tmp, draws)
  BY <1>2 DEF Inv, TypeInv, VolumeOK
<1>5. /\ PayloadOK(tmp', draws) /\ tmp'[f] = data[f]
      /\ \A g \in Parts : g # f => tmp'[g] = tmp[g]
  <2> DEFINE w == [tmp EXCEPT ![f] = data[f]]
  <2>1. PayloadOK(w, draws) /\ w[f] = data[f] /\ \A g \in Parts : g # f => w[g] = tmp[g]
    BY <1>2, <1>4, OnePart
  <2>2. tmp' = w
    BY <1>1
  <2> QED BY <2>1, <2>2, Zenon
<1>6. pc \notin InContainer /\ pc' \notin InContainer /\ pc' \in Steps /\ i' \in 1..5
  BY <1>1, <1>2 DEF InContainer, Steps
<1>7. TypeInv'
  BY <1>1, <1>5, <1>6 DEF Inv, TypeInv
<1>8. IndexInv' /\ QuietInv' /\ BackupsComplete'
  BY <1>1, <1>2 DEF Inv, IndexInv, QuietInv, BackupsComplete
<1>9. CopyInv'
  <2>1. ASSUME NEW g \in Parts, PartTurn(g) <= i PROVE tmp'[g] = data[g] /\ data[g] # Absent
    <3>1. CASE g = f
      BY <1>1, <1>5, <3>1
    <3>2. CASE g # f
      BY <1>1, <1>2, <1>3, <1>5, <2>1, <3>2 DEF Inv, CopyInv
    <3> QED BY <3>1, <3>2
  <2> QED BY <1>1, <1>2, <1>3, <2>1 DEF CopyInv
<1> QED BY <1>1, <1>6, <1>7, <1>8, <1>9, OutsideStep DEF Inv

\* The backup is published.
LEMMA PublishStep == ASSUME Inv, Publish PROVE Inv'
<1> DEFINE new1 == [files |-> tmp, acked |-> acked, sound |-> ~broken,
                    log |-> svc # "up" /\ data.wal # Absent]
<1>1. /\ pc = "publish" /\ backups' = backups \cup {new1}
      /\ tmp' = NoPayload /\ pc' = "finish"
      /\ UNCHANGED <<data, svc, draws, i, was, src, new, old, faults, acked, before, broken>>
      /\ pc \notin InContainer /\ pc' \notin InContainer /\ pc' \in Steps
  BY DEF Publish, ExitTrap, volume, ghosts, InContainer, Steps
<1>2. TypeInv'
  <2>1. \A b \in backups' : PayloadOK(b.files, draws)
    BY <1>1 DEF Inv, TypeInv
  <2> QED BY <1>1, <2>1, Empty DEF Inv, TypeInv
<1>3. IndexInv' /\ QuietInv' /\ CopyInv'
  BY <1>1 DEF Inv, IndexInv, QuietInv, CopyInv, InContainer
<1>4. ~broken => /\ Readable(tmp.db, tmp.key)
                 /\ acked \subseteq tmp.db \/ (svc # "up" /\ data.wal # Absent)
  <2>1. SUFFICES ASSUME ~broken
                 PROVE  /\ Readable(tmp.db, tmp.key)
                        /\ acked \subseteq tmp.db \/ (svc # "up" /\ data.wal # Absent)
    OBVIOUS
  <2>2. Whole(data, acked) /\ svc # "up"
    BY <1>1, <2>1 DEF Inv, WholeInv, QuietInv
  <2>3. tmp.db = data.db /\ tmp.key = data.key /\ data.db # Absent
    BY <1>1 DEF Inv, CopyInv, Parts
  <2> QED BY <2>2, <2>3 DEF Whole, Readable, Rows, Contents
<1>5. BackupsComplete'
  <2>1. ASSUME NEW b \in backups', b.sound
        PROVE  Readable(b.files.db, b.files.key) /\ (b.acked \subseteq b.files.db \/ b.log)
    <3>1. CASE b \in backups
      BY <2>1, <3>1 DEF Inv, BackupsComplete
    <3>2. CASE b = new1
      BY <1>4, <2>1, <3>2, Zenon
    <3> QED BY <1>1, <3>1, <3>2
  <2> QED BY <2>1 DEF BackupsComplete
<1> QED BY <1>1, <1>2, <1>3, <1>5, OutsideStep DEF Inv

\* The end of either script.
LEMMA FinishStep == ASSUME Inv, Finish PROVE Inv'
<1>1. /\ pc = "finish" /\ pc' = "idle" /\ was' = FALSE /\ i' = 1
      /\ tmp' = NoPayload /\ src' = NoPayload
      /\ UNCHANGED <<new, old, backups, faults, acked, broken>>
      /\ pc \notin InContainer /\ pc' \notin InContainer /\ pc' \in Steps
  BY DEF Finish, InContainer, Steps
<1>2. /\ draws' \in Nat /\ draws <= draws' /\ svc' \in {"up", "stopped", "crashed"}
      /\ VolumeOK(data', draws') /\ UpInv'
      /\ before' = {} \/ (UNCHANGED <<data, svc, before>> /\ before # {})
      /\ ~broken => Whole(data', acked)
  <2>1. CASE was
    <3>1. StartService
      BY <2>1 DEF Finish
    <3> QED BY <1>1, <3>1, StartKeeps
  <2>2. CASE ~was
    <3>1. UNCHANGED <<data, svc, draws, before>>
      BY <2>2 DEF Finish, volume
    <3> QED BY <1>1, <3>1 DEF Inv, TypeInv, UpInv, WholeInv
  <2> QED BY <2>1, <2>2
<1>3. /\ \A v : VolumeOK(v, draws) => VolumeOK(v, draws')
      /\ \A v : PayloadOK(v, draws) => PayloadOK(v, draws')
  BY <1>2, DrawsGrow DEF Inv, TypeInv
<1>4. TypeInv'
  <2>1. PayloadOK(NoPayload, draws') /\ was' \in BOOLEAN
    BY <1>1, <1>2, Empty, Zenon
  <2> QED BY <1>1, <1>2, <1>3, <2>1 DEF Inv, TypeInv
<1>5. IndexInv' /\ QuietInv' /\ CopyInv' /\ BackupsComplete'
  BY <1>1, <1>2 DEF Inv, IndexInv, QuietInv, CopyInv, BackupsComplete
<1>6. OldFilesKept'
  BY <1>1, <1>2 DEF Inv, PhaseInv, OldFilesKept
<1>7. PhaseInv'
  BY <1>1, <1>6 DEF PhaseInv, InContainer
<1>8. WholeInv'
  BY <1>1, <1>2 DEF Inv, WholeInv
<1> QED BY <1>2, <1>4, <1>5, <1>7, <1>8 DEF Inv

\* backup.sh is interrupted.
LEMMA BackupInterruptedStep == ASSUME Inv, BackupInterrupted PROVE Inv'
<1>1. /\ pc \in {"bstop", "copy", "publish"} /\ pc' = "finish"
      /\ UNCHANGED <<data, svc, draws, i, was, tmp, src, new, old, backups, faults, acked, before, broken>>
      /\ pc \notin InContainer /\ pc' \notin InContainer /\ pc' \in Steps
  BY DEF BackupInterrupted, ExitTrap, volume, ghosts, InContainer, Steps
<1>2. TypeInv'
  BY <1>1 DEF Inv, TypeInv
<1>3. IndexInv' /\ QuietInv' /\ CopyInv' /\ BackupsComplete'
  BY <1>1 DEF Inv, IndexInv, QuietInv, CopyInv, BackupsComplete, InContainer
<1> QED BY <1>1, <1>2, <1>3, OutsideStep DEF Inv
----------------------------------------------------------------------------
(***************************************************************************)
(* restore.sh keeps it.                                                    *)
(***************************************************************************)

\* At every step, every file of the volume before is in place or set aside.
LEMMA InvKeepsOldFiles == ASSUME Inv PROVE OldFilesKept
<1>1. SUFFICES ASSUME NEW b \in before, NEW f \in Files, pc \in InContainer
               PROVE  b[f] \in {Absent, data[f], old[f]}
  <2>1. \A b \in before : DOMAIN b = Files
    BY DEF Inv, TypeInv, VolumeOK
  <2> QED BY <2>1 DEF Inv, PhaseInv, OldFilesKept
<1>2. CASE pc = "move" \/ pc = "putback"
  BY <1>2 DEF Inv, PhaseInv, Aside, Here
<1>3. CASE pc \in {"install", "doctor", "clear"}
  BY <1>3 DEF Inv, PhaseInv
<1>4. CASE pc = "sweep"
  BY <1>4 DEF Inv, PhaseInv
<1> QED BY <1>1, <1>2, <1>3, <1>4 DEF InContainer

\* The backup is unpacked beside the volume.
LEMMA ExtractStep == ASSUME Inv, Extract PROVE Inv'
<1>1. /\ pc = "extract" /\ pc' = "move" /\ new' = src /\ old' = NoFiles /\ before' = {data}
      /\ UNCHANGED <<data, svc, draws, i, was, tmp, src, backups, faults, acked, broken>>
      /\ pc \notin InContainer /\ pc' \in InContainer /\ pc' \in Steps /\ i = 1
  BY DEF Extract, volume, InContainer, Steps, Inv, IndexInv
<1>2. TypeInv'
  BY <1>1, Empty DEF Inv, TypeInv
<1>3. IndexInv' /\ QuietInv' /\ UpInv' /\ CopyInv' /\ BackupsComplete'
  BY <1>1 DEF Inv, IndexInv, QuietInv, UpInv, CopyInv, BackupsComplete
<1>4. ASSUME NEW f \in Files
      PROVE  ~ (Turn(f) < 1) /\ data'[f] = data[f] /\ old'[f] = Absent
  BY <1>1, Turns, Empty
<1>5. PhaseInv'
  BY <1>1, <1>4 DEF PhaseInv, Here
<1>6. WholeInv'
  BY <1>1 DEF Inv, WholeInv
<1> QED BY <1>2, <1>3, <1>5, <1>6 DEF Inv

\* One file of the volume is set aside.
LEMMA MoveOldStep == ASSUME Inv, MoveOld PROVE Inv'
<1> DEFINE f == LiveFiles[i]
<1>1. /\ pc = "move" /\ pc \in InContainer
      /\ IF data[f] # Absent
         THEN data' = [data EXCEPT ![f] = Absent] /\ old' = [old EXCEPT ![f] = data[f]]
         ELSE data' = data /\ old' = old
      /\ UNCHANGED <<svc, draws, was, tmp, src, new, backups, faults, acked, before, broken>>
      /\ IF i < 5 THEN i' = i + 1 /\ pc' = "move" ELSE i' = 1 /\ pc' = "install"
      /\ i \in 1..5
  BY Turns DEF MoveOld, MovedAway, NextFile, ghosts, InContainer, Inv, TypeInv
<1>2. f \in Files /\ Turn(f) = i /\ \A g \in Files : Turn(g) \in 1..5 /\ (Turn(g) = i => g = f)
  BY <1>1, Turns
<1> HIDE DEF f
<1>3. /\ VolumeOK(data, draws) /\ VolumeOK(old, draws)
      /\ FileOK(f, Absent, draws) /\ FileOK(f, data[f], draws)
  BY <1>2 DEF Inv, TypeInv, VolumeOK, FileOK
<1>4. \A b \in before : data[f] = b[f] /\ old[f] = Absent
  BY <1>1, <1>2 DEF Inv, PhaseInv, Here
<1>5. /\ VolumeOK(data', draws) /\ VolumeOK(old', draws)
      /\ data'[f] = Absent /\ \A b \in before : old'[f] = b[f]
      /\ \A g \in Files : g # f => data'[g] = data[g] /\ old'[g] = old[g]
  <2>1. CASE data[f] = Absent
    BY <1>1, <1>3, <1>4, <2>1
  <2>2. CASE data[f] # Absent
    <3> DEFINE v == [data EXCEPT ![f] = Absent]
               w == [old EXCEPT ![f] = data[f]]
    <3>1. VolumeOK(v, draws) /\ v[f] = Absent /\ \A g \in Files : g # f => v[g] = data[g]
      BY <1>2, <1>3, OneFile
    <3>2. VolumeOK(w, draws) /\ w[f] = data[f] /\ \A g \in Files : g # f => w[g] = old[g]
      BY <1>2, <1>3, OneFile
    <3>3. data' = v /\ old' = w
      BY <1>1, <2>2
    <3> HIDE DEF v, w
    <3> QED BY <1>4, <3>1, <3>2, <3>3
  <2> QED BY <2>1, <2>2
<1>6. \A b \in before, g \in Files : IF Turn(g) <= i THEN Aside(b, g)' ELSE Here(b, g)'
  <2>1. SUFFICES ASSUME NEW b \in before, NEW g \in Files
                 PROVE  IF Turn(g) <= i THEN Aside(b, g)' ELSE Here(b, g)'
    OBVIOUS
  <2>2. CASE g = f
    BY <1>1, <1>2, <1>5, <2>2 DEF Aside
  <2>3. CASE g # f
    <3>1. IF Turn(g) < i THEN Aside(b, g) ELSE Here(b, g)
      BY <1>1 DEF Inv, PhaseInv
    <3>2. Turn(g) < i <=> Turn(g) <= i
      BY <1>1, <1>2, <2>3
    <3> QED BY <1>5, <2>3, <3>1, <3>2 DEF Aside, Here
  <2> QED BY <2>2, <2>3
<1>7. TypeInv'
  <2>1. i' \in 1..5 /\ pc' \in Steps
    BY <1>1 DEF Steps, InContainer
  <2> QED BY <1>1, <1>5, <2>1 DEF Inv, TypeInv
<1>8. IndexInv' /\ QuietInv' /\ UpInv' /\ CopyInv' /\ BackupsComplete'
  BY <1>1 DEF Inv, IndexInv, QuietInv, UpInv, CopyInv, BackupsComplete, InContainer
<1>9. PhaseInv'
  <2>1. before' = before /\ before # {} /\ new' = src'
    BY <1>1 DEF Inv, PhaseInv
  <2>2. CASE i < 5
    <3>1. \A g \in Files : Turn(g) < i' <=> Turn(g) <= i
      BY <1>1, <1>2, <2>2
    <3> QED BY <1>1, <1>6, <2>1, <2>2, <3>1, Zenon DEF PhaseInv, InContainer
  <2>3. CASE i = 5
    <3>1. \A b \in before, g \in Files : data'[g] = Absent /\ old'[g] = b[g]
      BY <1>2, <1>6, <2>3 DEF Aside
    <3>2. \A b \in before : old' = b
      BY <1>5, <3>1, SameVolume DEF Inv, TypeInv
    <3>3. /\ data'.wal = Absent /\ data'.token = Absent
          /\ \A g \in Parts : ~ (PartTurn(g) < 1) /\ new'[g] = src'[g]
      BY <2>1, <3>1, Turns DEF Files
    <3> QED BY <1>1, <2>1, <2>3, <3>2, <3>3 DEF PhaseInv, InContainer
  <2> QED BY <1>1, <2>2, <2>3
<1>10. WholeInv'
  BY <1>1 DEF Inv, WholeInv, PhaseInv, InContainer
<1> QED BY <1>7, <1>8, <1>9, <1>10 DEF Inv

\* One file of the backup takes its place.
LEMMA InstallStep == ASSUME Inv, Install PROVE Inv'
<1> DEFINE f == Payload[i]
<1>1. /\ pc = "install" /\ pc \in InContainer
      /\ data' = [data EXCEPT ![f] = new[f]] /\ new' = [new EXCEPT ![f] = Absent]
      /\ UNCHANGED <<svc, draws, was, tmp, src, old, backups, faults, acked, before, broken>>
      /\ IF i < 3 THEN i' = i + 1 /\ pc' = "install" ELSE i' = 1 /\ pc' = "doctor"
      /\ i \in 1..3
  BY Turns DEF Install, NextFile, ghosts, InContainer, Inv, IndexInv
<1>2. /\ f \in Parts /\ f \in Files /\ PartTurn(f) = i
      /\ \A g \in Parts : g \in Files /\ PartTurn(g) \in 1..3 /\ (PartTurn(g) = i => g = f)
  BY <1>1, Turns
<1>3. f # "wal" /\ f # "token" /\ "wal" \in Files /\ "token" \in Files
  BY <1>2 DEF Parts, Files
<1> HIDE DEF f
<1>4. /\ VolumeOK(data, draws) /\ PayloadOK(new, draws)
      /\ FileOK(f, Absent, draws) /\ FileOK(f, new[f], draws)
  BY <1>2 DEF Inv, TypeInv, PayloadOK, FileOK
<1>5. /\ VolumeOK(data', draws) /\ PayloadOK(new', draws)
      /\ data'[f] = new[f] /\ \A g \in Files : g # f => data'[g] = data[g]
      /\ \A g \in Parts : g # f => new'[g] = new[g]
  <2> DEFINE v == [data EXCEPT ![f] = new[f]]
             w == [new EXCEPT ![f] = Absent]
  <2>1. VolumeOK(v, draws) /\ v[f] = new[f] /\ \A g \in Files : g # f => v[g] = data[g]
    BY <1>2, <1>4, OneFile
  <2>2. PayloadOK(w, draws) /\ \A g \in Parts : g # f => w[g] = new[g]
    BY <1>2, <1>4, OnePart
  <2>3. data' = v /\ new' = w
    BY <1>1
  <2> HIDE DEF v, w
  <2> QED BY <2>1, <2>2, <2>3
<1>6. /\ data'.wal = Absent /\ data'.token = Absent
      /\ \A g \in Parts : IF PartTurn(g) <= i THEN data'[g] = src[g] ELSE new'[g] = src[g]
  <2>1. /\ data["wal"] = Absent /\ data["token"] = Absent
        /\ \A g \in Parts : IF PartTurn(g) < i THEN data[g] = src[g] ELSE new[g] = src[g]
    BY <1>1 DEF Inv, PhaseInv
  <2>2. data'["wal"] = Absent /\ data'["token"] = Absent
    BY <1>3, <1>5, <2>1
  <2>3. ASSUME NEW g \in Parts
        PROVE  IF PartTurn(g) <= i THEN data'[g] = src[g] ELSE new'[g] = src[g]
    <3>1. CASE g = f
      <4>1. PartTurn(f) <= i /\ ~ (PartTurn(f) < i)
        BY <1>1, <1>2
      <4>2. new[f] = src[f]
        BY <1>2, <2>1, <4>1, Zenon
      <4> QED BY <1>5, <3>1, <4>1, <4>2, Zenon
    <3>2. CASE g # f
      <4>1. PartTurn(g) < i <=> PartTurn(g) <= i
        BY <1>1, <1>2, <3>2
      <4> QED BY <1>2, <1>5, <2>1, <3>2, <4>1
    <3> QED BY <3>1, <3>2
  <2> QED BY <2>2, <2>3
<1>7. TypeInv'
  <2>1. i' \in 1..5 /\ pc' \in Steps
    BY <1>1 DEF Steps, InContainer
  <2> QED BY <1>1, <1>5, <2>1 DEF Inv, TypeInv
<1>8. IndexInv' /\ QuietInv' /\ UpInv' /\ CopyInv' /\ BackupsComplete'
  BY <1>1 DEF Inv, IndexInv, QuietInv, UpInv, CopyInv, BackupsComplete, InContainer
<1>9. PhaseInv'
  <2>1. before' = before /\ before # {} /\ src' = src /\ \A b \in before : old' = b
    BY <1>1 DEF Inv, PhaseInv
  <2>2. CASE i < 3
    <3>1. \A g \in Parts : PartTurn(g) < i' <=> PartTurn(g) <= i
      BY <1>1, <1>2, <2>2
    <3> QED BY <1>1, <1>6, <2>1, <2>2, <3>1 DEF PhaseInv, InContainer
  <2>3. CASE i = 3
    <3>1. Restored'
      BY <1>2, <1>6, <2>1, <2>3 DEF Restored
    <3> QED BY <1>1, <2>1, <2>3, <3>1 DEF PhaseInv, InContainer
  <2> QED BY <1>1, <2>2, <2>3
<1>10. WholeInv'
  BY <1>1 DEF Inv, WholeInv, PhaseInv, InContainer
<1> QED BY <1>7, <1>8, <1>9, <1>10 DEF Inv

\* The restore is committed: the volume is what a backup has.
LEMMA CommitStep == ASSUME Inv, Commit PROVE Inv'
<1>1. /\ pc = "doctor" /\ pc' = "sweep" /\ before' = {} /\ DoctorPasses(data)
      /\ acked' = Contents(src.db) /\ broken' = (\A b \in backups : b.files = src => ~b.sound)
      /\ UNCHANGED <<data, svc, draws, i, was, tmp, src, new, old, backups, faults>>
      /\ pc \in InContainer /\ pc' \in Steps
  BY DEF Commit, volume, InContainer, Steps
<1>2. broken' \in BOOLEAN
  BY <1>1, Zenon
<1>3. TypeInv'
  BY <1>1, <1>2 DEF Inv, TypeInv
<1>4. IndexInv' /\ QuietInv' /\ UpInv' /\ CopyInv' /\ BackupsComplete'
  BY <1>1 DEF Inv, IndexInv, QuietInv, UpInv, CopyInv, BackupsComplete
<1>5. PhaseInv'
  BY <1>1 DEF Inv, PhaseInv, Restored, InContainer
<1>6. ASSUME ~broken' PROVE Whole(data, Contents(src.db))
  <2>1. PICK b \in backups : b.files = src /\ b.sound
    BY <1>1, <1>6
  <2>2. Readable(src.db, src.key)
    BY <2>1 DEF Inv, BackupsComplete
  <2>3. data.db = src.db /\ data.key = src.key /\ data.wal = Absent
    BY <1>1 DEF Inv, PhaseInv, Restored, Parts
  <2>4. data.db # Damaged /\ data.key # Absent
    BY <1>1 DEF DoctorPasses
  <2> QED BY <2>2, <2>3, <2>4 DEF Whole, Rows, Contents, Readable
<1>7. WholeInv'
  BY <1>1, <1>6 DEF WholeInv
<1> QED BY <1>3, <1>4, <1>5, <1>7 DEF Inv

\* restore.sh is interrupted.
LEMMA RestoreInterruptedStep == ASSUME Inv, RestoreInterrupted PROVE Inv'
<1>1. /\ i' = 1
      /\ UNCHANGED <<data, svc, draws, was, tmp, src, new, old, backups, faults, acked, before, broken>>
      /\ \/ pc \in {"rstop", "extract"} /\ pc' = "finish"
         \/ pc = "move" /\ pc' = "putback"
         \/ pc \in {"install", "doctor"} /\ pc' = "clear"
  BY DEF RestoreInterrupted, ExitTrap, FirstUndo, volume, ghosts
<1>2. TypeInv'
  BY <1>1 DEF Inv, TypeInv, Steps, InContainer
<1>3. IndexInv' /\ QuietInv' /\ UpInv' /\ CopyInv' /\ BackupsComplete'
  BY <1>1 DEF Inv, IndexInv, QuietInv, UpInv, CopyInv, BackupsComplete, InContainer
<1>4. PhaseInv' /\ WholeInv'
  <2>1. CASE pc \in {"rstop", "extract"} /\ pc' = "finish"
    BY <1>1, <2>1, OutsideStep DEF InContainer
  <2>2. CASE pc = "move" /\ pc' = "putback"
    <3>1. \A b \in before', f \in Files : ~ (Turn(f) < i') /\ (Aside(b, f)' \/ Here(b, f)')
      BY <1>1, <2>2, Turns DEF Inv, PhaseInv, Aside, Here
    <3>2. PhaseInv'
      BY <1>1, <2>2, <3>1 DEF Inv, PhaseInv, InContainer
    <3> QED BY <1>1, <2>2, <3>2 DEF Inv, WholeInv, InContainer
  <2>3. CASE pc \in {"install", "doctor"} /\ pc' = "clear"
    BY <1>1, <2>3 DEF Inv, PhaseInv, WholeInv, InContainer
  <2> QED BY <1>1, <2>1, <2>2, <2>3
<1> QED BY <1>2, <1>3, <1>4 DEF Inv

\* The trap removes the live files.
LEMMA ClearStep == ASSUME Inv, Clear PROVE Inv'
<1>1. /\ pc = "clear" /\ pc' = "putback" /\ data' = NoFiles /\ i = 1
      /\ UNCHANGED <<svc, draws, i, was, tmp, src, new, old, backups, faults, acked, before, broken>>
      /\ pc \in InContainer /\ pc' \in InContainer /\ pc' \in Steps
  BY DEF Clear, ghosts, InContainer, Steps, Inv, IndexInv
<1>2. TypeInv'
  BY <1>1, Empty DEF Inv, TypeInv
<1>3. IndexInv' /\ QuietInv' /\ UpInv' /\ CopyInv' /\ BackupsComplete'
  BY <1>1 DEF Inv, IndexInv, QuietInv, UpInv, CopyInv, BackupsComplete
<1>4. \A b \in before', f \in Files : ~ (Turn(f) < 1) /\ Aside(b, f)'
  <2>1. \A f \in Files : ~ (Turn(f) < 1)
    BY Turns
  <2>2. before' = before /\ old' = old /\ \A b \in before : old = b
    BY <1>1 DEF Inv, PhaseInv
  <2>3. \A f \in Files : data'[f] = Absent
    BY <1>1, Empty, Zenon
  <2> QED BY <2>1, <2>2, <2>3, Zenon DEF Aside
<1>5. PhaseInv'
  BY <1>1, <1>4 DEF Inv, PhaseInv
<1>6. WholeInv'
  BY <1>1 DEF Inv, WholeInv, PhaseInv
<1> QED BY <1>2, <1>3, <1>5, <1>6 DEF Inv

\* The trap puts one file back.
LEMMA PutBackStep == ASSUME Inv, PutBack PROVE Inv'
<1> DEFINE f == LiveFiles[i]
<1>1. /\ pc = "putback" /\ pc \in InContainer
      /\ IF old[f] # Absent
         THEN data' = [data EXCEPT ![f] = old[f]] /\ old' = [old EXCEPT ![f] = Absent]
         ELSE data' = data /\ old' = old
      /\ UNCHANGED <<svc, draws, was, tmp, src, new, backups, faults, acked, before, broken>>
      /\ IF i < 5 THEN i' = i + 1 /\ pc' = "putback" ELSE i' = 1 /\ pc' = "sweep"
      /\ i \in 1..5
  BY Turns DEF PutBack, Saved, NextFile, ghosts, InContainer, Inv, TypeInv
<1>2. f \in Files /\ Turn(f) = i /\ \A g \in Files : Turn(g) \in 1..5 /\ (Turn(g) = i => g = f)
  BY <1>1, Turns, Zenon
<1> HIDE DEF f
<1>3. /\ VolumeOK(data, draws) /\ VolumeOK(old, draws)
      /\ FileOK(f, Absent, draws) /\ FileOK(f, old[f], draws)
  BY <1>2 DEF Inv, TypeInv, VolumeOK, FileOK
<1>4. \A b \in before : Aside(b, f) \/ Here(b, f)
  BY <1>1, <1>2 DEF Inv, PhaseInv
<1>5. /\ VolumeOK(data', draws) /\ VolumeOK(old', draws)
      /\ \A b \in before : data'[f] = b[f]
      /\ \A g \in Files : g # f => data'[g] = data[g] /\ old'[g] = old[g]
  <2>1. CASE old[f] = Absent
    BY <1>1, <1>3, <1>4, <2>1 DEF Aside, Here
  <2>2. CASE old[f] # Absent
    <3> DEFINE v == [data EXCEPT ![f] = old[f]]
               w == [old EXCEPT ![f] = Absent]
    <3>1. VolumeOK(v, draws) /\ v[f] = old[f] /\ \A g \in Files : g # f => v[g] = data[g]
      BY <1>2, <1>3, OneFile
    <3>2. VolumeOK(w, draws) /\ \A g \in Files : g # f => w[g] = old[g]
      BY <1>2, <1>3, OneFile
    <3>3. data' = v /\ old' = w
      BY <1>1, <2>2
    <3> HIDE DEF v, w
    <3> QED BY <1>4, <2>2, <3>1, <3>2, <3>3 DEF Aside, Here
  <2> QED BY <2>1, <2>2
<1>6. \A b \in before, g \in Files :
        IF Turn(g) <= i THEN data'[g] = b[g] ELSE Aside(b, g)' \/ Here(b, g)'
  <2>1. SUFFICES ASSUME NEW b \in before, NEW g \in Files
                 PROVE  IF Turn(g) <= i THEN data'[g] = b[g] ELSE Aside(b, g)' \/ Here(b, g)'
    OBVIOUS
  <2>2. CASE g = f
    <3>1. Turn(g) = i /\ i \in Int
      BY <1>1, <1>2, <2>2
    <3>2. Turn(g) <= i
      BY <3>1
    <3>3. data'[g] = b[g]
      BY <1>5, <2>2
    <3> QED BY <3>2, <3>3
  <2>3. CASE g # f
    <3>1. IF Turn(g) < i THEN data[g] = b[g] ELSE Aside(b, g) \/ Here(b, g)
      BY <1>1 DEF Inv, PhaseInv
    <3>2. Turn(g) < i <=> Turn(g) <= i
      BY <1>1, <1>2, <2>3
    <3> QED BY <1>5, <2>3, <3>1, <3>2 DEF Aside, Here
  <2> QED BY <2>2, <2>3
<1>7. TypeInv'
  <2>1. i' \in 1..5 /\ pc' \in Steps
    BY <1>1 DEF Steps, InContainer
  <2> QED BY <1>1, <1>5, <2>1 DEF Inv, TypeInv
<1>8. IndexInv' /\ QuietInv' /\ UpInv' /\ CopyInv' /\ BackupsComplete'
  BY <1>1 DEF Inv, IndexInv, QuietInv, UpInv, CopyInv, BackupsComplete, InContainer
<1>9. PhaseInv'
  <2>1. before' = before /\ before # {}
    BY <1>1 DEF Inv, PhaseInv, InContainer
  <2>2. CASE i < 5
    <3>1. \A g \in Files : Turn(g) < i' <=> Turn(g) <= i
      BY <1>1, <1>2, <2>2
    <3> QED BY <1>1, <1>6, <2>1, <2>2, <3>1 DEF PhaseInv, InContainer
  <2>3. CASE i = 5
    <3>1. \A b \in before, g \in Files : data'[g] = b[g]
      BY <1>2, <1>6, <2>3
    <3>2. \A b \in before : data' = b
      BY <1>5, <3>1, SameVolume DEF Inv, TypeInv
    <3> QED BY <1>1, <2>1, <2>3, <3>2 DEF PhaseInv, InContainer
  <2> QED BY <1>1, <2>2, <2>3
<1>10. WholeInv'
  BY <1>1 DEF Inv, WholeInv, PhaseInv, InContainer
<1> QED BY <1>7, <1>8, <1>9, <1>10 DEF Inv

\* The two directories are removed.
LEMMA SweepStep == ASSUME Inv, Sweep PROVE Inv'
<1>1. /\ pc = "sweep" /\ pc' = "finish" /\ new' = NoPayload /\ old' = NoFiles /\ before' = {}
      /\ UNCHANGED <<data, svc, draws, i, was, tmp, src, backups, faults, acked, broken>>
      /\ pc \in InContainer /\ pc' \notin InContainer /\ pc' \in Steps
  BY DEF Sweep, ExitTrap, volume, InContainer, Steps
<1>2. TypeInv'
  BY <1>1, Empty DEF Inv, TypeInv
<1>3. IndexInv' /\ QuietInv' /\ UpInv' /\ CopyInv' /\ BackupsComplete'
  BY <1>1 DEF Inv, IndexInv, QuietInv, UpInv, CopyInv, BackupsComplete
<1>4. PhaseInv'
  BY <1>1 DEF PhaseInv, InContainer, OldFilesKept
<1>5. WholeInv'
  BY <1>1 DEF Inv, WholeInv, PhaseInv
<1> QED BY <1>2, <1>3, <1>4, <1>5 DEF Inv

\* The container of a restore is killed.
LEMMA KillContainerStep == ASSUME Inv, KillContainer PROVE Inv'
<1>1. /\ pc \in InContainer /\ pc' = "finish" /\ i' = 1 /\ new' = NoPayload
      /\ broken' = (broken \/ \E b \in before : data # b)
      /\ old' = IF before = {} THEN NoFiles ELSE old
      /\ UNCHANGED <<data, svc, draws, was, tmp, src, backups, acked, before>>
      /\ pc' \notin InContainer /\ pc' \in Steps
  BY DEF KillContainer, ExitTrap, volume, InContainer, Steps
<1>2. broken' \in BOOLEAN
  BY <1>1, Zenon
<1>3. TypeInv'
  BY <1>1, <1>2, Empty DEF Inv, TypeInv
<1>4. IndexInv' /\ QuietInv' /\ UpInv' /\ CopyInv' /\ BackupsComplete'
  BY <1>1 DEF Inv, IndexInv, QuietInv, UpInv, CopyInv, BackupsComplete
<1>5. OldFilesKept'
  BY <1>1, InvKeepsOldFiles DEF OldFilesKept
<1>6. PhaseInv'
  BY <1>1, <1>5 DEF PhaseInv, InContainer
<1>7. WholeInv'
  BY <1>1, Zenon DEF Inv, TypeInv, WholeInv
<1> QED BY <1>3, <1>4, <1>6, <1>7 DEF Inv

\* A script itself is killed.
LEMMA KillHostStep == ASSUME Inv, KillHost PROVE Inv'
<1>1. /\ was' = FALSE /\ tmp' = NoPayload
      /\ UNCHANGED <<data, svc, draws, new, old, backups, acked, before, broken>>
      /\ \/ pc \in InContainer \cup {"extract"} /\ pc' = pc /\ i' = i /\ src' = src
         \/ pc \notin InContainer /\ pc' = "idle" /\ i' = 1 /\ src' = NoPayload
  BY DEF KillHost, volume, ghosts, InContainer
<1>2. was' \in BOOLEAN
  BY <1>1, Zenon
<1>3. TypeInv'
  BY <1>1, <1>2, Empty DEF Inv, TypeInv, Steps
<1>4. IndexInv' /\ QuietInv' /\ UpInv' /\ CopyInv' /\ BackupsComplete'
  BY <1>1 DEF Inv, IndexInv, QuietInv, UpInv, CopyInv, BackupsComplete, InContainer
<1>5. PhaseInv' /\ WholeInv'
  <2>1. CASE pc \notin InContainer
    BY <1>1, <2>1, OutsideStep DEF InContainer
  <2>2. CASE pc \in InContainer
    <3>1. UNCHANGED <<data, old, new, src, before, pc, i, acked, broken>>
      BY <1>1, <2>2
    <3> QED BY <3>1 DEF Inv, PhaseInv, WholeInv, Aside, Here, Restored, OldFilesKept
  <2> QED BY <2>1, <2>2
<1> QED BY <1>3, <1>4, <1>5 DEF Inv
----------------------------------------------------------------------------
(***************************************************************************)
(* What follows.                                                           *)
(***************************************************************************)

\* Every step keeps the invariant.
LEMMA StepInv == Inv /\ [Next]_vars => Inv'
<1> SUFFICES ASSUME Inv, [Next]_vars PROVE Inv'
  OBVIOUS
<1>1. CASE UNCHANGED vars
  <2>1. UNCHANGED <<data, svc, draws, pc, i, was, tmp, src, new, old, backups, faults, acked, before, broken>>
    BY <1>1 DEF vars, volume, script, ghosts
  <2>2. TypeInv' /\ IndexInv' /\ QuietInv' /\ UpInv' /\ CopyInv' /\ BackupsComplete' /\ WholeInv'
    BY <2>1 DEF Inv, TypeInv, IndexInv, QuietInv, UpInv, CopyInv, BackupsComplete, WholeInv
  <2>3. PhaseInv'
    BY <2>1 DEF Inv, PhaseInv, Aside, Here, Restored, OldFilesKept
  <2> QED BY <2>2, <2>3 DEF Inv
<1>2. CASE Up \/ Down \/ Crash \/ Write
  BY <1>2, UpStep, DownStep, CrashStep, WriteStep
<1>3. CASE BeginBackup
  BY <1>3, BeginStep DEF BeginBackup, Inv, TypeInv
<1>4. ASSUME NEW files \in Sources, BeginRestore(files) PROVE Inv'
  BY <1>4, BeginRestoreStep
<1>5. CASE BackupStop \/ RestoreStop
  BY <1>5, ScriptStop DEF BackupStop, RestoreStop, ghosts
<1>6. CASE Copy \/ Publish \/ Finish \/ BackupInterrupted
  BY <1>6, CopyStep, PublishStep, FinishStep, BackupInterruptedStep
<1>7. CASE Extract \/ MoveOld \/ Install \/ Commit \/ RestoreInterrupted
  BY <1>7, ExtractStep, MoveOldStep, InstallStep, CommitStep, RestoreInterruptedStep
<1>8. CASE Clear \/ PutBack \/ Sweep \/ KillContainer \/ KillHost
  BY <1>8, ClearStep, PutBackStep, SweepStep, KillContainerStep, KillHostStep
<1> QED BY <1>1, <1>2, <1>3, <1>4, <1>5, <1>6, <1>7, <1>8 DEF Next, ScriptStep, ScriptFails

\* The invariant holds of every reachable state.
LEMMA InvHolds == Spec => []Inv
<1> QED BY InitInv, StepInv, PTL DEF Spec

\* Until a restore is committed, every file the volume had is in place or set
\* aside, whichever step of restore.sh or of its trap was the last.
THEOREM OldFilesAlwaysKept == Spec => []OldFilesKept
<1>1. Inv => OldFilesKept
  BY InvKeepsOldFiles
<1> QED BY <1>1, InvHolds, PTL

\* A restore whose container ran to its end left the volume as the backup has it
\* or as it was.
THEOREM RestoreEndsWhole == Spec => []EndsWhole
<1>1. ASSUME Inv PROVE EndsWhole
  <2>1. SUFFICES ASSUME pc = "sweep"
                 PROVE  IF before = {}
                        THEN data = [db |-> src.db, wal |-> Absent, key |-> src.key,
                                     users |-> src.users, token |-> Absent]
                        ELSE data \in before
    BY DEF EndsWhole
  <2>2. CASE before = {}
    <3>1. /\ data.db = src.db /\ data.wal = Absent /\ data.key = src.key
          /\ data.users = src.users /\ data.token = Absent
      BY <1>1, <2>1, <2>2 DEF Inv, PhaseInv, Restored, Parts
    <3>2. data = [f \in Files |-> data[f]]
      BY <1>1 DEF Inv, TypeInv, VolumeOK
    <3> QED BY <2>2, <3>1, <3>2 DEF Files
  <2>3. CASE before # {}
    BY <1>1, <2>1, <2>3 DEF Inv, PhaseInv
  <2> QED BY <2>2, <2>3
<1> QED BY <1>1, InvHolds, PTL

\* A running service has every row it acknowledged and can decrypt it, unless a
\* killed restore left the volume half done.
THEOREM VolumeAlwaysServes == Spec => []VolumeServes
<1>1. Inv => VolumeServes
  BY DEF Inv, QuietInv, WholeInv, Whole, VolumeServes
<1> QED BY <1>1, InvHolds, PTL

\* A backup of a volume that was not half done opens under its own key and has
\* every row acknowledged, but for a log that was left behind.
THEOREM BackupsAlwaysComplete == Spec => []BackupsComplete
<1>1. Inv => BackupsComplete
  BY DEF Inv
<1> QED BY <1>1, InvHolds, PTL
----------------------------------------------------------------------------
(***************************************************************************)
(* Types.                                                                  *)
(***************************************************************************)

\* Only rows that were drawn are owed, and a backup has all of its files.
OwedInv ==
    /\ acked \subseteq Drawn(draws)
    /\ \A b \in backups : \A f \in Parts : b.files[f] # Absent

\* What a step does to the rows owed and to the backups.
LEMMA OwedStep == Inv /\ Inv' /\ OwedInv /\ [Next]_vars => OwedInv'
<1> SUFFICES ASSUME Inv, Inv', OwedInv, [Next]_vars PROVE OwedInv'
  OBVIOUS
<1>0. draws \in Nat /\ draws' \in Nat /\ VolumeOK(data, draws) /\ PayloadOK(src, draws)
  BY DEF Inv, TypeInv
<1>1. draws <= draws' => Drawn(draws) \subseteq Drawn(draws')
  BY <1>0 DEF Drawn
<1>2. CASE draws <= draws' /\ UNCHANGED <<acked, backups>>
  BY <1>1, <1>2 DEF OwedInv
<1>3. StartService => draws <= draws'
  BY <1>0 DEF StartService
<1>4. StopService => draws <= draws'
  BY <1>0 DEF StopService
<1>5. CASE Write
  <2> DEFINE row == [id |-> draws + 1, key |-> data.key]
  <2>1. /\ svc = "up" /\ draws < MaxDraws /\ draws' = draws + 1
        /\ acked' = acked \cup {row} /\ backups' = backups
    BY <1>5 DEF Write
  <2>2. data.key \in 1..draws
    BY <1>0, <2>1, Fields DEF Inv, UpInv
  <2>3. row \in Drawn(draws')
    <3> DEFINE k == data.key
    <3>0. draws \in Nat /\ MaxDraws \in Nat /\ draws < MaxDraws /\ k \in 1..draws
      BY <1>0, <2>1, <2>2, FilesAssumption
    <3> HIDE DEF k
    <3>1. draws + 1 \in 1..MaxDraws /\ k \in 1..MaxDraws
      BY <3>0
    <3>2. draws + 1 \in 1..draws' /\ k \in 1..draws'
      BY <2>1, <3>0
    <3> USE DEF k
    <3> QED BY <3>1, <3>2 DEF Drawn, Row
  <2>4. draws <= draws'
    BY <1>0, <2>1
  <2> HIDE DEF row
  <2> QED BY <1>1, <2>1, <2>3, <2>4 DEF OwedInv
<1>6. CASE Commit
  <2>1. /\ pc = "doctor" /\ DoctorPasses(data) /\ acked' = Contents(src.db)
        /\ UNCHANGED <<draws, backups>>
    BY <1>6 DEF Commit, volume
  <2>2. src.db # Damaged
    BY <2>1 DEF DoctorPasses, Inv, PhaseInv, Restored, Parts
  <2>3. src.db \in {Absent, Damaged} \cup SUBSET Drawn(draws)
    BY <1>0 DEF PayloadOK, FileOK, Parts
  <2>4. Contents(src.db) \subseteq Drawn(draws)
    BY <2>2, <2>3 DEF Contents
  <2> QED BY <2>1, <2>4 DEF OwedInv
<1>7. CASE Publish
  <2> DEFINE made == [files |-> tmp, acked |-> acked, sound |-> ~broken,
                      log |-> svc # "up" /\ data.wal # Absent]
  <2>1. made.files = tmp /\ backups' = backups \cup {made}
    BY <1>7 DEF Publish
  <2> HIDE DEF made
  <2>2. pc = "publish" /\ UNCHANGED <<draws, acked>>
    BY <1>7 DEF Publish, volume, ghosts
  <2>3. \A f \in Parts : tmp[f] # Absent
    BY <2>2 DEF Inv, CopyInv
  <2> QED BY <2>1, <2>2, <2>3 DEF OwedInv
<1>8. CASE Up \/ Down \/ Crash
  BY <1>0, <1>2, <1>3, <1>4, <1>8 DEF Up, Down, Crash, ghosts
<1>9. ASSUME Begin PROVE OwedInv'
  BY <1>0, <1>2, <1>9 DEF Begin, volume, ghosts
<1>10. CASE BackupStop \/ RestoreStop \/ Finish
  BY <1>0, <1>2, <1>3, <1>4, <1>10 DEF BackupStop, RestoreStop, Finish, StopIfRunning, volume, ghosts
<1>11. ASSUME UNCHANGED <<draws, acked, backups>> PROVE OwedInv'
  BY <1>0, <1>2, <1>11
<1>12. CASE Copy \/ Extract \/ MoveOld
  <2>1. Copy => UNCHANGED <<draws, acked, backups>>
    BY DEF Copy, volume, ghosts
  <2>2. Extract => UNCHANGED <<draws, acked, backups>>
    BY DEF Extract, volume
  <2>3. MoveOld => UNCHANGED <<draws, acked, backups>>
    BY DEF MoveOld, ghosts
  <2> QED BY <1>11, <1>12, <2>1, <2>2, <2>3
<1>13. CASE Install \/ Clear \/ PutBack \/ Sweep
  <2>1. Install => UNCHANGED <<draws, acked, backups>>
    BY DEF Install, ghosts
  <2>2. Clear => UNCHANGED <<draws, acked, backups>>
    BY DEF Clear, ghosts
  <2>3. PutBack => UNCHANGED <<draws, acked, backups>>
    BY DEF PutBack, ghosts
  <2>4. Sweep => UNCHANGED <<draws, acked, backups>>
    BY DEF Sweep, volume, ghosts
  <2> QED BY <1>11, <1>13, <2>1, <2>2, <2>3, <2>4
<1>14. CASE ScriptFails \/ KillContainer \/ KillHost \/ UNCHANGED vars
  <2>1. ScriptFails => UNCHANGED <<draws, acked, backups>>
    BY DEF ScriptFails, BackupInterrupted, RestoreInterrupted, volume, ghosts
  <2>2. KillContainer => UNCHANGED <<draws, acked, backups>>
    BY DEF KillContainer, volume, ghosts
  <2>3. KillHost => UNCHANGED <<draws, acked, backups>>
    BY DEF KillHost, volume, ghosts
  <2>4. UNCHANGED vars => UNCHANGED <<draws, acked, backups>>
    BY DEF vars, volume, ghosts
  <2> QED BY <1>11, <1>14, <2>1, <2>2, <2>3, <2>4
<1> QED BY <1>5, <1>6, <1>7, <1>8, <1>9, <1>10, <1>12, <1>13, <1>14
        DEF Next, ScriptStep, BeginBackup, BeginRestore

\* Type correctness of volume, staging directories and backups: every file holds
\* what a file of its name may, nothing is owed that was never written, and a
\* finished backup has all three files and a key of its size.
THEOREM VolumeTyped == Spec => []TypeOK
<1>1. Init => OwedInv
  BY DEF Init, OwedInv
<1>2. Spec => []OwedInv
  BY <1>1, InvHolds, OwedStep, PTL DEF Spec
<1>3. Inv /\ OwedInv => TypeOK
  <2> SUFFICES ASSUME Inv, OwedInv PROVE TypeOK
    OBVIOUS
  <2>1. Drawn(draws) \subseteq RowSet
    <3>1. ASSUME NEW row \in Drawn(draws) PROVE row \in RowSet
      BY DEF Drawn, Row, RowSet
    <3> QED BY <3>1
  <2>2. ASSUME NEW f \in Files, NEW x, FileOK(f, x, draws) PROVE Stored(f, x)
    BY <2>1, <2>2 DEF Files, FileOK, Stored
  <2>3. DOMAIN NoFiles = Files /\ DOMAIN NoPayload = Parts /\ Len(LiveFiles) = 5
    BY Empty, Turns
  <2>4. \A f \in DOMAIN NoFiles : Stored(f, data[f]) /\ Stored(f, old[f])
    BY <2>2, <2>3 DEF Inv, TypeInv, VolumeOK
  <2>5. ASSUME NEW b \in backups
        PROVE  /\ \A f \in DOMAIN NoPayload : b.files[f] # Absent
               /\ b.files.key \in 1..draws
    <3>1. FileOK("key", b.files.key, draws) /\ "key" \in Parts
      BY DEF Inv, TypeInv, PayloadOK, Parts
    <3> QED BY <2>3, <3>1 DEF OwedInv, FileOK
  <2>6. acked \subseteq RowSet
    BY <2>1 DEF OwedInv
  <2> QED BY <2>3, <2>4, <2>5, <2>6 DEF TypeOK, Inv, TypeInv, Steps
<1> QED BY <1>2, <1>3, InvHolds, PTL
=============================================================================
