-------------------------- MODULE Deployment_proofs --------------------------
(***************************************************************************)
(* Proofs about FirstStart, for any number of containers and mishaps;      *)
(* about Migrations, for any number of processes, releases, migrations and *)
(* statements; that Deployment implements each of its two parts, so what   *)
(* is proved of them holds of it; and the one property that needs both.    *)
(***************************************************************************)
EXTENDS Deployment, TLAPS
----------------------------------------------------------------------------
(***************************************************************************)
(* The first start.                                                        *)
(***************************************************************************)

\* At most one container is inside the lock, and then the directory exists.
LockInv ==
    \A c \in Containers : pc[c] \in Locked =>
        lock /\ \A d \in Containers : pc[d] \in Locked => d = c

\* Bootstrap writes only while there is no users file; the token it has written
\* is the one the users file will have.
BootInv ==
    \A c \in Containers :
        /\ pc[c] \in {"token", "users"} => users = Absent
        /\ pc[c] = "users" => token = draft[c] /\ draft[c] \in Nat

\* token.txt and a users file with a user in it agree.
FileInv == token = Absent \/ users \in {Absent, Torn, Skeleton} \/ token = users

\* A server has loaded the users file, and has a key once it is up.
ServeInv ==
    \A c \in Containers :
        /\ pc[c] \in {"readkey", "rename", "up"} => Usable(users) /\ snap[c] = users
        /\ pc[c] = "rename" => draft[c] \in Nat \ {Torn}
        /\ pc[c] = "up" => key[c] \in Nat \ {Torn}

\* init is alone on the volume, and a file is torn only while it writes it.
SetupInv ==
    setup \in {"key", "users", "skeleton"} =>
        /\ \A c \in Containers : pc[c] = "down"
        /\ setup = "key" => keyFile = Torn
        /\ setup = "skeleton" => users = Torn

\* The inductive invariant.
Inv == TypeOK /\ LockInv /\ BootInv /\ FileInv /\ ServeInv /\ SetupInv

\* An empty volume satisfies the invariant.
LEMMA InitInv == Init => Inv
<1> SUFFICES ASSUME Init PROVE Inv
  OBVIOUS
<1>1. TypeOK
  <2>1. mishaps \in 0..MaxMishaps /\ draws \in Nat
    BY VolumeAssumption DEF Init, Skeleton
  <2>2. pc \in [Containers -> Steps]
    BY DEF Init, Steps
  <2>3. lock \in BOOLEAN /\ rowKeys \subseteq Nat /\ racers \subseteq Containers
    BY Zenon DEF Init
  <2> QED BY <2>1, <2>2, <2>3, Zenon DEF Init, TypeOK
<1>2. LockInv /\ BootInv /\ FileInv /\ ServeInv /\ SetupInv
  BY DEF Init, LockInv, BootInv, FileInv, ServeInv, SetupInv, Locked
<1> QED BY <1>1, <1>2 DEF Inv

\* Steps that neither draw nor write: the container only moves on.
LEMMA MoveInv ==
    ASSUME Inv, NEW c \in Containers, NEW step \in Steps, Goto(c, step),
           UNCHANGED <<users, token, keyFile, rowKeys, draft, snap, key, draws, racers, setup>>,
           mishaps' \in 0..MaxMishaps,
           pc[c] # "down" \/ setup \in {"never", "ended"},
           \/ lock' = lock /\ (step \in Locked => pc[c] \in Locked)
           \/ lock' = TRUE /\ ~lock
           \/ lock' = FALSE /\ pc[c] \in Locked /\ step \notin Locked,
           step \in {"token", "users"} => users = Absent,
           step # "users", step \notin {"readkey", "rename", "up"}
    PROVE  Inv'
<1>1. TypeOK'
  BY Zenon DEF Inv, TypeOK, Goto
<1>2. LockInv'
  BY DEF Inv, TypeOK, LockInv, Goto
<1>3. BootInv'
  BY DEF Inv, TypeOK, BootInv, Goto
<1>4. FileInv' /\ ServeInv'
  BY DEF Inv, TypeOK, FileInv, ServeInv, Goto
<1>5. SetupInv'
  BY DEF Inv, TypeOK, SetupInv, Goto
<1> QED BY <1>1, <1>2, <1>3, <1>4, <1>5 DEF Inv

\* While a container runs, init does not: SetupInv does not speak of it.
LEMMA NoSetup ==
    ASSUME Inv, NEW c \in Containers, pc[c] # "down", setup' = setup
    PROVE  SetupInv'
BY DEF Inv, TypeOK, SetupInv

\* A container that is killed leaves the files as they are.
LEMMA KillInv ==
    ASSUME Inv, NEW c \in Containers, Kill(c)
    PROVE  Inv'
<1>1. TypeOK'
  <2>1. mishaps' \in 0..MaxMishaps
    BY VolumeAssumption DEF Inv, TypeOK, Kill
  <2>2. draft' \in [Containers -> Nat \cup {Absent}] /\ snap' \in [Containers -> Nat \cup {Absent}]
        /\ key' \in [Containers -> Nat \cup {Absent}] /\ pc' \in [Containers -> Steps]
    BY DEF Inv, TypeOK, Kill, Goto, Forgotten, Steps
  <2> QED BY <2>1, <2>2 DEF Inv, TypeOK, Kill, files
<1>2. LockInv' /\ BootInv' /\ FileInv'
  BY DEF Inv, TypeOK, LockInv, BootInv, FileInv, Kill, Goto, Forgotten, files, Locked
<1>3. ServeInv'
  BY DEF Inv, TypeOK, ServeInv, Kill, Goto, Forgotten, files
<1>4. SetupInv'
  BY NoSetup DEF Kill
<1> QED BY <1>1, <1>2, <1>3, <1>4 DEF Inv

\* The entrypoint keeps the invariant.
LEMMA EntrypointInv ==
    ASSUME Inv, NEW c \in Containers,
           \/ Start(c) \/ Check(c) \/ Mkdir(c) \/ Recheck(c) \/ Unlock(c)
           \/ WaitSees(c) \/ WaitTimesOut(c) \/ Stat(c) \/ OpenFails(c)
    PROVE  Inv'
<1>0. mishaps \in Nat /\ mishaps \in 0..MaxMishaps /\ MaxMishaps \in Nat /\ lock \in BOOLEAN
  BY VolumeAssumption DEF Inv, TypeOK
<1>1. CASE Start(c) \/ Check(c) \/ Recheck(c) \/ Stat(c)
  BY <1>0, <1>1, MoveInv, Zenon DEF Start, Check, Recheck, Stat, files, Steps, Locked
<1>2. CASE WaitSees(c) \/ WaitTimesOut(c)
  BY <1>0, <1>2, MoveInv, Zenon DEF WaitSees, WaitTimesOut, files, Steps, Locked
<1>3. CASE OpenFails(c)
  BY <1>0, <1>3, MoveInv, Zenon DEF OpenFails, files, Steps, Locked
<1>4. CASE Mkdir(c)
  BY <1>0, <1>4, MoveInv, Zenon DEF Mkdir, LockFree, Steps, Locked
<1>5. CASE Unlock(c)
  BY <1>0, <1>5, MoveInv, Zenon DEF Unlock, Steps, Locked
<1> QED BY <1>1, <1>2, <1>3, <1>4, <1>5

\* bootstrap keeps the invariant: it is alone inside the lock.
LEMMA BootstrapInv ==
    ASSUME Inv, NEW c \in Containers,
           WriteToken(c) \/ WriteUsers(c) \/ BootstrapFails(c)
    PROVE  Inv'
<1>0. pc[c] \in {"token", "users"} /\ users = Absent
  BY DEF Inv, BootInv, WriteToken, WriteUsers, BootstrapFails
<1>1. \A d \in Containers : d # c => pc[d] \notin Locked
  BY <1>0 DEF Inv, LockInv, Locked
<1>2. \A d \in Containers : pc[d] \notin {"readkey", "rename", "up"}
  BY <1>0 DEF Inv, ServeInv, Usable
<1>6. SetupInv'
  BY <1>0, NoSetup DEF WriteToken, WriteUsers, BootstrapFails
<1>3. CASE WriteToken(c)
  <2>1. TypeOK'
    BY <1>3 DEF Inv, TypeOK, WriteToken, Goto, Draw, Fresh, Steps, Locked
  <2>2. LockInv'
    BY <1>0, <1>1, <1>3 DEF Inv, TypeOK, LockInv, WriteToken, Goto, Locked
  <2>3. BootInv'
    BY <1>0, <1>1, <1>3 DEF Inv, TypeOK, BootInv, WriteToken, Goto, Draw, Fresh, Locked
  <2>4. FileInv' /\ ServeInv'
    BY <1>0, <1>2, <1>3 DEF Inv, TypeOK, FileInv, ServeInv, WriteToken, Goto
  <2> QED BY <1>6, <2>1, <2>2, <2>3, <2>4 DEF Inv
<1>4. CASE WriteUsers(c)
  <2>0. token = draft[c] /\ draft[c] \in Nat
    BY <1>4 DEF Inv, BootInv, WriteUsers
  <2>1. TypeOK'
    BY <1>4, <2>0 DEF Inv, TypeOK, WriteUsers, Goto, Forgotten, Steps, Locked
  <2>2. LockInv'
    BY <1>0, <1>1, <1>4 DEF Inv, TypeOK, LockInv, WriteUsers, Goto, Locked
  <2>3. BootInv'
    BY <1>0, <1>1, <1>4 DEF Inv, TypeOK, BootInv, WriteUsers, Goto, Forgotten, Locked
  <2>4. FileInv' /\ ServeInv'
    BY <1>0, <1>2, <1>4, <2>0 DEF Inv, TypeOK, FileInv, ServeInv, WriteUsers, Goto, Forgotten
  <2> QED BY <1>6, <2>1, <2>2, <2>3, <2>4 DEF Inv
<1>5. CASE BootstrapFails(c)
  <2>1. TypeOK'
    BY <1>5, VolumeAssumption DEF Inv, TypeOK, BootstrapFails, Goto, Forgotten, Steps, Locked
  <2>2. LockInv'
    BY <1>0, <1>1, <1>5 DEF Inv, TypeOK, LockInv, BootstrapFails, Goto, Locked
  <2>3. BootInv'
    BY <1>0, <1>1, <1>5 DEF Inv, TypeOK, BootInv, BootstrapFails, Goto, Forgotten, Locked
  <2>4. FileInv' /\ ServeInv'
    BY <1>0, <1>2, <1>5 DEF Inv, TypeOK, FileInv, ServeInv, BootstrapFails, Goto, Forgotten
  <2> QED BY <1>6, <2>1, <2>2, <2>3, <2>4 DEF Inv
<1> QED BY <1>3, <1>4, <1>5

\* serve keeps the invariant.
LEMMA ServerInv ==
    ASSUME Inv, NEW c \in Containers,
           LoadUsers(c) \/ ReadKey(c) \/ RenameKey(c) \/ StoreRow(c)
    PROVE  Inv'
<1>5. SetupInv'
  BY NoSetup DEF LoadUsers, ReadKey, RenameKey, StoreRow
<1>1. CASE LoadUsers(c)
  <2>1. TypeOK'
    BY <1>1 DEF Inv, TypeOK, LoadUsers, Goto, files, Steps
  <2>2. LockInv' /\ BootInv' /\ FileInv'
    BY <1>1 DEF Inv, TypeOK, LockInv, BootInv, FileInv, LoadUsers, Goto, files, Locked
  <2>3. ServeInv'
    BY <1>1 DEF Inv, TypeOK, ServeInv, LoadUsers, Usable, Goto, files
  <2> QED BY <1>5, <2>1, <2>2, <2>3 DEF Inv
<1>2. CASE ReadKey(c)
  <2>1. TypeOK'
    BY <1>2 DEF Inv, TypeOK, ReadKey, KeyMissing, Draw, Fresh, Goto, files, Steps
  <2>2. LockInv' /\ FileInv'
    BY <1>2 DEF Inv, TypeOK, LockInv, FileInv, ReadKey, Goto, files, Locked
  <2>3. BootInv'
    BY <1>2 DEF Inv, TypeOK, BootInv, ReadKey, Draw, Goto, files
  <2>4. ServeInv'
    BY <1>2 DEF Inv, TypeOK, ServeInv, ReadKey, KeyMissing, Usable, Draw, Fresh, Torn, Goto, files
  <2> QED BY <1>5, <2>1, <2>2, <2>3, <2>4 DEF Inv
<1>3. CASE RenameKey(c)
  <2>1. TypeOK'
    BY <1>3 DEF Inv, TypeOK, RenameKey, Goto, Forgotten, Steps
  <2>2. LockInv' /\ BootInv' /\ FileInv'
    BY <1>3 DEF Inv, TypeOK, LockInv, BootInv, FileInv, RenameKey, Goto, Forgotten, Locked
  <2>3. ServeInv'
    BY <1>3 DEF Inv, TypeOK, ServeInv, RenameKey, Goto, Forgotten
  <2> QED BY <1>5, <2>1, <2>2, <2>3 DEF Inv
<1>4. CASE StoreRow(c)
  BY <1>4, <1>5, Zenon DEF Inv, TypeOK, LockInv, BootInv, FileInv, ServeInv, StoreRow, procs
<1> QED BY <1>1, <1>2, <1>3, <1>4

\* The operator keeps the invariant: the lock goes only when nobody is inside.
LEMMA OperatorInv ==
    ASSUME Inv, RemoveStaleLock \/ DeleteToken
    PROVE  Inv'
<1>1. CASE RemoveStaleLock
  BY <1>1, Zenon DEF Inv, TypeOK, LockInv, BootInv, FileInv, ServeInv, SetupInv, RemoveStaleLock, procs
<1>2. CASE DeleteToken
  <2>1. \A c \in Containers : pc[c] # "users"
    BY <1>2 DEF Inv, BootInv, DeleteToken
  <2> QED BY <1>2, <2>1 DEF Inv, TypeOK, LockInv, BootInv, FileInv, ServeInv, SetupInv, DeleteToken, procs
<1> QED BY <1>1, <1>2

\* init keeps the invariant: no container runs, and it touches only files that
\* are not there.
LEMMA InitCommandInv ==
    ASSUME Inv, InitStep \/ InitKilled
    PROVE  Inv'
<1>0. /\ \A c \in Containers : pc[c] = "down"
      /\ UNCHANGED <<token, lock, rowKeys, procs, racers>>
  BY DEF Inv, SetupInv, InitStep, InitKey, InitKeyWritten, InitUsers, InitUsersWritten,
         InitKilled, files
<1>1. TypeOK'
  <2>1. draws' \in Nat /\ mishaps' \in 0..MaxMishaps
    BY VolumeAssumption DEF Inv, TypeOK, InitStep, InitKey, InitKeyWritten, InitUsers,
       InitUsersWritten, InitKilled, Fresh
  <2>2. users' \in Nat \cup {Absent} /\ keyFile' \in Nat \cup {Absent}
    BY DEF Inv, TypeOK, InitStep, InitKey, InitKeyWritten, InitUsers,
       InitUsersWritten, InitKilled, Fresh, Torn, Skeleton, files
  <2>3. setup' \in {"never", "key", "users", "skeleton", "ended"}
    BY DEF InitStep, InitKey, InitKeyWritten, InitUsers, InitUsersWritten, InitKilled
  <2> QED BY <1>0, <2>1, <2>2, <2>3 DEF Inv, TypeOK, procs
<1>2. LockInv' /\ BootInv' /\ ServeInv'
  BY <1>0 DEF LockInv, BootInv, ServeInv, procs, Locked
<1>3. FileInv' /\ SetupInv'
  <2>1. CASE InitKey
    BY <1>0, <2>1 DEF Inv, FileInv, SetupInv, InitKey, KeyMissing, procs
  <2>2. CASE InitKeyWritten
    BY <1>0, <2>2 DEF Inv, FileInv, SetupInv, InitKeyWritten, procs
  <2>3. CASE InitUsers
    BY <1>0, <2>3 DEF Inv, FileInv, SetupInv, InitUsers, UsersMissing, Usable, procs
  <2>4. CASE InitUsersWritten
    BY <1>0, <2>4 DEF Inv, FileInv, SetupInv, InitUsersWritten, Usable, procs
  <2>5. CASE InitKilled
    BY <1>0, <2>5 DEF Inv, FileInv, SetupInv, InitKilled, files, procs
  <2> QED BY <2>1, <2>2, <2>3, <2>4, <2>5 DEF InitStep
<1> QED BY <1>1, <1>2, <1>3 DEF Inv

\* Every step keeps the invariant.
LEMMA StepInv == Inv /\ [Next]_vars => Inv'
<1> SUFFICES ASSUME Inv, [Next]_vars PROVE Inv'
  OBVIOUS
<1>1. CASE UNCHANGED vars
  BY <1>1 DEF Inv, TypeOK, LockInv, BootInv, FileInv, ServeInv, SetupInv, vars, files, procs
<1> QED BY <1>1, EntrypointInv, KillInv, BootstrapInv, ServerInv, OperatorInv, InitCommandInv
        DEF Next, Run

\* The invariant holds throughout.
LEMMA Invariance == Spec => []Inv
BY InitInv, StepInv, PTL DEF Spec

\* The type invariant, for any number of containers and mishaps.
THEOREM FilesTyped == Spec => []TypeOK
<1>1. Inv => TypeOK
  BY DEF Inv
<1> QED BY <1>1, Invariance, PTL

\* Whoever raced, failed or was killed during the first start, before or after an
\* init, the token in token.txt opens every server that opens to anybody.
THEOREM TokenAlwaysOpens == Spec => []TokenOpens
<1>1. Inv => TokenOpens
  BY DEF Inv, FileInv, ServeInv, Usable, TokenOpens
<1> QED BY <1>1, Invariance, PTL

\* Credentials, once there, are never replaced by a starting container.
THEOREM CredentialsAlwaysKept == Spec => CredentialsKept
<1>1. Inv /\ [Next]_vars => [Usable(users) => users' = users]_vars
  <2> SUFFICES ASSUME Inv, [Next]_vars, Usable(users) PROVE users' = users
    OBVIOUS
  <2>1. ASSUME NEW c \in Containers, WriteUsers(c) PROVE FALSE
    BY <2>1 DEF Inv, BootInv, WriteUsers, Usable
  <2>2. ASSUME InitStep \/ InitKilled PROVE users' = users
    BY <2>2 DEF Inv, SetupInv, InitStep, InitKey, InitKeyWritten, InitUsers, UsersMissing,
       InitUsersWritten, InitKilled, Usable, files
  <2> QED BY <2>1, <2>2 DEF Next, Run, Start, Check, Mkdir, Recheck, Unlock, WaitSees,
       WaitTimesOut, Stat, WriteToken, BootstrapFails, OpenFails, LoadUsers, ReadKey, RenameKey,
       StoreRow, Kill, RemoveStaleLock, DeleteToken, files, vars
<1> QED BY <1>1, Invariance, PTL DEF Spec, CredentialsKept

\* As long as no two containers raced for the key: at most one is about to save
\* one, and only while there is none; servers and rows have the key on disk.
KeyInv ==
    racers = {} =>
        /\ \A c, d \in Containers : pc[c] = "rename" /\ pc[d] = "rename" => c = d
        /\ \A c \in Containers : pc[c] = "rename" => keyFile = Absent
        /\ \A c \in Containers : pc[c] = "up" => key[c] = keyFile /\ Usable(keyFile)
        /\ \A k \in rowKeys : k = keyFile /\ Usable(keyFile)

\* Steps of a container that leave key, key file and rows alone and end outside
\* serve.
LEMMA MoveKeys ==
    ASSUME Inv, KeyInv, NEW c \in Containers, NEW step, Goto(c, step),
           step \notin {"rename", "up"}, UNCHANGED <<keyFile, rowKeys, key, racers>>
    PROVE  KeyInv'
BY DEF Inv, TypeOK, KeyInv, Goto

\* The steps of serve keep KeyInv: a key is drawn only when there is none.
LEMMA ServerKeys ==
    ASSUME Inv, KeyInv, NEW c \in Containers,
           ReadKey(c) \/ RenameKey(c) \/ StoreRow(c)
    PROVE  KeyInv'
<1>1. CASE ReadKey(c)
  <2>1. CASE keyFile = Absent
    BY <1>1, <2>1 DEF Inv, TypeOK, KeyInv, ReadKey, KeyMissing, Usable, Goto, files
  <2>2. CASE keyFile # Absent
    BY <1>1, <2>2 DEF Inv, TypeOK, KeyInv, ReadKey, KeyMissing, Goto, files
  <2> QED BY <2>1, <2>2
<1>2. CASE RenameKey(c)
  <2>1. Usable(draft[c])
    BY <1>2, VolumeAssumption DEF Inv, ServeInv, RenameKey, Usable
  <2>2. rowKeys = {} \/ racers # {}
    BY <1>2 DEF KeyInv, RenameKey, Usable
  <2> QED BY <1>2, <2>1, <2>2 DEF Inv, TypeOK, KeyInv, RenameKey, Goto, Usable
<1>3. CASE StoreRow(c)
  BY <1>3 DEF Inv, TypeOK, KeyInv, StoreRow, procs
<1> QED BY <1>1, <1>2, <1>3

\* Every step keeps KeyInv.
LEMMA StepKeys == Inv /\ KeyInv /\ [Next]_vars => KeyInv'
<1> SUFFICES ASSUME Inv, KeyInv, [Next]_vars PROVE KeyInv'
  OBVIOUS
<1>1. ASSUME NEW c \in Containers,
             Start(c) \/ Check(c) \/ Mkdir(c) \/ Recheck(c) \/ Unlock(c)
      PROVE  KeyInv'
  BY <1>1, MoveKeys DEF Start, Check, Mkdir, Recheck, Unlock, files
<1>2. ASSUME NEW c \in Containers,
             WaitSees(c) \/ WaitTimesOut(c) \/ Stat(c) \/ OpenFails(c) \/ LoadUsers(c)
      PROVE  KeyInv'
  BY <1>2, MoveKeys DEF WaitSees, WaitTimesOut, Stat, OpenFails, LoadUsers, files
<1>3. ASSUME NEW c \in Containers, WriteToken(c) \/ WriteUsers(c) \/ BootstrapFails(c)
      PROVE  KeyInv'
  BY <1>3, MoveKeys DEF WriteToken, WriteUsers, BootstrapFails
<1>4. CASE RemoveStaleLock \/ DeleteToken
  BY <1>4 DEF KeyInv, RemoveStaleLock, DeleteToken, procs
<1>5. ASSUME NEW c \in Containers, Kill(c) PROVE KeyInv'
  BY <1>5 DEF Inv, TypeOK, KeyInv, Kill, Goto, Forgotten, files
<1>6. CASE InitStep \/ InitKilled
  <2>1. /\ \A c \in Containers : pc[c] = "down"
        /\ UNCHANGED <<rowKeys, procs, racers>>
    BY <1>6 DEF Inv, SetupInv, InitStep, InitKey, InitKeyWritten, InitUsers, InitUsersWritten,
         InitKilled, files
  <2>2. keyFile' = keyFile \/ ~Usable(keyFile)
    BY <1>6 DEF Inv, SetupInv, InitStep, InitKey, KeyMissing, InitKeyWritten, InitUsers,
         InitUsersWritten, InitKilled, files, Usable
  <2> QED BY <2>1, <2>2 DEF KeyInv, procs
<1>7. CASE UNCHANGED vars
  BY <1>7 DEF KeyInv, vars, files, procs
<1> QED BY <1>1, <1>2, <1>3, <1>4, <1>5, <1>6, <1>7, ServerKeys DEF Next, Run

\* It holds throughout.
LEMMA KeysHold == Spec => []KeyInv
<1>1. Init => KeyInv
  BY DEF Init, KeyInv
<1> QED BY <1>1, Invariance, StepKeys, PTL DEF Spec

\* No stored configuration is lost in any number of kills and restarts, unless
\* two containers raced to create the master key.
THEOREM RowsAlwaysSurvive == Spec => []RowsSurviveRestart
<1>1. KeyInv => RowsSurviveRestart
  BY DEF KeyInv, RowsSurviveRestart
<1> QED BY <1>1, KeysHold, PTL

\* A container that is the only one on its volume always encrypts with the key on
\* disk, wherever it, or an init before it, is killed: what FileProvider.Load
\* says of itself fails only when another process creates the key meanwhile.
THEOREM KeyOnDiskAlone ==
    ASSUME \A c, d \in Containers : c = d
    PROVE  Spec => []KeyOnDisk
<1>1. Init => racers = {}
  BY DEF Init
<1>2. racers = {} /\ [Next]_vars => (racers = {})'
  <2> SUFFICES ASSUME racers = {}, [Next]_vars PROVE racers' = {}
    OBVIOUS
  <2>1. ASSUME NEW c \in Containers, ReadKey(c) PROVE racers' = {}
    <3>1. ~\E d \in Containers : pc[d] = "rename"
      BY <2>1, Zenon DEF ReadKey
    <3> QED BY <2>1, <3>1 DEF ReadKey
  <2>2. ASSUME InitStep \/ InitKilled PROVE racers' = racers
    BY <2>2 DEF InitStep, InitKey, InitKeyWritten, InitUsers, InitUsersWritten, InitKilled
  <2> QED BY <2>1, <2>2 DEF Next, Run, Start, Check, Mkdir, Recheck, Unlock, WaitSees,
       WaitTimesOut, Stat, WriteToken, WriteUsers, BootstrapFails, OpenFails, LoadUsers,
       RenameKey, StoreRow, Kill, RemoveStaleLock, DeleteToken, vars
<1>3. racers = {} /\ KeyInv => KeyOnDisk
  BY DEF KeyInv, KeyOnDisk
<1> QED BY <1>1, <1>2, <1>3, KeysHold, PTL DEF Spec
----------------------------------------------------------------------------
(***************************************************************************)
(* The migrations.                                                         *)
(***************************************************************************)

\* The opener inside a transaction, and no other, holds the write lock.
WriterInv ==
    \A p \in Openers : at[p] \in {"exec", "commit"} <=> writer = p

\* The loop of Open has passed only migrations that are recorded.
LoopInv ==
    \A p \in Openers :
        /\ seen[p] \subseteq recorded
        /\ \A v \in Versions : v < reached[p] => v \in recorded
        /\ at[p] \in {"exec", "commit"} => reached[p] <= Latest[p]
        /\ at[p] = "open" => reached[p] > Latest[p]

\* What a transaction adds to the database.
TxInv ==
    /\ writer = NoOpener => txRecorded = recorded /\ txEffects = effects /\ txNext = 1
    /\ \A p \in Openers : at[p] = "exec" =>
         /\ txRecorded = recorded
         /\ txNext \in 1..(Length + 1)
         /\ \A v \in Versions, i \in Statements :
              txEffects[v][i] = IF v = reached[p] /\ i < txNext THEN effects[v][i] + 1
                                ELSE effects[v][i]
    /\ \A p \in Openers : at[p] = "commit" =>
         /\ reached[p] \notin recorded
         /\ txRecorded = recorded \cup {reached[p]}
         /\ \A v \in Versions, i \in Statements :
              txEffects[v][i] = IF v = reached[p] THEN effects[v][i] + 1 ELSE effects[v][i]

\* The inductive invariant.
MInv ==
    MigrationsTypeOK /\ WriterInv /\ LoopInv /\ TxInv /\ AppliedOnce /\ NoGap

\* An empty database satisfies it.
LEMMA MigrationsInitInv == MigrationsInit => MInv
<1> SUFFICES ASSUME MigrationsInit PROVE MInv
  OBVIOUS
<1>1. MigrationsTypeOK
  <2>1. effects \in [Versions -> [Statements -> Nat]]
    BY DEF MigrationsInit
  <2>2. reached \in [Openers -> 1..(Newest + 1)]
    BY MigrationsAssumption DEF MigrationsInit
  <2>3. at \in [Openers -> OpenSteps] /\ seen \in [Openers -> SUBSET Versions]
    BY DEF MigrationsInit, OpenSteps
  <2> QED BY <2>1, <2>2, <2>3 DEF MigrationsInit, MigrationsTypeOK
<1>2. WriterInv
  BY MigrationsAssumption DEF MigrationsInit, WriterInv
<1>3. LoopInv
  <2>1. \A v \in Versions : ~(v < 1)
    BY MigrationsAssumption DEF Versions
  <2>2. \A p \in Openers : at[p] = "closed" /\ seen[p] = {} /\ reached[p] = 1
    BY DEF MigrationsInit
  <2> QED BY <2>1, <2>2 DEF LoopInv
<1>4. TxInv
  BY DEF MigrationsInit, TxInv
<1>5. AppliedOnce /\ NoGap
  BY DEF MigrationsInit, AppliedOnce, NoGap
<1> QED BY <1>1, <1>2, <1>3, <1>4, <1>5 DEF MInv

\* An open transaction nobody touches, seen from the openers inside it.
LEMMA TxKept ==
    ASSUME TxInv, UNCHANGED <<recorded, effects, txRecorded, txEffects, txNext, writer>>,
           \A q \in Openers : at'[q] \in {"exec", "commit"} =>
             at'[q] = at[q] /\ reached'[q] = reached[q]
    PROVE  TxInv'
<1>1. ASSUME NEW q \in Openers, at'[q] = "exec"
      PROVE  /\ txRecorded = recorded /\ txNext \in 1..(Length + 1)
             /\ \A v \in Versions, i \in Statements :
                  txEffects[v][i] = IF v = reached'[q] /\ i < txNext THEN effects[v][i] + 1
                                    ELSE effects[v][i]
  BY <1>1 DEF TxInv
<1>2. ASSUME NEW q \in Openers, at'[q] = "commit"
      PROVE  /\ reached'[q] \notin recorded
             /\ txRecorded = recorded \cup {reached'[q]}
             /\ \A v \in Versions, i \in Statements :
                  txEffects[v][i] = IF v = reached'[q] THEN effects[v][i] + 1
                                    ELSE effects[v][i]
  BY <1>2 DEF TxInv
<1> QED BY <1>1, <1>2 DEF TxInv

\* Steps that leave the database and the transaction alone.
LEMMA LocalStep ==
    ASSUME MInv, NEW p \in Openers,
           \/ Connect(p) \/ LoadApplied(p) \/ SkipApplied(p) \/ Opened(p) \/ CloseStore(p)
           \/ CreateLedger(p)
    PROVE  MInv'
<1>0. /\ UNCHANGED <<recorded, effects, transaction>>
      /\ ledger' \in {"missing", "there"}
      /\ at[p] \notin {"exec", "commit"} /\ at'[p] \notin {"exec", "commit"}
      /\ at' \in [Openers -> OpenSteps]
      /\ \A q \in Openers : q # p => at'[q] = at[q]
  BY DEF MInv, MigrationsTypeOK, Connect, LoadApplied, SkipApplied, Pending, Opened, CloseStore,
         CreateLedger, Forget, Move, database, OpenSteps
<1>1. /\ reached' \in [Openers -> 1..(Newest + 1)]
      /\ seen' \in [Openers -> SUBSET Versions]
      /\ \A q \in Openers : q # p => seen'[q] = seen[q] /\ reached'[q] = reached[q]
      /\ seen'[p] \subseteq recorded
      /\ at'[p] = "open" => reached'[p] > Latest[p]
  <2>0. Newest \in Nat /\ Latest[p] \in 0..Newest
    BY MigrationsAssumption
  <2>1. CASE SkipApplied(p)
    <3>1. at' = at /\ seen' = seen /\ at[p] = "loop"
      BY <2>1 DEF SkipApplied, Pending
    <3>2. reached[p] \in 1..(Newest + 1) /\ reached[p] + 1 \in 1..(Newest + 1)
      BY <2>0, <2>1 DEF MInv, MigrationsTypeOK, SkipApplied, Pending
    <3>3. reached' = [reached EXCEPT ![p] = reached[p] + 1]
      BY <2>1 DEF SkipApplied, Applied
    <3>4. reached' \in [Openers -> 1..(Newest + 1)]
          /\ \A q \in Openers : q # p => reached'[q] = reached[q]
      BY <3>2, <3>3 DEF MInv, MigrationsTypeOK
    <3> QED BY <3>1, <3>4 DEF MInv, MigrationsTypeOK, LoopInv
  <2>2. CASE Connect(p) \/ CreateLedger(p)
    BY <2>2 DEF MInv, MigrationsTypeOK, LoopInv, Connect, CreateLedger, Move
  <2>3. CASE LoadApplied(p)
    BY <2>3 DEF MInv, MigrationsTypeOK, LoopInv, LoadApplied, Move
  <2>4. CASE Opened(p)
    BY <2>4 DEF MInv, MigrationsTypeOK, LoopInv, Opened, AllApplied, Move
  <2>5. CASE CloseStore(p)
    BY <2>0, <2>5 DEF MInv, MigrationsTypeOK, LoopInv, CloseStore, Forget, Move
  <2> QED BY <2>1, <2>2, <2>3, <2>4, <2>5
<1>2. \A v \in Versions : v < reached'[p] => v \in recorded
  <2>1. CASE SkipApplied(p)
    <3>1. reached[p] \in recorded /\ reached'[p] = reached[p] + 1 /\ reached[p] \in Nat
      BY <2>1 DEF MInv, MigrationsTypeOK, LoopInv, SkipApplied, Applied
    <3>2. ASSUME NEW v \in Versions, v < reached[p] + 1 PROVE v \in recorded
      <4>1. v < reached[p] \/ v = reached[p]
        BY <3>1, <3>2, MigrationsAssumption DEF Versions
      <4> QED BY <3>1, <4>1 DEF MInv, LoopInv
    <3> QED BY <3>1, <3>2
  <2>2. CASE CloseStore(p)
    <3>1. reached'[p] = 1
      BY <2>2 DEF MInv, MigrationsTypeOK, CloseStore, Forget
    <3> QED BY <3>1 DEF Versions
  <2>3. CASE ~SkipApplied(p) /\ ~CloseStore(p)
    <3>1. reached' = reached
      BY <2>3 DEF Connect, LoadApplied, Opened, CreateLedger
    <3> QED BY <3>1 DEF MInv, LoopInv
  <2> QED BY <2>1, <2>2, <2>3
<1>3. MigrationsTypeOK'
  BY <1>0, <1>1 DEF MInv, MigrationsTypeOK, transaction
<1>4. WriterInv'
  BY <1>0 DEF MInv, WriterInv, transaction
<1>5. LoopInv'
  <2> SUFFICES ASSUME NEW q \in Openers
               PROVE  /\ seen'[q] \subseteq recorded'
                      /\ \A v \in Versions : v < reached'[q] => v \in recorded'
                      /\ at'[q] \in {"exec", "commit"} => reached'[q] <= Latest[q]
                      /\ at'[q] = "open" => reached'[q] > Latest[q]
    BY DEF LoopInv
  <2>1. CASE q = p
    BY <1>0, <1>1, <1>2, <2>1
  <2>2. CASE q # p
    BY <1>0, <1>1, <2>2 DEF MInv, LoopInv
  <2> QED BY <2>1, <2>2
<1>6. TxInv'
  <2>1. \A q \in Openers : at'[q] \in {"exec", "commit"} =>
          at'[q] = at[q] /\ reached'[q] = reached[q]
    BY <1>0, <1>1
  <2>2. UNCHANGED <<recorded, effects, txRecorded, txEffects, txNext, writer>>
    BY <1>0 DEF transaction
  <2> QED BY <2>1, <2>2, TxKept DEF MInv
<1>7. AppliedOnce' /\ NoGap'
  BY <1>0 DEF MInv, AppliedOnce, NoGap
<1> QED BY <1>3, <1>4, <1>5, <1>6, <1>7 DEF MInv

\* A transaction begins, or runs a statement.
LEMMA WriteStep ==
    ASSUME MInv, NEW p \in Openers, BeginMigration(p) \/ Exec(p)
    PROVE  MInv'
<1>0. UNCHANGED <<database, seen, reached, txRecorded>> /\ Newest \in Nat /\ Length \in Nat
  BY MigrationsAssumption DEF BeginMigration, Exec, database, opener
<1>1. CASE BeginMigration(p)
  <2>1. MigrationsTypeOK'
    BY <1>0, <1>1 DEF MInv, MigrationsTypeOK, BeginMigration, Move, OpenSteps, database
  <2>2. WriterInv'
    BY <1>1, MigrationsAssumption DEF MInv, MigrationsTypeOK, WriterInv, BeginMigration, Pending, Move
  <2>3. LoopInv'
    BY <1>0, <1>1 DEF MInv, MigrationsTypeOK, LoopInv, BeginMigration, Pending, Move, database
  <2>4. TxInv'
    <3>1. /\ txRecorded' = recorded' /\ txEffects' = effects' /\ txNext' = 1
          /\ writer' = p /\ p # NoOpener
      BY <1>0, <1>1, MigrationsAssumption DEF MInv, TxInv, BeginMigration, database
    <3>2. \A q \in Openers : at'[q] = "exec" => q = p
      BY <1>1, MigrationsAssumption DEF MInv, MigrationsTypeOK, WriterInv, BeginMigration, Move
    <3>3. \A q \in Openers : at'[q] # "commit"
      BY <1>1, MigrationsAssumption DEF MInv, MigrationsTypeOK, WriterInv, BeginMigration, Move
    <3>4. \A i \in Statements : ~(i < 1)
      BY DEF Statements
    <3>5. 1 \in 1..(Length + 1)
      BY <1>0
    <3> QED BY <3>1, <3>2, <3>3, <3>4, <3>5 DEF TxInv
  <2>5. AppliedOnce' /\ NoGap'
    BY <1>0 DEF MInv, AppliedOnce, NoGap, database
  <2> QED BY <2>1, <2>2, <2>3, <2>4, <2>5 DEF MInv
<1>2. CASE Exec(p)
  <2>0. /\ at[p] = "exec" /\ writer = p /\ p # NoOpener /\ UNCHANGED <<writer, at>>
        /\ \A q \in Openers : at[q] \in {"exec", "commit"} => q = p
        /\ txNext \in Statements /\ txNext' = txNext + 1
        /\ reached[p] \in Versions
    <3>1. at[p] = "exec" /\ UNCHANGED <<writer, at>> /\ txNext \in Statements /\ txNext' = txNext + 1
      BY <1>2 DEF Exec, opener
    <3>2. reached[p] \in 1..(Newest + 1) /\ reached[p] <= Latest[p] /\ Latest[p] \in 0..Newest
      BY <3>1, MigrationsAssumption DEF MInv, MigrationsTypeOK, LoopInv
    <3>3. reached[p] \in Versions
      BY <1>0, <3>2 DEF Versions
    <3> QED BY <3>1, <3>3, MigrationsAssumption DEF MInv, WriterInv
  <2>1. txNext \in 1..Length /\ txNext + 1 \in 1..(Length + 1) /\ txNext + 1 \in Nat
    BY <1>0, <2>0 DEF Statements
  <2>2. /\ txEffects' \in [Versions -> [Statements -> Nat]]
        /\ \A v \in Versions, i \in Statements :
             txEffects'[v][i] = IF v = reached[p] /\ i = txNext THEN txEffects[v][i] + 1
                                ELSE txEffects[v][i]
    <3>1. txEffects' = [txEffects EXCEPT ![reached[p]] =
                          [txEffects[reached[p]] EXCEPT ![txNext] = txEffects[reached[p]][txNext] + 1]]
      BY <1>2 DEF Exec
    <3>2. txEffects \in [Versions -> [Statements -> Nat]]
      BY DEF MInv, MigrationsTypeOK
    <3>3. txEffects[reached[p]] \in [Statements -> Nat] /\ txEffects[reached[p]][txNext] + 1 \in Nat
      BY <2>0, <3>2
    <3>4. [txEffects[reached[p]] EXCEPT ![txNext] = txEffects[reached[p]][txNext] + 1]
             \in [Statements -> Nat]
      BY <2>0, <3>3
    <3> QED BY <2>0, <3>1, <3>2, <3>3, <3>4
  <2>3. MigrationsTypeOK'
    BY <1>0, <2>0, <2>1, <2>2 DEF MInv, MigrationsTypeOK, database
  <2>4. WriterInv' /\ LoopInv'
    BY <1>0, <2>0 DEF MInv, WriterInv, LoopInv, database
  <2>5. TxInv'
    <3>1. \A v \in Versions, i \in Statements :
            txEffects'[v][i] = IF v = reached[p] /\ i < txNext + 1 THEN effects[v][i] + 1
                               ELSE effects[v][i]
      <4> SUFFICES ASSUME NEW v \in Versions, NEW i \in Statements
                   PROVE  txEffects'[v][i] = IF v = reached[p] /\ i < txNext + 1
                                             THEN effects[v][i] + 1 ELSE effects[v][i]
        OBVIOUS
      <4>1. txEffects[v][i] = IF v = reached[p] /\ i < txNext THEN effects[v][i] + 1
                              ELSE effects[v][i]
        BY <2>0 DEF MInv, TxInv
      <4>2. i < txNext + 1 <=> (i < txNext \/ i = txNext)
        BY <2>1 DEF Statements
      <4>3. ~(txNext < txNext)
        BY <2>1
      <4> QED BY <2>2, <4>1, <4>2, <4>3
    <3>2. txRecorded' = recorded' /\ txNext' \in 1..(Length + 1)
      BY <1>0, <2>0, <2>1 DEF MInv, TxInv, database
    <3> QED BY <1>0, <2>0, <3>1, <3>2 DEF TxInv, database
  <2>6. AppliedOnce' /\ NoGap'
    BY <1>0 DEF MInv, AppliedOnce, NoGap, database
  <2> QED BY <2>3, <2>4, <2>5, <2>6 DEF MInv
<1> QED BY <1>1, <1>2

\* Recording a migration, and giving up.
LEMMA RecordStep ==
    ASSUME MInv, NEW p \in Openers, Record(p)
    PROVE  MInv'
<1>0. /\ UNCHANGED <<database, seen, reached, writer, txEffects, txNext>>
      /\ at[p] = "exec" /\ writer = p /\ p # NoOpener
      /\ at'[p] = "commit" /\ at' \in [Openers -> OpenSteps]
      /\ \A q \in Openers : q # p => at'[q] = at[q] /\ at[q] \notin {"exec", "commit"}
  BY MigrationsAssumption DEF MInv, MigrationsTypeOK, WriterInv, Record, Move, OpenSteps
<1>1. reached[p] \in Versions
  <2>1. reached[p] \in 1..(Newest + 1) /\ reached[p] <= Latest[p] /\ Latest[p] \in 0..Newest
    BY <1>0, MigrationsAssumption DEF MInv, MigrationsTypeOK, LoopInv
  <2> QED BY <2>1, MigrationsAssumption DEF Versions
<1>2. txRecorded' = recorded \cup {reached[p]} /\ reached[p] \notin recorded
  BY <1>0 DEF MInv, TxInv, Record, Unrecorded
<1>3. \A i \in Statements : i < txNext
  <2>1. txNext \in 1..(Length + 1) /\ txNext \notin 1..Length
    BY <1>0 DEF MInv, TxInv, Record, Statements
  <2> QED BY <2>1, MigrationsAssumption DEF Statements
<1>4. MigrationsTypeOK'
  BY <1>0, <1>1, <1>2 DEF MInv, MigrationsTypeOK, database
<1>5. WriterInv'
  BY <1>0 DEF MInv, WriterInv
<1>6. LoopInv'
  BY <1>0 DEF MInv, LoopInv, database
<1>7. TxInv'
  <2>1. \A v \in Versions, i \in Statements :
          txEffects[v][i] = IF v = reached[p] THEN effects[v][i] + 1 ELSE effects[v][i]
    BY <1>0, <1>3 DEF MInv, TxInv
  <2> QED BY <1>0, <1>2, <2>1 DEF TxInv, database
<1>8. AppliedOnce' /\ NoGap'
  BY <1>0 DEF MInv, AppliedOnce, NoGap, database
<1> QED BY <1>4, <1>5, <1>6, <1>7, <1>8 DEF MInv

\* A call of Open that ends in an error, and a process that dies in it, leave the
\* database as it was.
LEMMA GiveUpStep ==
    ASSUME MInv, NEW p \in Openers, RecordFails(p) \/ AbandonOpen(p)
    PROVE  MInv'
<1>0. /\ Rollback(p) /\ Forget(p) /\ UNCHANGED database
  BY DEF RecordFails, AbandonOpen, Rollback
<1>1. /\ at'[p] = "closed" /\ seen'[p] = {} /\ reached'[p] = 1
      /\ \A q \in Openers : q # p => at'[q] = at[q] /\ seen'[q] = seen[q] /\ reached'[q] = reached[q]
      /\ at' \in [Openers -> OpenSteps] /\ seen' \in [Openers -> SUBSET Versions]
  BY <1>0 DEF MInv, MigrationsTypeOK, Forget, Move, OpenSteps
<1>2. reached' \in [Openers -> 1..(Newest + 1)]
  BY <1>0, MigrationsAssumption DEF MInv, MigrationsTypeOK, Forget
<1>3. MigrationsTypeOK'
  BY <1>0, <1>1, <1>2 DEF MInv, MigrationsTypeOK, Rollback, database, transaction
<1>4. WriterInv'
  BY <1>0, <1>1, MigrationsAssumption DEF MInv, WriterInv, Rollback, transaction
<1>5. LoopInv'
  <2>1. \A v \in Versions : ~(v < 1)
    BY MigrationsAssumption DEF Versions
  <2> QED BY <1>0, <1>1, <2>1 DEF MInv, LoopInv, database
<1>6. TxInv'
  <2>1. CASE writer = p
    <3>1. \A q \in Openers : at'[q] \notin {"exec", "commit"}
      BY <1>1, <2>1 DEF MInv, WriterInv
    <3> QED BY <1>0, <2>1, <3>1 DEF TxInv, Rollback, database
  <2>2. CASE writer # p
    <3>1. UNCHANGED <<transaction, database>> /\ at[p] \notin {"exec", "commit"}
      BY <1>0, <2>2 DEF MInv, WriterInv, Rollback
    <3>2. \A q \in Openers : at'[q] \in {"exec", "commit"} =>
            at'[q] = at[q] /\ reached'[q] = reached[q]
      BY <1>1
    <3> QED BY <3>1, <3>2, TxKept DEF MInv, database, transaction
  <2> QED BY <2>1, <2>2
<1>7. AppliedOnce' /\ NoGap'
  BY <1>0 DEF MInv, AppliedOnce, NoGap, database
<1> QED BY <1>3, <1>4, <1>5, <1>6, <1>7 DEF MInv

\* A commit adds the next migration, and each of its statements once.
LEMMA CommitStep ==
    ASSUME MInv, NEW p \in Openers, CommitMigration(p)
    PROVE  MInv'
<1>0. /\ at[p] = "commit" /\ at'[p] = "loop" /\ at' \in [Openers -> OpenSteps]
      /\ recorded' = txRecorded /\ effects' = txEffects /\ writer' = NoOpener /\ txNext' = 1
      /\ UNCHANGED <<ledger, txRecorded, txEffects, seen>>
      /\ \A q \in Openers : q # p => at'[q] = at[q] /\ at[q] \notin {"exec", "commit"}
  BY MigrationsAssumption DEF MInv, MigrationsTypeOK, WriterInv, CommitMigration, Move, OpenSteps
<1>1. reached[p] \in Versions /\ reached[p] + 1 \in 1..(Newest + 1) /\ reached[p] \in Nat
  <2>1. reached[p] \in 1..(Newest + 1) /\ reached[p] <= Latest[p] /\ Latest[p] \in 0..Newest
    BY <1>0, MigrationsAssumption DEF MInv, MigrationsTypeOK, LoopInv
  <2> QED BY <2>1, MigrationsAssumption DEF Versions
<1>2. recorded' = recorded \cup {reached[p]} /\ reached[p] \notin recorded
  BY <1>0 DEF MInv, TxInv
<1>3. /\ reached' \in [Openers -> 1..(Newest + 1)]
      /\ reached'[p] = reached[p] + 1
      /\ \A q \in Openers : q # p => reached'[q] = reached[q]
  BY <1>1 DEF MInv, MigrationsTypeOK, CommitMigration
<1>4. MigrationsTypeOK'
  BY <1>0, <1>1, <1>2, <1>3 DEF MInv, MigrationsTypeOK
<1>5. WriterInv'
  BY <1>0, MigrationsAssumption DEF WriterInv
<1>6. LoopInv'
  <2>1. ASSUME NEW v \in Versions, v < reached[p] + 1 PROVE v \in recorded'
    <3>1. v < reached[p] \/ v = reached[p]
      BY <1>1, <2>1 DEF Versions
    <3> QED BY <1>2, <3>1 DEF MInv, LoopInv
  <2> QED BY <1>0, <1>2, <1>3, <2>1 DEF MInv, LoopInv
<1>7. TxInv'
  BY <1>0, <1>2 DEF TxInv
<1>8. AppliedOnce'
  <2> SUFFICES ASSUME NEW v \in Versions, NEW i \in Statements
               PROVE  txEffects[v][i] = IF v \in recorded' THEN 1 ELSE 0
    BY <1>0 DEF AppliedOnce
  <2>1. txEffects[v][i] = IF v = reached[p] THEN effects[v][i] + 1 ELSE effects[v][i]
    BY <1>0 DEF MInv, TxInv
  <2>2. effects[v][i] = IF v \in recorded THEN 1 ELSE 0
    BY DEF MInv, AppliedOnce
  <2> QED BY <1>2, <2>1, <2>2
<1>9. NoGap'
  <2>1. ASSUME NEW w \in 1..reached[p] PROVE w \in recorded'
    <3>1. w \in Versions /\ (w < reached[p] \/ w = reached[p])
      BY <1>1, <2>1, MigrationsAssumption DEF Versions
    <3> QED BY <1>2, <3>1 DEF MInv, LoopInv
  <2> QED BY <1>2, <2>1 DEF MInv, NoGap
<1> QED BY <1>4, <1>5, <1>6, <1>7, <1>8, <1>9 DEF MInv

\* Every step keeps the invariant.
LEMMA MigrationsStepInv == MInv /\ [MigrationsNext]_migrationVars => MInv'
<1> SUFFICES ASSUME MInv, [MigrationsNext]_migrationVars PROVE MInv'
  OBVIOUS
<1>1. CASE UNCHANGED migrationVars
  <2>1. UNCHANGED <<ledger, recorded, effects, txRecorded, txEffects, txNext, writer,
                    at, seen, reached>>
    BY <1>1 DEF migrationVars, database, transaction, opener
  <2>2. TxInv'
    BY <2>1, TxKept DEF MInv
  <2> QED BY <2>1, <2>2 DEF MInv, MigrationsTypeOK, WriterInv, LoopInv, AppliedOnce, NoGap
<1> QED BY <1>1, LocalStep, WriteStep, RecordStep, GiveUpStep, CommitStep
        DEF MigrationsNext, OpenStep

\* The invariant holds throughout.
LEMMA MigrationsInvariance == MigrationsSpec => []MInv
BY MigrationsInitInv, MigrationsStepInv, PTL DEF MigrationsSpec

\* Each migration takes effect exactly once, however many processes of whatever
\* releases open the database at once and wherever they die.
THEOREM EveryMigrationOnce == MigrationsSpec => []AppliedOnce
<1>1. MInv => AppliedOnce
  BY DEF MInv
<1> QED BY <1>1, MigrationsInvariance, PTL

\* The ledger never has a gap.
THEOREM LedgerHasNoGap == MigrationsSpec => []NoGap
<1>1. MInv => NoGap
  BY DEF MInv
<1> QED BY <1>1, MigrationsInvariance, PTL

\* Open returns a store with every migration of its binary.
THEOREM OpenIsUpToDate == MigrationsSpec => []SchemaUpToDate
<1>1. MInv => SchemaUpToDate
  <2> SUFFICES ASSUME MInv, NEW p \in Openers, at[p] = "open", NEW v \in 1..Latest[p]
               PROVE  v \in recorded
    BY DEF SchemaUpToDate
  <2>1. reached[p] > Latest[p] /\ reached[p] \in Nat /\ Latest[p] \in 0..Newest
    BY MigrationsAssumption DEF MInv, MigrationsTypeOK, LoopInv
  <2>2. v \in Versions /\ v < reached[p]
    BY <2>1, MigrationsAssumption DEF Versions
  <2> QED BY <2>2 DEF MInv, LoopInv
<1> QED BY <1>1, MigrationsInvariance, PTL
----------------------------------------------------------------------------
(***************************************************************************)
(* The deployment.                                                         *)
(***************************************************************************)

\* A step of the deployment is a step of FirstStart, or leaves its state alone.
LEMMA StepOfFirstStart == [DeploymentNext]_deploymentVars => [Next]_vars
<1> SUFFICES ASSUME [DeploymentNext]_deploymentVars PROVE [Next]_vars
  OBVIOUS
<1>1. CASE UNCHANGED deploymentVars
  BY <1>1 DEF deploymentVars
<1>2. ASSUME NEW c \in Containers, Progress(c) PROVE [Next]_vars
  BY <1>2 DEF Progress, Alone, Outside, ServeOpens, ServeConflicts, ServeGoesOn, Next, Run
<1>3. ASSUME NEW c \in Containers, Dies(c) PROVE [Next]_vars
  BY <1>3 DEF Dies, Next
<1>4. ASSUME NEW c \in Containers, StoreRow(c) PROVE [Next]_vars
  BY <1>4 DEF Next
<1>5. CASE RemoveStaleLock \/ DeleteToken \/ InitStep \/ InitKilled
  BY <1>5 DEF Next
<1> QED BY <1>1, <1>2, <1>3, <1>4, <1>5 DEF DeploymentNext

\* A step of the deployment is a step of Migrations, or leaves its state alone.
LEMMA StepOfMigrations == [DeploymentNext]_deploymentVars => [MigrationsNext]_migrationVars
<1> SUFFICES ASSUME [DeploymentNext]_deploymentVars PROVE [MigrationsNext]_migrationVars
  OBVIOUS
<1>1. CASE UNCHANGED deploymentVars
  BY <1>1 DEF deploymentVars
<1>2. ASSUME NEW c \in Containers, Progress(c) PROVE [MigrationsNext]_migrationVars
  BY <1>2, DeploymentAssumption
     DEF Progress, Alone, ServeOpens, ServeConflicts, ServeGoesOn, MigrationsNext
<1>3. ASSUME NEW c \in Containers, Dies(c) PROVE [MigrationsNext]_migrationVars
  BY <1>3, DeploymentAssumption DEF Dies, MigrationsNext
<1> QED BY <1>1, <1>2, <1>3 DEF DeploymentNext

\* The composition implements both parts.
THEOREM ImplementsItsParts == DeploymentSpec => Spec /\ MigrationsSpec
BY StepOfFirstStart, StepOfMigrations, PTL DEF DeploymentSpec, DeploymentInit, Spec, MigrationsSpec

\* A server past sqlite.Open holds an open store.
StoreInv ==
    \A c \in Containers : pc[c] \in {"readkey", "rename", "up"} => at[c] = "open"

\* Only the steps of a container itself change where it is.
LEMMA StoreKept ==
    ASSUME StoreInv, NEW c \in Containers,
           \A d \in Containers : d # c => pc'[d] = pc[d] /\ at'[d] = at[d],
           pc'[c] \in {"readkey", "rename", "up"} => at'[c] = "open"
    PROVE  StoreInv'
BY DEF StoreInv

\* A step that leaves the store alone keeps StoreInv if it does not go on.
LEMMA StoreUnmoved ==
    ASSUME StoreInv, UNCHANGED <<pc, at>>
    PROVE  StoreInv'
BY DEF StoreInv

\* serve goes on only with a store, and ends when it loses it.
LEMMA StoreStep == Inv /\ MInv /\ StoreInv /\ [DeploymentNext]_deploymentVars => StoreInv'
<1> SUFFICES ASSUME Inv, MInv, StoreInv, [DeploymentNext]_deploymentVars PROVE StoreInv'
  OBVIOUS
<1>0. /\ pc \in [Containers -> Steps] /\ at \in [Containers -> OpenSteps]
  BY DeploymentAssumption DEF Inv, TypeOK, MInv, MigrationsTypeOK
<1>1. CASE UNCHANGED deploymentVars
  BY <1>1, StoreUnmoved DEF deploymentVars, vars, procs, migrationVars, opener
<1>2. ASSUME NEW c \in Containers, Alone(c) PROVE StoreInv'
  <2>1. /\ at' = at
        /\ pc'[c] \notin {"readkey", "rename", "up"}
        /\ \A d \in Containers : d # c => pc'[d] = pc[d]
    BY <1>0, <1>2 DEF Alone, Outside, Start, Check, Mkdir, Recheck, Unlock, WaitSees,
       WaitTimesOut, Stat, WriteToken, WriteUsers, Goto, migrationVars, opener
  <2> QED BY <2>1, StoreKept
<1>3. ASSUME NEW c \in Containers, ServeOpens(c) PROVE StoreInv'
  <2>1. pc' = pc /\ pc[c] = "load"
    BY <1>3 DEF ServeOpens, vars, procs
  <2>2. \A d \in Containers : d # c => at'[d] = at[d]
    BY <1>0, <1>3 DEF ServeOpens, OpenStep, Connect, CreateLedger, LoadApplied, SkipApplied,
       BeginMigration, Exec, Record, CommitMigration, Opened, Move, opener
  <2> QED BY <2>1, <2>2, StoreKept
<1>4. ASSUME NEW c \in Containers, ServeConflicts(c) PROVE StoreInv'
  BY <1>0, <1>4, StoreKept DEF ServeConflicts, RecordFails, OpenFails, Goto, Forget, Move
<1>5. ASSUME NEW c \in Containers, ServeGoesOn(c) PROVE StoreInv'
  <2>1. at[c] = "open" /\ \A d \in Containers : d # c => pc'[d] = pc[d]
    BY <1>0, <1>5 DEF ServeGoesOn, StoreReady, LoadUsers, ReadKey, RenameKey, Goto
  <2>2. CASE pc'[c] = "down"
    BY <1>0, <1>5, <2>1, <2>2, StoreKept DEF ServeGoesOn, CloseStore, Forget, Move
  <2>3. CASE pc'[c] # "down"
    BY <1>5, <2>1, <2>3, StoreKept DEF ServeGoesOn, migrationVars, opener
  <2> QED BY <2>2, <2>3
<1>6. ASSUME NEW c \in Containers, Dies(c) PROVE StoreInv'
  <2>1. pc'[c] \in {"down", "trap"} /\ \A d \in Containers : d # c => pc'[d] = pc[d]
    BY <1>0, <1>6 DEF Dies, Kill, BootstrapFails, Goto, Steps, Locked
  <2>2. \A d \in Containers : d # c => at'[d] = at[d]
    BY <1>0, <1>6 DEF Dies, AbandonOpen, CloseStore, Forget, Move, migrationVars, opener
  <2> QED BY <2>1, <2>2, StoreKept
<1>7. ASSUME NEW c \in Containers, StoreRow(c), UNCHANGED migrationVars PROVE StoreInv'
  BY <1>7, StoreUnmoved DEF StoreRow, procs, migrationVars, opener
<1>8. CASE (RemoveStaleLock \/ DeleteToken \/ InitStep \/ InitKilled) /\ UNCHANGED migrationVars
  BY <1>8, StoreUnmoved DEF RemoveStaleLock, DeleteToken, InitStep, InitKey, InitKeyWritten,
     InitUsers, InitUsersWritten, InitKilled, procs, migrationVars, opener
<1> QED BY <1>1, <1>2, <1>3, <1>4, <1>5, <1>6, <1>7, <1>8 DEF DeploymentNext, Progress

\* A server that is up has the schema of its release, for any number of
\* containers and releases and any order of starts, kills and upgrades.
THEOREM UpServersHaveTheirSchema == DeploymentSpec => []ServesItsSchema
<1>1. DeploymentInit => StoreInv
  BY DEF DeploymentInit, Init, StoreInv
<1>2. DeploymentSpec => []Inv /\ []MInv
  BY ImplementsItsParts, Invariance, MigrationsInvariance, PTL
<1>3. DeploymentSpec => []StoreInv
  BY <1>1, <1>2, StoreStep, PTL DEF DeploymentSpec
<1>4. StoreInv /\ SchemaUpToDate => ServesItsSchema
  BY DeploymentAssumption DEF StoreInv, SchemaUpToDate, ServesItsSchema
<1> QED BY <1>3, <1>4, ImplementsItsParts, OpenIsUpToDate, PTL

\* Type correctness of files, ledger and containers together.
THEOREM DeploymentTyped == DeploymentSpec => []DeploymentTypeOK
<1>1. MInv => MigrationsTypeOK
  BY DEF MInv
<1> QED BY <1>1, ImplementsItsParts, FilesTyped, MigrationsInvariance, PTL DEF DeploymentTypeOK

\* The volume's guarantees hold with the store in the picture.
THEOREM DeploymentKeepsTheVolume ==
    DeploymentSpec => /\ [](TokenOpens /\ RowsSurviveRestart /\ AppliedOnce /\ NoGap)
                      /\ CredentialsKept
BY ImplementsItsParts, TokenAlwaysOpens, RowsAlwaysSurvive, CredentialsAlwaysKept,
   EveryMigrationOnce, LedgerHasNoGap, PTL
=============================================================================
