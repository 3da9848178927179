----------------------------- MODULE FirstStart -----------------------------
(***************************************************************************)
(* Containers that start on one data volume, empty at first: the           *)
(* entrypoint with its lock directory, `tabby-sync bootstrap`, and `serve` *)
(* up to the point where it holds the users and the master key; before     *)
(* them, perhaps, an operator's `tabby-sync init`.                         *)
(*                                                                         *)
(* Every check, creation or rename of a file is a step of its own.         *)
(* bootstrap and serve write files under a temporary name and rename them, *)
(* so a file is there with all its bytes or not at all; init writes in     *)
(* place, so its files are there and Torn for a while.  Tokens and keys    *)
(* are numbers, drawn afresh each time; users.yml is represented by the    *)
(* token of its one user, or by Skeleton if it lists no user.              *)
(***************************************************************************)
EXTENDS Integers

CONSTANTS
    Containers,
    MaxMishaps,  \* bound: kills and failed writes
    Absent       \* no such file, no value

ASSUME VolumeAssumption ==
    /\ MaxMishaps \in Nat
    /\ Absent \notin Nat

VARIABLES
    users,    \* users.yml: the token of its user, or Skeleton
    token,    \* token.txt
    lock,     \* .bootstrap.lock exists
    keyFile,  \* master.key
    rowKeys,  \* keys of the ciphertexts in the database
    pc,       \* container -> its next step
    draft,    \* container -> random bytes it drew and is about to save
    snap,     \* container -> users as its server loaded them
    key,      \* container -> master key of its server
    draws,    \* random values drawn so far
    mishaps,
    racers,   \* containers that drew a key while another was about to save one
    setup     \* next step of the init command

files == <<users, token, lock, keyFile, rowKeys>>
procs == <<pc, draft, snap, key>>
vars == <<files, procs, draws, mishaps, racers, setup>>

\* A file that exists with some of its bytes missing.
Torn == 0

\* A users file that lists nobody; no token opens a server that loaded it.
Skeleton == 1

\* Steps between the mkdir that takes the lock directory and its removal.
Locked == {"recheck", "stat", "token", "users", "unlock", "trap"}
Steps == {"down", "check", "mkdir", "wait", "load", "readkey", "rename", "up"} \cup Locked

Goto(c, step) == pc' = [pc EXCEPT ![c] = step]

\* A random value nobody has.
Fresh == draws + 1
Draw(c) == draws' = Fresh /\ draft' = [draft EXCEPT ![c] = Fresh]

\* What the container had in memory is gone.
Forgotten(memory, c) == [memory EXCEPT ![c] = Absent]
----------------------------------------------------------------------------
(***************************************************************************)
(* docker-entrypoint.sh.                                                   *)
(***************************************************************************)

\* The supervisor starts the container (restart: unless-stopped), once an
\* operator's init is over.
Start(c) ==
    /\ pc[c] = "down"
    /\ setup \in {"never", "ended"}
    /\ Goto(c, "check")
    /\ UNCHANGED <<files, draft, snap, key, draws, mishaps, racers, setup>>

Check(c) ==
    /\ pc[c] = "check"
    /\ Goto(c, IF users = Absent THEN "mkdir" ELSE "load")
    /\ UNCHANGED <<files, draft, snap, key, draws, mishaps, racers, setup>>

\* Mutant of LockFree: mkdir -p, which does not mind an existing directory.
LockIgnored == TRUE

LockFree == ~lock

Mkdir(c) ==
    /\ pc[c] = "mkdir"
    /\ lock' = TRUE
    /\ Goto(c, IF LockFree THEN "recheck" ELSE "wait")
    /\ UNCHANGED <<users, token, keyFile, rowKeys, draft, snap, key, draws, mishaps, racers, setup>>

Recheck(c) ==
    /\ pc[c] = "recheck"
    /\ Goto(c, IF users = Absent THEN "stat" ELSE "unlock")
    /\ UNCHANGED <<files, draft, snap, key, draws, mishaps, racers, setup>>

\* rmdir: of the normal path, and of the trap when bootstrap failed.
Unlock(c) ==
    /\ pc[c] \in {"unlock", "trap"}
    /\ lock' = FALSE
    /\ Goto(c, IF pc[c] = "unlock" THEN "load" ELSE "down")
    /\ UNCHANGED <<users, token, keyFile, rowKeys, draft, snap, key, draws, mishaps, racers, setup>>

\* A poll of the waiting loop finds the file, ...
WaitSees(c) ==
    /\ pc[c] = "wait"
    /\ users # Absent
    /\ Goto(c, "load")
    /\ UNCHANGED <<files, draft, snap, key, draws, mishaps, racers, setup>>

\* Mutant of GivesUp: the loop has no end.
NeverGivesUp == FALSE

\* ... or the last of the polls does not, and the container exits.
GivesUp == users = Absent

WaitTimesOut(c) ==
    /\ pc[c] = "wait"
    /\ GivesUp
    /\ Goto(c, "down")
    /\ UNCHANGED <<files, draft, snap, key, draws, mishaps, racers, setup>>
----------------------------------------------------------------------------
(***************************************************************************)
(* tabby-sync bootstrap.                                                   *)
(***************************************************************************)

Stat(c) ==
    /\ pc[c] = "stat"
    /\ Goto(c, IF users = Absent THEN "token" ELSE "unlock")
    /\ UNCHANGED <<files, draft, snap, key, draws, mishaps, racers, setup>>

WriteToken(c) ==
    /\ pc[c] = "token"
    /\ Draw(c)
    /\ token' = Fresh
    /\ Goto(c, "users")
    /\ UNCHANGED <<users, lock, keyFile, rowKeys, snap, key, mishaps, racers, setup>>

WriteUsers(c) ==
    /\ pc[c] = "users"
    /\ users' = draft[c]
    /\ draft' = Forgotten(draft, c)
    /\ Goto(c, "unlock")
    /\ UNCHANGED <<token, lock, keyFile, rowKeys, snap, key, draws, mishaps, racers, setup>>

\* One of the two writes fails: the token goes with the users file.
BootstrapFails(c) ==
    /\ pc[c] \in {"token", "users"}
    /\ mishaps < MaxMishaps
    /\ mishaps' = mishaps + 1
    /\ token' = IF pc[c] = "users" THEN Absent ELSE token
    /\ draft' = Forgotten(draft, c)
    /\ Goto(c, "trap")
    /\ UNCHANGED <<users, lock, keyFile, rowKeys, snap, key, draws, racers, setup>>
----------------------------------------------------------------------------
(***************************************************************************)
(* tabby-sync serve.                                                       *)
(***************************************************************************)

\* sqlite.Open comes first and may fail; module Migrations says when.
OpenFails(c) ==
    /\ pc[c] = "load"
    /\ Goto(c, "down")
    /\ UNCHANGED <<files, draft, snap, key, draws, mishaps, racers, setup>>

\* Mutant of Usable: a file is taken as it is.
UsableIfThere(file) == file # Absent

\* LoadUsersFile and FileProvider.Load refuse a file with bytes missing.
Usable(file) == file \notin {Absent, Torn}

\* LoadUsersFile; the server keeps what it read.
LoadUsers(c) ==
    /\ pc[c] = "load"
    /\ snap' = [snap EXCEPT ![c] = users]
    /\ Goto(c, IF Usable(users) THEN "readkey" ELSE "down")
    /\ UNCHANGED <<files, draft, key, draws, mishaps, racers, setup>>

\* Mutant of KeyMissing: a key is generated on every start.
KeyAlwaysMissing == TRUE

KeyMissing == keyFile = Absent

\* FileProvider.Load reads master.key, or draws one if there is none ...
ReadKey(c) ==
    /\ pc[c] = "readkey"
    /\ IF KeyMissing
       THEN Draw(c) /\ Goto(c, "rename") /\ UNCHANGED key
       ELSE /\ key' = [key EXCEPT ![c] = keyFile]
            /\ Goto(c, IF Usable(keyFile) THEN "up" ELSE "down")
            /\ UNCHANGED <<draft, draws>>
    /\ racers' = IF KeyMissing /\ \E d \in Containers : pc[d] = "rename"
                 THEN racers \cup {c} ELSE racers
    /\ UNCHANGED <<files, snap, mishaps, setup>>

\* ... renames it into place, whatever is there by now, and returns it.
RenameKey(c) ==
    /\ pc[c] = "rename"
    /\ keyFile' = draft[c]
    /\ key' = [key EXCEPT ![c] = draft[c]]
    /\ draft' = Forgotten(draft, c)
    /\ Goto(c, "up")
    /\ UNCHANGED <<users, token, lock, rowKeys, snap, draws, mishaps, racers, setup>>

\* The server stores a configuration.
StoreRow(c) ==
    /\ pc[c] = "up"
    /\ rowKeys' = rowKeys \cup {key[c]}
    /\ UNCHANGED <<users, token, lock, keyFile, procs, draws, mishaps, racers, setup>>

\* The container is killed, stops, or a step of serve fails before it changes
\* a file.  The entrypoint's trap does not run.
Kill(c) ==
    /\ pc[c] # "down"
    /\ mishaps < MaxMishaps
    /\ mishaps' = mishaps + 1
    /\ Goto(c, "down")
    /\ draft' = Forgotten(draft, c)
    /\ snap' = Forgotten(snap, c)
    /\ key' = Forgotten(key, c)
    /\ UNCHANGED <<files, draws, racers, setup>>

\* The operator, told so by the timeout message, removes a lock nobody holds.
RemoveStaleLock ==
    /\ lock
    /\ \A c \in Containers : pc[c] \notin Locked
    /\ lock' = FALSE
    /\ UNCHANGED <<users, token, keyFile, rowKeys, procs, draws, mishaps, racers, setup>>

\* The operator has saved the token and deletes the file.
DeleteToken ==
    /\ token # Absent /\ users # Absent
    /\ token' = Absent
    /\ UNCHANGED <<users, lock, keyFile, rowKeys, procs, draws, mishaps, racers, setup>>
----------------------------------------------------------------------------
(***************************************************************************)
(* tabby-sync init, on a volume no container runs on.  It does not look at *)
(* token.txt, which a killed bootstrap may have left there.  A second init *)
(* skips the files of the first.                                           *)
(***************************************************************************)

InitKey ==
    /\ setup = "never"
    /\ \A c \in Containers : pc[c] = "down"
    /\ keyFile' = IF KeyMissing THEN Torn ELSE keyFile
    /\ setup' = IF KeyMissing THEN "key" ELSE "users"
    /\ UNCHANGED <<users, token, lock, rowKeys, procs, draws, mishaps, racers>>

InitKeyWritten ==
    /\ setup = "key"
    /\ draws' = Fresh
    /\ keyFile' = Fresh
    /\ setup' = "users"
    /\ UNCHANGED <<users, token, lock, rowKeys, procs, mishaps, racers>>

\* Mutant of UsersMissing: the skeleton is written over what is there.
UsersAlwaysMissing == TRUE

UsersMissing == users = Absent

InitUsers ==
    /\ setup = "users"
    /\ users' = IF UsersMissing THEN Torn ELSE users
    /\ setup' = IF UsersMissing THEN "skeleton" ELSE "ended"
    /\ UNCHANGED <<token, lock, keyFile, rowKeys, procs, draws, mishaps, racers>>

InitUsersWritten ==
    /\ setup = "skeleton"
    /\ users' = Skeleton
    /\ setup' = "ended"
    /\ UNCHANGED <<token, lock, keyFile, rowKeys, procs, draws, mishaps, racers>>

\* init is killed, or a write fails halfway.
InitKilled ==
    /\ setup \in {"key", "users", "skeleton"}
    /\ mishaps < MaxMishaps
    /\ mishaps' = mishaps + 1
    /\ setup' = "ended"
    /\ UNCHANGED <<files, procs, draws, racers>>

InitStep == InitKey \/ InitKeyWritten \/ InitUsers \/ InitUsersWritten
----------------------------------------------------------------------------
Init ==
    /\ users = Absent /\ token = Absent /\ lock = FALSE /\ keyFile = Absent
    /\ rowKeys = {}
    /\ pc = [c \in Containers |-> "down"]
    /\ draft = [c \in Containers |-> Absent]
    /\ snap = [c \in Containers |-> Absent]
    /\ key = [c \in Containers |-> Absent]
    /\ draws = Skeleton  \* tokens and keys are larger than Torn and Skeleton
    /\ mishaps = 0
    /\ racers = {}
    /\ setup = "never"

\* What a container does by itself.
Run(c) ==
    \/ Check(c) \/ Mkdir(c) \/ Recheck(c) \/ Unlock(c) \/ WaitSees(c) \/ WaitTimesOut(c)
    \/ Stat(c) \/ WriteToken(c) \/ WriteUsers(c)
    \/ LoadUsers(c) \/ ReadKey(c) \/ RenameKey(c)

Next ==
    \/ \E c \in Containers :
         Start(c) \/ Run(c) \/ BootstrapFails(c) \/ OpenFails(c) \/ StoreRow(c) \/ Kill(c)
    \/ RemoveStaleLock
    \/ DeleteToken
    \/ InitStep \/ InitKilled

Spec == Init /\ [][Next]_vars
----------------------------------------------------------------------------
TypeOK ==
    /\ users \in Nat \cup {Absent} /\ token \in Nat \cup {Absent}
    /\ keyFile \in Nat \cup {Absent}
    /\ lock \in BOOLEAN
    /\ rowKeys \subseteq Nat \ {Torn}
    /\ pc \in [Containers -> Steps]
    /\ draft \in [Containers -> Nat \cup {Absent}]
    /\ snap \in [Containers -> Nat \cup {Absent}]
    /\ key \in [Containers -> Nat \cup {Absent}]
    /\ draws \in Nat
    /\ mishaps \in 0..MaxMishaps
    /\ racers \subseteq Containers
    /\ setup \in {"never", "key", "users", "skeleton", "ended"}

\* The token an operator finds in token.txt opens every server on the volume that
\* opens to anybody, however many containers raced to create it and wherever they
\* were killed (the purpose of the lock directory in docker-entrypoint.sh).  The
\* servers that open to nobody are those on the users file of an init; beside it
\* there may be the token.txt of a bootstrap killed before it wrote its own.
TokenOpens ==
    \A c \in Containers :
        pc[c] = "up" /\ token # Absent /\ snap[c] # Skeleton => snap[c] = token

\* Once there are credentials, no start and no init replaces or removes them: a
\* client that was given a token keeps its access.
CredentialsKept == [][Usable(users) => users' = users]_vars

\* FileProvider.Load returns the key that is stored at its path: a server
\* encrypts with the key later servers will read.
KeyOnDisk == \A c \in Containers : pc[c] = "up" => key[c] = keyFile

\* Every stored configuration can be decrypted with the key on disk, after any
\* number of kills and restarts, unless two containers looked for the key before
\* either had saved one (FileProvider.Load: look, draw, rename).
RowsSurviveRestart == racers = {} => \A k \in rowKeys : k = keyFile
=============================================================================
