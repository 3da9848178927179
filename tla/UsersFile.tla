------------------------------ MODULE UsersFile ------------------------------
(***************************************************************************)
(* The users of a deployment: users.yml, the `user` commands that read it, *)
(* change their copy and rename it back, and the server, which             *)
(* authenticates against the copy it read when it started.                 *)
(*                                                                         *)
(* A command is two steps: it reads and checks the file, and it replaces   *)
(* the file.  Between the two a `user rm` waits for its confirmation.      *)
(* Tokens are numbers, drawn afresh; an entry holds the token in place of  *)
(* its hash.  `disabled`, which only people editing the file set, is left  *)
(* out.                                                                    *)
(***************************************************************************)
EXTENDS Integers, FiniteSets

CONSTANTS
    Operators,  \* people running commands
    Names,      \* user names
    Commands,   \* subset of {"add", "rm", "rotate"}
    MaxTokens,  \* bound: tokens drawn
    Nothing     \* no command, no server

ASSUME UsersAssumption ==
    /\ Commands \subseteq {"add", "rm", "rotate"}
    /\ MaxTokens \in Nat

Tokens == 1..MaxTokens
Entry == [id : 1..MaxTokens, name : Names, token : Tokens]
Command == [op : Commands, name : Names, read : SUBSET Entry]

VARIABLES
    file,    \* the entries of users.yml
    cmd,     \* operator -> the command it runs
    drawn,   \* tokens drawn so far
    person,  \* token -> who it was printed for
    owed,    \* tokens that, by what commands reported, open the server
    snap,    \* the server: the entries it loaded
    due,     \* owed, when the server loaded them
    rows,    \* user id -> the people whose configurations are stored under it
    stale,   \* a command has saved over a change it had not read
    removed  \* a user has been removed

vars == <<file, cmd, drawn, person, owed, snap, due, rows, stale, removed>>
----------------------------------------------------------------------------
(***************************************************************************)
(* The user commands.                                                      *)
(***************************************************************************)

\* findUser.  A target is a name here; an id finds the same entry.
Find(entries, name) == {e \in entries : e.name = name}

\* loadUsersYAML and the checks: add wants a new name, rm and rotate a known one.
Load(o, op, name) ==
    /\ cmd[o] = Nothing
    /\ op = "add" <=> Find(file, name) = {}
    /\ cmd' = [cmd EXCEPT ![o] = [op |-> op, name |-> name, read |-> file]]
    /\ UNCHANGED <<file, drawn, person, owed, snap, due, rows, stale, removed>>

\* Mutant of NextId: one more than the number of users.
NextIdByCount(entries) == Cardinality(entries) + 1

\* One more than the largest id in the file.
NextId(entries) ==
    CHOOSE id \in 1..(MaxTokens + 1) :
        /\ \A e \in entries : e.id < id
        /\ id = 1 \/ \E e \in entries : e.id = id - 1

NewToken == drawn + 1

\* Records whether the copy that is saved was out of date.
Saved(c) == stale' = (stale \/ c.read # file)

\* saveUsersYAML replaces the whole file; the token is printed.
Add(o) ==
    LET c == cmd[o]
        new == [id |-> NextId(c.read), name |-> c.name, token |-> NewToken]
    IN  /\ c # Nothing /\ c.op = "add"
        /\ drawn < MaxTokens
        /\ drawn' = NewToken
        /\ file' = c.read \cup {new}
        /\ person' = [person EXCEPT ![NewToken] = c.name]
        /\ owed' = owed \cup {NewToken}
        /\ cmd' = [cmd EXCEPT ![o] = Nothing]
        /\ Saved(c)
        /\ UNCHANGED <<snap, due, rows, removed>>

Rotate(o) ==
    LET c == cmd[o]
    IN  /\ c # Nothing /\ c.op = "rotate"
        /\ drawn < MaxTokens
        /\ drawn' = NewToken
        /\ \E e \in Find(c.read, c.name) :
             /\ file' = (c.read \ {e}) \cup {[e EXCEPT !.token = NewToken]}
             /\ owed' = (owed \ {e.token}) \cup {NewToken}
        /\ person' = [person EXCEPT ![NewToken] = c.name]
        /\ cmd' = [cmd EXCEPT ![o] = Nothing]
        /\ Saved(c)
        /\ UNCHANGED <<snap, due, rows, removed>>

\* Mutant of Without: the entry stays.
WithNone(entries, e) == entries

Without(entries, e) == entries \ {e}

Rm(o) ==
    LET c == cmd[o]
    IN  /\ c # Nothing /\ c.op = "rm"
        /\ \E e \in Find(c.read, c.name) :
             /\ file' = Without(c.read, e)
             /\ owed' = owed \ {e.token}
        /\ cmd' = [cmd EXCEPT ![o] = Nothing]
        /\ Saved(c)
        /\ removed' = TRUE
        /\ UNCHANGED <<drawn, person, snap, due, rows>>

\* The save fails, or the confirmation is declined.
GiveUp(o) ==
    /\ cmd[o] # Nothing
    /\ cmd' = [cmd EXCEPT ![o] = Nothing]
    /\ UNCHANGED <<file, drawn, person, owed, snap, due, rows, stale, removed>>
----------------------------------------------------------------------------
(***************************************************************************)
(* The server.                                                             *)
(***************************************************************************)

\* validateAndNormalise refuses a file in which two entries share an id or a
\* name, ...
UniqueUsers(entries) ==
    \A e, f \in entries : e # f => e.id # f.id /\ e.name # f.name

\* ... and newUserSnapshot panics if two share a token.
UniqueTokens(entries) == \A e, f \in entries : e # f => e.token # f.token

Valid(entries) == UniqueUsers(entries) /\ UniqueTokens(entries)

\* LoadUsersFile at the start of the server.
StartServer ==
    /\ snap = Nothing
    /\ Valid(file)
    /\ snap' = file
    /\ due' = owed
    /\ UNCHANGED <<file, cmd, drawn, person, owed, rows, stale, removed>>

StopServer ==
    /\ snap # Nothing
    /\ snap' = Nothing
    /\ due' = {}
    /\ UNCHANGED <<file, cmd, drawn, person, owed, rows, stale, removed>>

\* Mutant of Lookup: any entry will do.
LookupAny(token) == snap

\* Lookup: the entry of the token.
Lookup(token) == {e \in snap : e.token = token}

\* Bearer lets a request through; it stores a configuration under the user's id.
Request(token) ==
    /\ snap # Nothing
    /\ \E e \in Lookup(token) : rows' = [rows EXCEPT ![e.id] = @ \cup {person[token]}]
    /\ UNCHANGED <<file, cmd, drawn, person, owed, snap, due, stale, removed>>
----------------------------------------------------------------------------
\* init has left a file without users.
Init ==
    /\ file = {}
    /\ cmd = [o \in Operators |-> Nothing]
    /\ drawn = 0
    /\ person = [t \in Tokens |-> Nothing]
    /\ owed = {}
    /\ snap = Nothing
    /\ due = {}
    /\ rows = [id \in 1..MaxTokens |-> {}]
    /\ stale = FALSE
    /\ removed = FALSE

Next ==
    \/ \E o \in Operators :
         \/ \E op \in Commands, name \in Names : Load(o, op, name)
         \/ Add(o) \/ Rotate(o) \/ Rm(o) \/ GiveUp(o)
    \/ StartServer \/ StopServer
    \/ \E token \in Tokens : Request(token)

Spec == Init /\ [][Next]_vars
----------------------------------------------------------------------------
TypeOK ==
    /\ file \in SUBSET Entry
    /\ cmd \in [Operators -> Command \cup {Nothing}]
    /\ drawn \in 0..MaxTokens
    /\ person \in [Tokens -> Names \cup {Nothing}]
    /\ owed \subseteq Tokens /\ due \subseteq Tokens
    /\ snap = Nothing \/ snap \in SUBSET Entry
    /\ rows \in [1..MaxTokens -> SUBSET Names]
    /\ stale \in BOOLEAN /\ removed \in BOOLEAN

\* The server can always be started: however commands overlap and whichever of
\* them loses its change, the file they leave has no duplicate id, name or token
\* (runUserAdd, validateAndNormalise, newUserSnapshot).
FileLoads == Valid(file)

\* As long as no command saves over a change it has not read, a server opens to
\* exactly the tokens that the commands finished before its start have printed
\* and not replaced or removed since: no new user is missing and no old token is
\* accepted (runUserAdd, runUserRm, runUserRotate).
TokensAsReported == snap # Nothing /\ ~stale => {e.token : e \in snap} = due

\* Nor does a save give the id of one user to another (the id runUserAdd assigns).
IdsStay ==
    [][~stale' => \A e \in file, f \in file' : e.id = f.id => e.name = f.name]_vars

\* The configurations stored under a user id are one person's.
RowsOfOnePerson == \A id \in 1..MaxTokens : Cardinality(rows[id]) <= 1

\* It takes a removal, or a save over a change not read, to mix the
\* configurations of two people: adding users, rotating tokens and restarting
\* the server in any order does not.
RowsStayApart == ~stale /\ ~removed => RowsOfOnePerson
=============================================================================
