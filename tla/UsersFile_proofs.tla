-------------------------- MODULE UsersFile_proofs --------------------------
(***************************************************************************)
(* Proofs about UsersFile, for any number of operators, names and tokens.  *)
(***************************************************************************)
EXTENDS UsersFile, FiniteSetTheorems, WellFoundedInduction, TLAPS

\* A set of entries the commands may have written: it loads, and no entry has
\* an id or a token that is yet to be handed out.
Sound(entries, n) ==
    /\ entries \in SUBSET Entry
    /\ Valid(entries)
    /\ \A e \in entries : e.id <= n /\ e.token <= n

\* Every copy of the file is sound, the ones that are out of date included.
CopiesInv ==
    /\ Sound(file, drawn)
    /\ \A o \in Operators : cmd[o] # Nothing =>
         /\ Sound(cmd[o].read, drawn)
         /\ cmd[o].op = "add" => Find(cmd[o].read, cmd[o].name) = {}
    /\ snap # Nothing => Sound(snap, drawn)

\* Every token drawn was printed for somebody.
PersonInv == \A t \in Tokens : t <= drawn => person[t] \in Names

\* Without a save over a change not read, file and server hold the tokens reported.
TokensInv ==
    ~stale =>
      /\ {e.token : e \in file} = owed
      /\ snap # Nothing => {e.token : e \in snap} = due

\* Without a removal either, an entry a server loaded is in the file to stay,
\* with its id and its name; its token is its own person's, and so is every
\* configuration stored under its id.
PeopleInv ==
    ~stale /\ ~removed =>
      /\ \A e \in file : person[e.token] = e.name
      /\ snap # Nothing => \A e \in snap :
           /\ person[e.token] = e.name
           /\ \E f \in file : f.id = e.id /\ f.name = e.name
      /\ \A id \in 1..MaxTokens : \A p \in rows[id] :
           \E f \in file : f.id = id /\ f.name = p

\* The inductive invariant.
Inv == TypeOK /\ CopiesInv /\ PersonInv /\ TokensInv /\ PeopleInv
----------------------------------------------------------------------------
(***************************************************************************)
(* The id runUserAdd assigns.                                              *)
(***************************************************************************)

\* A nonempty set of naturals has a least element.
LEMMA LeastOf ==
    ASSUME NEW T \in SUBSET Nat, T # {}
    PROVE  \E m \in T : \A k \in T : m <= k
<1>1. PICK m \in T : \A k \in T : ~ (<<k, m>> \in OpToRel(<, Nat))
  BY NatLessThanWellFounded, WFMin, Zenon
<1>2. ASSUME NEW k \in T PROVE m <= k
  <2>1. k \in Nat /\ m \in Nat
    OBVIOUS
  <2>2. SUFFICES ASSUME k < m PROVE FALSE
    BY <2>1
  <2>3. <<k, m>> \in OpToRel(<, Nat)
    BY <2>1, <2>2 DEF OpToRel
  <2> QED BY <1>1, <2>3, Zenon
<1> QED BY <1>2

\* NextId is above every id of the file, and at most one above the ids so far.
LEMMA NextIdIsNew ==
    ASSUME NEW n \in 0..MaxTokens, NEW entries, Sound(entries, n)
    PROVE  /\ NextId(entries) \in 1..(n + 1)
           /\ \A e \in entries : e.id < NextId(entries)
<1> DEFINE T == {id \in 1..(MaxTokens + 1) : \A e \in entries : e.id < id}
           P(id) == /\ \A e \in entries : e.id < id
                    /\ id = 1 \/ \E e \in entries : e.id = id - 1
<1>1. \A e \in entries : e.id \in 1..MaxTokens /\ e.id <= n
  BY DEF Sound, Entry
<1>2. T \in SUBSET Nat /\ T # {}
  <2>1. MaxTokens + 1 \in T
    BY <1>1, UsersAssumption
  <2> QED BY <2>1, UsersAssumption
<1>3. PICK m \in T : \A k \in T : m <= k
  BY <1>2, LeastOf, Zenon
<1>4. m = 1 \/ \E e \in entries : e.id = m - 1
  <2>1. SUFFICES ASSUME m # 1 PROVE \E e \in entries : e.id = m - 1
    OBVIOUS
  <2>2. m - 1 \in 1..(MaxTokens + 1) /\ ~ (m <= m - 1)
    BY <1>3, <2>1, UsersAssumption
  <2>3. m - 1 \notin T
    BY <1>3, <2>2
  <2>4. PICK e \in entries : ~ (e.id < m - 1)
    BY <2>2, <2>3
  <2>5. e.id < m
    BY <1>3
  <2> QED BY <1>1, <2>2, <2>4, <2>5, UsersAssumption
<1>5. \E id \in 1..(MaxTokens + 1) : P(id)
  BY <1>3, <1>4
<1>6. NextId(entries) = CHOOSE id \in 1..(MaxTokens + 1) : P(id)
  BY DEF NextId
<1> HIDE DEF P
<1>7. NextId(entries) \in 1..(MaxTokens + 1) /\ P(NextId(entries))
  BY <1>5, <1>6, Zenon
<1> QED BY <1>1, <1>7, UsersAssumption DEF P
----------------------------------------------------------------------------
(***************************************************************************)
(* What a command makes of a sound copy.                                   *)
(***************************************************************************)

\* What is sound stays so when more tokens are drawn.
LEMMA SoundGrows ==
    ASSUME NEW n \in Int, NEW m \in Int, n <= m, NEW entries, Sound(entries, n)
    PROVE  Sound(entries, m)
BY DEF Sound, Entry, Tokens

\* An added user has an id, a name and a token nobody in the copy has.
LEMMA AddIsSound ==
    ASSUME NEW n \in 0..MaxTokens, n < MaxTokens, NEW entries, Sound(entries, n),
           NEW name \in Names, Find(entries, name) = {}
    PROVE  Sound(entries \cup
                 {[id |-> NextId(entries), name |-> name, token |-> n + 1]}, n + 1)
<1> DEFINE new == [id |-> NextId(entries), name |-> name, token |-> n + 1]
<1>1. /\ NextId(entries) \in 1..(n + 1)
      /\ \A e \in entries : e.id < NextId(entries)
  BY NextIdIsNew, Zenon
<1>2. new \in Entry /\ new.id <= n + 1 /\ new.token <= n + 1
  BY <1>1, UsersAssumption DEF Entry, Tokens
<1>3. \A e \in entries : /\ e \in Entry /\ e.id # new.id /\ e.name # new.name
                         /\ e.token # new.token /\ e.id <= n + 1 /\ e.token <= n + 1
  BY <1>1 DEF Sound, Find, Entry, Tokens
<1> HIDE DEF new
<1>4. Valid(entries \cup {new})
  BY <1>3, Zenon DEF Sound, Valid, UniqueUsers, UniqueTokens
<1>5. Sound(entries \cup {new}, n + 1)
  BY <1>2, <1>3, <1>4 DEF Sound
<1> QED BY <1>5 DEF new

\* A rotated token is one nobody in the copy has.
LEMMA RotateIsSound ==
    ASSUME NEW n \in 0..MaxTokens, n < MaxTokens, NEW entries, Sound(entries, n),
           NEW e \in entries
    PROVE  Sound((entries \ {e}) \cup {[e EXCEPT !.token = n + 1]}, n + 1)
<1> DEFINE new == [e EXCEPT !.token = n + 1]
<1>1. /\ new \in Entry /\ new.id = e.id /\ new.name = e.name /\ new.token = n + 1
      /\ new.id <= n + 1
  BY UsersAssumption DEF Sound, Entry, Tokens
<1>2. \A f \in entries \ {e} : /\ f \in Entry /\ f.id # new.id /\ f.name # new.name
                               /\ f.token # new.token /\ f.id <= n + 1 /\ f.token <= n + 1
  BY <1>1 DEF Sound, Entry, Tokens, Valid, UniqueUsers
<1> HIDE DEF new
<1>3. Valid((entries \ {e}) \cup {new})
  BY <1>2, Zenon DEF Sound, Valid, UniqueUsers, UniqueTokens
<1>4. Sound((entries \ {e}) \cup {new}, n + 1)
  BY <1>1, <1>2, <1>3 DEF Sound
<1> QED BY <1>4 DEF new

\* A removal leaves nobody who was not there.
LEMMA RmIsSound ==
    ASSUME NEW n, NEW entries, Sound(entries, n), NEW e \in entries
    PROVE  Sound(Without(entries, e), n)
BY Zenon DEF Sound, Without, Valid, UniqueUsers, UniqueTokens
----------------------------------------------------------------------------
(***************************************************************************)
(* The invariant.                                                          *)
(***************************************************************************)

\* The invariant holds of the empty file init leaves.
LEMMA InitInv == Init => Inv
<1> SUFFICES ASSUME Init PROVE Inv
  OBVIOUS
<1>1. TypeOK
  <2>1. drawn \in 0..MaxTokens
    BY UsersAssumption DEF Init
  <2>2. person \in [Tokens -> Names \cup {Nothing}] /\ rows \in [1..MaxTokens -> SUBSET Names]
    BY Zenon DEF Init
  <2>3. cmd \in [Operators -> Command \cup {Nothing}]
    BY DEF Init
  <2> QED BY <2>1, <2>2, <2>3, Zenon DEF Init, TypeOK
<1>2. CopiesInv /\ PersonInv
  BY DEF Init, CopiesInv, PersonInv, Sound, Valid, UniqueUsers, UniqueTokens, Tokens
<1>3. TokensInv /\ PeopleInv
  BY DEF Init, TokensInv, PeopleInv
<1> QED BY <1>1, <1>2, <1>3 DEF Inv

\* What a running command is.
LEMMA CommandTyped ==
    ASSUME Inv, NEW o \in Operators, cmd[o] # Nothing
    PROVE  /\ cmd[o] \in Command
           /\ cmd[o].name \in Names
           /\ Sound(cmd[o].read, drawn)
           /\ drawn \in 0..MaxTokens /\ MaxTokens \in Nat
BY UsersAssumption DEF Inv, TypeOK, CopiesInv, Command

\* A save of a copy no older than the file.
LEMMA FreshSave ==
    ASSUME NEW c, Saved(c), ~stale', stale \in BOOLEAN
    PROVE  ~stale /\ c.read = file
BY Zenon DEF Saved

\* CopiesInv and the types depend on few variables of a save.
LEMMA SaveKeepsCopies ==
    ASSUME Inv, NEW o \in Operators, cmd' = [cmd EXCEPT ![o] = Nothing],
           UNCHANGED snap, drawn' \in {drawn, drawn + 1}, Sound(file', drawn')
    PROVE  CopiesInv'
<1>1. drawn \in Int /\ drawn' \in Int /\ drawn <= drawn'
  BY DEF Inv, TypeOK
<1>2. \A entries : Sound(entries, drawn) => Sound(entries, drawn')
  BY <1>1, SoundGrows
<1>3. ASSUME NEW q \in Operators, cmd'[q] # Nothing
      PROVE  /\ Sound(cmd'[q].read, drawn')
             /\ cmd'[q].op = "add" => Find(cmd'[q].read, cmd'[q].name) = {}
  <2>1. cmd'[q] = cmd[q]
    BY <1>3 DEF Inv, TypeOK
  <2> QED BY <1>2, <1>3, <2>1 DEF Inv, CopiesInv
<1>4. snap' # Nothing => Sound(snap', drawn')
  BY <1>2 DEF Inv, CopiesInv
<1> QED BY <1>3, <1>4 DEF CopiesInv

\* runUserAdd keeps the invariant, whatever became of the file since it was read.
LEMMA AddInv == ASSUME Inv, NEW o \in Operators, Add(o) PROVE Inv'
<1> DEFINE c == cmd[o]
           new == [id |-> NextId(c.read), name |-> c.name, token |-> NewToken]
<1>1. /\ c \in Command /\ c.name \in Names /\ Sound(c.read, drawn)
      /\ drawn \in 0..MaxTokens /\ MaxTokens \in Nat
      /\ drawn < MaxTokens /\ drawn' = drawn + 1 /\ NewToken = drawn + 1
      /\ file' = c.read \cup {new}
  BY CommandTyped DEF Add, NewToken
<1>2. Find(c.read, c.name) = {}
  BY DEF Add, Inv, CopiesInv
<1>3. Sound(file', drawn')
  BY <1>1, <1>2, AddIsSound, Zenon
<1>4. TypeOK'
  <2>1. file' \in SUBSET Entry
    BY <1>3 DEF Sound
  <2>2. cmd' \in [Operators -> Command \cup {Nothing}]
    BY DEF Inv, TypeOK, Add
  <2>3. person' \in [Tokens -> Names \cup {Nothing}]
    BY <1>1, Zenon DEF Inv, TypeOK, Add
  <2>4. owed' \subseteq Tokens /\ drawn' \in 0..MaxTokens
    <3>1. NewToken \in Tokens /\ drawn' \in 0..MaxTokens
      BY <1>1 DEF Tokens
    <3> QED BY <3>1 DEF Inv, TypeOK, Add
  <2>5. stale' \in BOOLEAN
    BY Zenon DEF Add, Saved
  <2> QED BY <2>1, <2>2, <2>3, <2>4, <2>5 DEF Inv, TypeOK, Add
<1>5. CopiesInv'
  <2>1. cmd' = [cmd EXCEPT ![o] = Nothing] /\ UNCHANGED snap
    BY DEF Add
  <2> QED BY <1>1, <1>3, <2>1, SaveKeepsCopies, Zenon
<1>6. PersonInv'
  BY <1>1 DEF Inv, TypeOK, PersonInv, Add, Tokens
<1>7. TokensInv'
  <2>1. SUFFICES ASSUME ~stale'
                 PROVE  /\ {e.token : e \in file'} = owed'
                        /\ snap' # Nothing => {e.token : e \in snap'} = due'
    BY DEF TokensInv
  <2>2. ~stale /\ c.read = file
    BY <2>1, FreshSave DEF Add, Inv, TypeOK
  <2>3. owed = {e.token : e \in file} /\ owed' = owed \cup {NewToken}
    BY <2>2 DEF Add, Inv, TokensInv
  <2>4. {e.token : e \in file'} = owed'
    <3>1. new.token = NewToken /\ file' = file \cup {new}
      BY <1>1, <2>2
    <3> HIDE DEF new
    <3> QED BY <2>3, <3>1
  <2> QED BY <2>2, <2>4 DEF Add, Inv, TokensInv
<1>8. PeopleInv'
  <2>1. SUFFICES ASSUME ~stale', ~removed' PROVE PeopleInv'
    BY DEF PeopleInv
  <2>2. /\ ~stale /\ c.read = file /\ ~removed
        /\ UNCHANGED <<snap, rows>> /\ file \subseteq file'
    BY <1>1, <2>1, FreshSave DEF Add, Inv, TypeOK
  <2>3. /\ person'[drawn + 1] = c.name
        /\ \A t \in Tokens : t <= drawn => person'[t] = person[t]
    BY <1>1 DEF Add, Inv, TypeOK, Tokens
  <2>4. \A e \in file : e.token \in Tokens /\ e.token <= drawn
    BY DEF Inv, CopiesInv, Sound, Entry
  <2>5. snap # Nothing => \A e \in snap : e.token \in Tokens /\ e.token <= drawn
    BY DEF Inv, CopiesInv, Sound, Entry
  <2>6. new.token = drawn + 1 /\ new.name = c.name
    BY <1>1
  <2> HIDE DEF new, c
  <2>7. \A e \in file' : person'[e.token] = e.name
    BY <1>1, <2>2, <2>3, <2>4, <2>6 DEF Inv, PeopleInv
  <2>8. snap' # Nothing => \A e \in snap' :
           /\ person'[e.token] = e.name
           /\ \E f \in file' : f.id = e.id /\ f.name = e.name
    BY <2>2, <2>3, <2>5 DEF Inv, PeopleInv
  <2>9. \A id \in 1..MaxTokens : \A p \in rows'[id] :
           \E f \in file' : f.id = id /\ f.name = p
    BY <2>2 DEF Inv, PeopleInv
  <2> QED BY <2>7, <2>8, <2>9 DEF PeopleInv
<1> QED BY <1>4, <1>5, <1>6, <1>7, <1>8 DEF Inv

\* runUserRotate keeps it.
LEMMA RotateInv == ASSUME Inv, NEW o \in Operators, Rotate(o) PROVE Inv'
<1> DEFINE c == cmd[o]
<1>1. /\ c \in Command /\ c.name \in Names /\ Sound(c.read, drawn)
      /\ drawn \in 0..MaxTokens /\ MaxTokens \in Nat
      /\ drawn < MaxTokens /\ drawn' = drawn + 1 /\ NewToken = drawn + 1
  BY CommandTyped DEF Rotate, NewToken
<1>2. PICK e \in Find(c.read, c.name) :
        /\ file' = (c.read \ {e}) \cup {[e EXCEPT !.token = NewToken]}
        /\ owed' = (owed \ {e.token}) \cup {NewToken}
  BY DEF Rotate
<1> DEFINE new == [e EXCEPT !.token = NewToken]
<1>3. e \in c.read /\ e.name = c.name /\ e \in Entry /\ c.read \subseteq Entry
  BY <1>1, <1>2 DEF Find, Sound
<1>4. /\ Sound(file', drawn') /\ file' = (c.read \ {e}) \cup {new}
      /\ new.id = e.id /\ new.name = e.name /\ new.token = NewToken
  BY <1>1, <1>2, <1>3, RotateIsSound DEF Entry
<1> HIDE DEF new
<1>5. TypeOK'
  <2>1. file' \in SUBSET Entry
    BY <1>4 DEF Sound
  <2>2. cmd' \in [Operators -> Command \cup {Nothing}]
    BY DEF Inv, TypeOK, Rotate
  <2>3. person' \in [Tokens -> Names \cup {Nothing}]
    BY <1>1, Zenon DEF Inv, TypeOK, Rotate
  <2>4. owed' \subseteq Tokens /\ drawn' \in 0..MaxTokens
    <3>1. NewToken \in Tokens /\ drawn' \in 0..MaxTokens
      BY <1>1 DEF Tokens
    <3> QED BY <1>2, <3>1 DEF Inv, TypeOK
  <2>5. stale' \in BOOLEAN
    BY Zenon DEF Rotate, Saved
  <2> QED BY <2>1, <2>2, <2>3, <2>4, <2>5 DEF Inv, TypeOK, Rotate
<1>6. CopiesInv'
  <2>1. cmd' = [cmd EXCEPT ![o] = Nothing] /\ UNCHANGED snap
    BY DEF Rotate
  <2> QED BY <1>1, <1>4, <2>1, SaveKeepsCopies, Zenon
<1>7. PersonInv'
  BY <1>1 DEF Inv, TypeOK, PersonInv, Rotate, Tokens
<1>8. TokensInv'
  <2>1. SUFFICES ASSUME ~stale'
                 PROVE  /\ {f.token : f \in file'} = owed'
                        /\ snap' # Nothing => {f.token : f \in snap'} = due'
    BY DEF TokensInv
  <2>2. ~stale /\ c.read = file
    BY <2>1, FreshSave DEF Rotate, Inv, TypeOK
  <2>3. owed = {f.token : f \in file}
    BY <2>2 DEF Inv, TokensInv
  <2>4. \A f \in file \ {e} : f.token # e.token
    BY <1>1, <1>3, <2>2 DEF Sound, Valid, UniqueTokens
  <2>5. {f.token : f \in file'} = owed'
    BY <1>2, <1>3, <1>4, <2>2, <2>3, <2>4
  <2> QED BY <2>2, <2>5 DEF Rotate, Inv, TokensInv
<1>9. PeopleInv'
  <2>1. SUFFICES ASSUME ~stale', ~removed' PROVE PeopleInv'
    BY DEF PeopleInv
  <2>2. ~stale /\ c.read = file /\ ~removed /\ UNCHANGED <<snap, rows>>
    BY <2>1, FreshSave DEF Rotate, Inv, TypeOK
  <2>3. /\ person'[drawn + 1] = c.name
        /\ \A t \in Tokens : t <= drawn => person'[t] = person[t]
    BY <1>1 DEF Rotate, Inv, TypeOK, Tokens
  <2>4. \A f \in file : f.token \in Tokens /\ f.token <= drawn
    BY DEF Inv, CopiesInv, Sound, Entry
  <2>5. snap # Nothing => \A f \in snap : f.token \in Tokens /\ f.token <= drawn
    BY DEF Inv, CopiesInv, Sound, Entry
  <2>6. \A f \in file : \E g \in file' : g.id = f.id /\ g.name = f.name
    BY <1>3, <1>4, <2>2
  <2> HIDE DEF c
  <2>7. \A f \in file' : person'[f.token] = f.name
    BY <1>1, <1>3, <1>4, <2>2, <2>3, <2>4 DEF Inv, PeopleInv
  <2>8. snap' # Nothing => \A f \in snap' :
           /\ person'[f.token] = f.name
           /\ \E g \in file' : g.id = f.id /\ g.name = f.name
    <3>1. SUFFICES ASSUME snap # Nothing, NEW f \in snap
                   PROVE  /\ person'[f.token] = f.name
                          /\ \E g \in file' : g.id = f.id /\ g.name = f.name
      BY <2>2
    <3>2. person'[f.token] = f.name
      BY <2>2, <2>3, <2>5, <3>1 DEF Inv, PeopleInv
    <3>3. PICK h \in file : h.id = f.id /\ h.name = f.name
      BY <2>2, <3>1 DEF Inv, PeopleInv
    <3> QED BY <2>6, <3>2, <3>3
  <2>9. \A id \in 1..MaxTokens : \A p \in rows'[id] :
           \E f \in file' : f.id = id /\ f.name = p
    <3>1. SUFFICES ASSUME NEW id \in 1..MaxTokens, NEW p \in rows[id]
                   PROVE  \E f \in file' : f.id = id /\ f.name = p
      BY <2>2
    <3>2. PICK h \in file : h.id = id /\ h.name = p
      BY <2>2 DEF Inv, PeopleInv
    <3> QED BY <2>6, <3>2
  <2> QED BY <2>7, <2>8, <2>9 DEF PeopleInv
<1> QED BY <1>5, <1>6, <1>7, <1>8, <1>9 DEF Inv

\* runUserRm keeps it.
LEMMA RmInv == ASSUME Inv, NEW o \in Operators, Rm(o) PROVE Inv'
<1> DEFINE c == cmd[o]
<1>1. Sound(c.read, drawn)
  BY CommandTyped DEF Rm
<1>2. PICK e \in Find(c.read, c.name) :
        file' = Without(c.read, e) /\ owed' = owed \ {e.token}
  BY DEF Rm
<1>3. e \in c.read /\ Sound(file', drawn')
  BY <1>1, <1>2, RmIsSound DEF Find, Rm
<1>4. TypeOK'
  <2>1. file' \in SUBSET Entry
    BY <1>3 DEF Sound
  <2>2. cmd' \in [Operators -> Command \cup {Nothing}] /\ owed' \subseteq Tokens
    BY <1>2 DEF Inv, TypeOK, Rm
  <2>3. stale' \in BOOLEAN
    BY Zenon DEF Rm, Saved
  <2> QED BY <2>1, <2>2, <2>3 DEF Inv, TypeOK, Rm
<1>5. CopiesInv'
  <2>1. cmd' = [cmd EXCEPT ![o] = Nothing] /\ UNCHANGED <<snap, drawn>>
    BY DEF Rm
  <2> QED BY <1>3, <2>1, SaveKeepsCopies, Zenon
<1>6. PersonInv'
  BY DEF Inv, PersonInv, Rm
<1>7. TokensInv'
  <2>1. SUFFICES ASSUME ~stale'
                 PROVE  /\ {f.token : f \in file'} = owed'
                        /\ snap' # Nothing => {f.token : f \in snap'} = due'
    BY DEF TokensInv
  <2>2. ~stale /\ c.read = file
    BY <2>1, FreshSave DEF Rm, Inv, TypeOK
  <2>3. owed = {f.token : f \in file} /\ \A f \in file \ {e} : f.token # e.token
    BY <1>1, <1>3, <2>2 DEF Inv, TokensInv, Sound, Valid, UniqueTokens
  <2>4. {f.token : f \in file'} = owed'
    BY <1>2, <1>3, <2>2, <2>3 DEF Without
  <2> QED BY <2>2, <2>4 DEF Rm, Inv, TokensInv
<1>8. PeopleInv'
  BY DEF Rm, PeopleInv
<1> QED BY <1>4, <1>5, <1>6, <1>7, <1>8 DEF Inv

\* So does the beginning of a command, which copies the file,
LEMMA LoadInv ==
    ASSUME Inv, NEW o \in Operators, NEW op \in Commands, NEW name \in Names, Load(o, op, name)
    PROVE  Inv'
<1> DEFINE c == [op |-> op, name |-> name, read |-> file]
<1>1. cmd' = [cmd EXCEPT ![o] = c] /\ c \in Command
  BY DEF Load, Inv, TypeOK, Command
<1>2. TypeOK'
  BY <1>1 DEF Load, Inv, TypeOK
<1>3. CopiesInv'
  <2>1. ASSUME NEW q \in Operators, cmd'[q] # Nothing
        PROVE  /\ Sound(cmd'[q].read, drawn)
               /\ cmd'[q].op = "add" => Find(cmd'[q].read, cmd'[q].name) = {}
    <3>1. CASE q = o
      BY <1>1, <3>1 DEF Load, Inv, TypeOK, CopiesInv
    <3>2. CASE q # o
      BY <1>1, <2>1, <3>2 DEF Inv, TypeOK, CopiesInv
    <3> QED BY <3>1, <3>2
  <2> QED BY <2>1 DEF Load, Inv, CopiesInv
<1>4. PersonInv' /\ TokensInv' /\ PeopleInv'
  BY DEF Load, Inv, PersonInv, TokensInv, PeopleInv
<1> QED BY <1>2, <1>3, <1>4 DEF Inv

\* a command that does not save,
LEMMA GiveUpInv == ASSUME Inv, NEW o \in Operators, GiveUp(o) PROVE Inv'
<1>1. TypeOK'
  BY DEF GiveUp, Inv, TypeOK
<1>2. CopiesInv'
  BY SaveKeepsCopies DEF GiveUp, Inv, CopiesInv
<1>3. PersonInv' /\ TokensInv' /\ PeopleInv'
  BY DEF GiveUp, Inv, PersonInv, TokensInv, PeopleInv
<1> QED BY <1>1, <1>2, <1>3 DEF Inv

\* the start and the stop of the server,
LEMMA ServerInv == ASSUME Inv, StartServer \/ StopServer PROVE Inv'
<1>1. CASE StartServer
  <2>1. TypeOK' /\ CopiesInv' /\ PersonInv'
    BY <1>1 DEF StartServer, Inv, TypeOK, CopiesInv, PersonInv
  <2>2. TokensInv'
    BY <1>1 DEF StartServer, Inv, TokensInv
  <2>3. PeopleInv'
    BY <1>1 DEF StartServer, Inv, PeopleInv
  <2> QED BY <2>1, <2>2, <2>3 DEF Inv
<1>2. CASE StopServer
  <2>1. TypeOK' /\ CopiesInv' /\ PersonInv'
    BY <1>2 DEF StopServer, Inv, TypeOK, CopiesInv, PersonInv
  <2>2. TokensInv' /\ PeopleInv'
    BY <1>2 DEF StopServer, Inv, TokensInv, PeopleInv
  <2> QED BY <2>1, <2>2 DEF Inv
<1> QED BY <1>1, <1>2

\* and a request, which stores its row under the id of its own person.
LEMMA RequestInv == ASSUME Inv, NEW token \in Tokens, Request(token) PROVE Inv'
<1>1. PICK e \in Lookup(token) : rows' = [rows EXCEPT ![e.id] = @ \cup {person[token]}]
  BY Zenon DEF Request
<1>2. /\ snap # Nothing /\ e \in snap /\ e.token = token
      /\ e.id \in 1..MaxTokens /\ person[token] \in Names
  BY <1>1 DEF Request, Lookup, Inv, CopiesInv, Sound, Entry, PersonInv
<1>3. /\ rows' \in [1..MaxTokens -> SUBSET Names]
      /\ \A id \in 1..MaxTokens : \A p \in rows'[id] :
           p \in rows[id] \/ (id = e.id /\ p = person[token])
  BY <1>1, <1>2 DEF Inv, TypeOK
<1>4. TypeOK'
  BY <1>3 DEF Request, Inv, TypeOK
<1>5. CopiesInv' /\ PersonInv' /\ TokensInv'
  BY DEF Request, Inv, CopiesInv, PersonInv, TokensInv
<1>6. PeopleInv'
  <2>1. SUFFICES ASSUME ~stale, ~removed PROVE PeopleInv'
    BY DEF Request, PeopleInv
  <2>2. ASSUME NEW id \in 1..MaxTokens, NEW p \in rows'[id]
        PROVE  \E f \in file : f.id = id /\ f.name = p
    <3>1. CASE p \in rows[id]
      BY <2>1, <3>1 DEF Inv, PeopleInv
    <3>2. CASE id = e.id /\ p = person[token]
      BY <1>2, <2>1, <3>2 DEF Inv, PeopleInv
    <3> QED BY <1>3, <3>1, <3>2
  <2> QED BY <2>1, <2>2 DEF Request, Inv, PeopleInv
<1> QED BY <1>4, <1>5, <1>6 DEF Inv

\* Every step keeps the invariant.
LEMMA StepInv == Inv /\ [Next]_vars => Inv'
<1> SUFFICES ASSUME Inv, [Next]_vars PROVE Inv'
  OBVIOUS
<1>1. CASE UNCHANGED vars
  <2>1. TypeOK' /\ CopiesInv'
    BY <1>1 DEF vars, Inv, TypeOK, CopiesInv
  <2>2. PersonInv' /\ TokensInv' /\ PeopleInv'
    BY <1>1 DEF vars, Inv, PersonInv, TokensInv, PeopleInv
  <2> QED BY <2>1, <2>2 DEF Inv
<1>2. CASE Next
  BY <1>2, LoadInv, AddInv, RotateInv, RmInv, GiveUpInv, ServerInv, RequestInv DEF Next
<1> QED BY <1>1, <1>2

\* The invariant holds of every reachable state.
LEMMA InvHolds == Spec => []Inv
<1> QED BY InitInv, StepInv, PTL DEF Spec
----------------------------------------------------------------------------
(***************************************************************************)
(* What follows.                                                           *)
(***************************************************************************)

\* Type correctness of the file, the commands' copies and the server's snapshot.
THEOREM UsersTyped == Spec => []TypeOK
<1>1. Inv => TypeOK
  BY DEF Inv
<1> QED BY <1>1, InvHolds, PTL

\* Every file the commands leave loads: no two entries share an id, a name or a
\* token, however many commands overlap and lose their changes.
THEOREM FileAlwaysLoads == Spec => []FileLoads
<1>1. Inv => FileLoads
  BY DEF Inv, CopiesInv, Sound, FileLoads
<1> QED BY <1>1, InvHolds, PTL

\* Without a save over a change not read, a server opens to exactly the tokens
\* reported before its start.
THEOREM ServerOpensAsReported == Spec => []TokensAsReported
<1>1. Inv => TokensAsReported
  BY DEF Inv, TokensInv, TokensAsReported
<1> QED BY <1>1, InvHolds, PTL

\* Without one, a save never gives the id of one user to another.
THEOREM IdsAlwaysStay == Spec => IdsStay
<1> DEFINE Stay == ~stale' => \A e \in file, f \in file' : e.id = f.id => e.name = f.name
<1>1. ASSUME Inv, [Next]_vars PROVE [Stay]_vars
  <2>1. SUFFICES ASSUME Next, ~stale', NEW e \in file, NEW f \in file', e.id = f.id
                 PROVE  e.name = f.name
    BY <1>1
  <2>2. /\ \A g \in file : g.id = e.id => g.name = e.name
        /\ \A g \in file : g.id \in Int
    BY <1>1 DEF Inv, CopiesInv, Sound, Valid, UniqueUsers, Entry
  <2>3. CASE file' = file
    BY <2>1, <2>2, <2>3
  <2>4. ASSUME NEW o \in Operators, Add(o) PROVE e.name = f.name
    <3>1. ~stale /\ cmd[o].read = file
      BY <1>1, <2>1, <2>4, FreshSave DEF Add, Inv, TypeOK
    <3>2. Sound(file, drawn) /\ drawn \in 0..MaxTokens
      BY <1>1 DEF Inv, CopiesInv, TypeOK
    <3>3. NextId(file) \in Int /\ e.id < NextId(file)
      BY <3>2, NextIdIsNew
    <3>4. f \in file \/ f.id = NextId(file)
      BY <2>4, <3>1 DEF Add
    <3> QED BY <2>1, <2>2, <3>3, <3>4
  <2>5. ASSUME NEW o \in Operators, Rotate(o) PROVE e.name = f.name
    <3>1. ~stale /\ cmd[o].read = file
      BY <1>1, <2>1, <2>5, FreshSave DEF Rotate, Inv, TypeOK
    <3>2. PICK g \in file : file' = (file \ {g}) \cup {[g EXCEPT !.token = NewToken]}
      BY <2>5, <3>1 DEF Rotate, Find
    <3>3. /\ [g EXCEPT !.token = NewToken].id = g.id
          /\ [g EXCEPT !.token = NewToken].name = g.name
      BY <1>1 DEF Inv, TypeOK, Entry
    <3> QED BY <2>1, <2>2, <3>2, <3>3, Zenon
  <2>6. ASSUME NEW o \in Operators, Rm(o) PROVE e.name = f.name
    <3>1. cmd[o].read = file
      BY <1>1, <2>1, <2>6, FreshSave DEF Rm, Inv, TypeOK
    <3>2. f \in file
      BY <2>6, <3>1 DEF Rm, Without
    <3> QED BY <2>1, <2>2, <3>2
  <2> QED BY <2>1, <2>3, <2>4, <2>5, <2>6
          DEF Next, Load, GiveUp, StartServer, StopServer, Request
<1> HIDE DEF Stay
<1>2. Spec => [][Stay]_vars
  BY <1>1, InvHolds, PTL DEF Spec
<1> QED BY <1>2 DEF Stay, IdsStay

\* Without one and without a removal, the configurations under a user id are one
\* person's.
THEOREM RowsAlwaysApart == Spec => []RowsStayApart
<1>1. ASSUME Inv, ~stale, ~removed, NEW id \in 1..MaxTokens PROVE Cardinality(rows[id]) <= 1
  <2>1. \A p, q \in rows[id] : p = q
    <3>1. SUFFICES ASSUME NEW p \in rows[id], NEW q \in rows[id] PROVE p = q
      OBVIOUS
    <3>2. PICK e \in file : e.id = id /\ e.name = p
      BY <1>1 DEF Inv, PeopleInv
    <3>3. PICK f \in file : f.id = id /\ f.name = q
      BY <1>1 DEF Inv, PeopleInv
    <3> QED BY <1>1, <3>2, <3>3 DEF Inv, CopiesInv, Sound, Valid, UniqueUsers
  <2>2. CASE rows[id] = {}
    BY <2>2, FS_EmptySet
  <2>3. CASE rows[id] # {}
    <3>1. PICK p : rows[id] = {p}
      BY <2>1, <2>3, Zenon
    <3>2. Cardinality({p}) = 1
      BY FS_Singleton, Zenon
    <3> QED BY <3>1, <3>2
  <2> QED BY <2>2, <2>3
<1>2. Inv => RowsStayApart
  BY <1>1 DEF RowsStayApart, RowsOfOnePerson
<1> QED BY <1>2, InvHolds, PTL
=============================================================================
