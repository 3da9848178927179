--------------------------- MODULE ConfigContract ---------------------------
(***************************************************************************)
(* What the configuration store promises its clients, with no transactions,*)
(* no encryption and no handlers: every step creates, changes, touches or  *)
(* deletes one configuration.  modified_at is the sync clock of a          *)
(* configuration: it moves forward whenever its name or content is         *)
(* written, and stays when only last_used_with_version is.  Ids are handed *)
(* out in increasing order and never again.                                *)
(***************************************************************************)
EXTENDS Integers

CONSTANTS Users, Names, Contents, Versions, MaxId, NoConfig

Ids == 1..MaxId

VARIABLES
    configs,  \* id -> the configuration, or NoConfig
    lastId    \* the largest id handed out

vars == <<configs, lastId>>

Config == [user : Users, name : Names, content : Contents, luwv : Versions,
           modified : Nat]

Init ==
    /\ configs = [id \in Ids |-> NoConfig]
    /\ lastId = 0

\* No configuration but this one changes.
Only(id) == configs' = [configs EXCEPT ![id] = configs'[id]]

\* A new configuration is named, empty, and takes the next id.
Create(id) ==
    /\ id = lastId + 1
    /\ lastId' = id
    /\ configs'[id] \in Config
    /\ configs'[id].name # ""
    /\ configs'[id].content = ""
    /\ configs'[id].luwv = ""

\* A write moves modified_at forward; the owner never changes.
Write(id) ==
    /\ configs[id] # NoConfig
    /\ configs'[id] \in Config
    /\ configs'[id].user = configs[id].user
    /\ configs'[id].modified > configs[id].modified
    /\ UNCHANGED lastId

\* last_used_with_version is metadata: nothing else moves with it.
Touch(id) ==
    /\ configs[id] # NoConfig
    /\ \E v \in Versions : configs'[id] = [configs[id] EXCEPT !.luwv = v]
    /\ UNCHANGED lastId

Delete(id) ==
    /\ configs[id] # NoConfig
    /\ configs'[id] = NoConfig
    /\ UNCHANGED lastId

Next ==
    \E id \in Ids :
        /\ Only(id)
        /\ Create(id) \/ Write(id) \/ Touch(id) \/ Delete(id)

Spec == Init /\ [][Next]_vars
=============================================================================
