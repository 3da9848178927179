--------------------------- MODULE MCConfigService ---------------------------
(***************************************************************************)
(* Small instances of ConfigService for TLC.                               *)
(***************************************************************************)
EXTENDS ConfigService, TLC

CONSTANTS s1, s2, s3, p1, p2, u1, u2

OneProc == [s \in Slots |-> p1]

\* Two requests wait for one connection, and with it for the other process.
TwoAndOne == s1 :> p1 @@ s2 :> p1 @@ s3 :> p2
SlotSymmetry == Permutations({s1, s2})

NamesAB == {"", "A", "B"}
ContentsXY == {"", "X", "Y"}
ContentsXBig == {"", "X", "big"}
VersionsV == {"", "v"}

Msg(op, user, id, name, content, luwv) ==
    [op |-> op, user |-> user, id |-> id, name |-> name, content |-> content,
     luwv |-> luwv]

New(user, name) == Msg("create", user, 0, name, Nil, Nil)
Patch(user, id, name, content, luwv) == Msg("patch", user, id, name, content, luwv)
Fetch(user, id) == Msg("get", user, id, Nil, Nil, Nil)
ListAll(user) == Msg("list", user, 0, Nil, Nil, Nil)
Remove(user, id) == Msg("delete", user, id, Nil, Nil, Nil)

\* Concurrent edits of one user's row: real changes, repeats, touches.
EditWorkload ==
    {New(u1, "A"), Remove(u1, 1)}
    \cup {Patch(u1, 1, "B", "Y", Nil), Patch(u1, 1, "A", "X", Nil),
          Patch(u1, 1, "A", Nil, "v"), Patch(u1, 1, Nil, Nil, "v")}

\* Two users, each addressing the other's rows too; malformed requests.
FleetWorkload ==
    {New(u1, "A"), New(u2, "A"), New(u1, ""), ListAll(u2), Fetch(u2, 1),
     Remove(u2, 1), Remove(u1, 1), Patch(u1, 1, "A", "X", Nil),
     Patch(u2, 1, Nil, "big", Nil),
     Patch(u1, 1, Nil, Nil, Nil), Fetch(u1, 0)}

CreateWorkload == {New(u1, "A"), Remove(u1, 1)}

\* Two full uploads of one row.
UploadWorkload ==
    {New(u1, "A"), Patch(u1, 1, "A", "X", Nil), Patch(u1, 1, "B", "Y", Nil)}

\* A create and an upload around a shutdown.
ShutdownWorkload ==
    {New(u1, "A"), Patch(u1, 1, Nil, "X", Nil), Patch(u1, 1, Nil, Nil, "v"),
     ListAll(u1)}
=============================================================================
