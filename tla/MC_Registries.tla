---------------------------- MODULE MC_Registries ----------------------------
(* Registries on five sets of inputs, in one run: what is paid for a token *)
(* and given back; labels; modules and whom they act for; mints; the       *)
(* factory.                                                                *)
(* The values are the same in all of them, so that the properties are.     *)
(* scene never changes and says which set of inputs it is.                 *)
EXTENDS Registries

CONSTANTS admin, u, w, r1, r2, n1, n2, a, b, x, y

VARIABLE scene

sceneVars == <<vars, scene>>

MCIds == 1..2
Entry(to, label, id) == [to |-> to, label |-> label, id |-> id]
Parameters(transfers, labels, coin, fee, burnTo, burnFee) ==
    [transfers |-> transfers, labels |-> labels, coin |-> coin, fee |-> fee,
     burnTo |-> burnTo, burnFee |-> burnFee]

\* Stakes in two coins, of a fee that the share does not divide and one whose share the
\* registry burns to itself; a share that is refused. A registry is sent coins.
MCEntries == {Entry(u, Empty, 1), Entry(u, Empty, 2)}
MCParams == {Parameters(TRUE, FALSE, x, 3, admin, 5000), Parameters(TRUE, FALSE, y, 2, r1, 5000),
             Parameters(FALSE, FALSE, y, 1, admin, 10001)}
MCAllowances == {<<u, x, r1, 3>>, <<u, y, r1, 2>>}
MCGifts == {<<w, x, r1, 3>>}

Labeling == INSTANCE Registries WITH
    Entries <- {Entry(to, l, id) : to \in {admin, u}, l \in {Empty, a, b}, id \in MCIds},
    Params <- {Parameters(TRUE, TRUE, x, 1, admin, 0), Parameters(FALSE, FALSE, x, 1, None, 10000)},
    Allowances <- {<<u, x, r1, 1>>},
    Gifts <- {}

Delegating == INSTANCE Registries WITH
    Entries <- {Entry(u, a, 1), Entry(admin, Empty, 2)},
    Params <- {Parameters(TRUE, FALSE, x, 2, admin, 0)},
    Allowances <- {<<w, x, "buy", 2>>},
    Gifts <- {},
    Grantees <- {"bulk", "buy"},
    Operators <- {<<u, w>>, <<u, "bulk">>},
    Uses <- {"parameters", "modules"}

Minting == INSTANCE Registries WITH
    Entries <- {Entry(u, a, 1), Entry(w, b, 1)},
    Params <- {Parameters(FALSE, TRUE, x, 1, admin, 0)},
    Allowances <- {},
    Gifts <- {},
    Grantees <- {"batch", "lazy", "merkle"},
    Batches <- {<<Entry(u, a, 1), Entry(admin, Empty, 2)>>, <<Entry(u, a, 1), Entry(w, a, 2)>>},
    Uses <- {"parameters", "mints"}

Making == INSTANCE Registries WITH
    Entries <- {Entry(u, a, 1)},
    Params <- {Parameters(TRUE, FALSE, x, 1, admin, 0), Parameters(TRUE, FALSE, x, 0, r2, 0)},
    Allowances <- {<<u, x, "factory", 1>>},
    Gifts <- {},
    Uses <- {"factory", "primary"}

SceneInit == scene \in {"stakes", "labels", "modules", "mints", "factory"} /\ Init
SceneNext ==
    /\ \/ scene = "stakes" /\ Next
       \/ scene = "labels" /\ Labeling!Next
       \/ scene = "modules" /\ Delegating!Next
       \/ scene = "mints" /\ Minting!Next
       \/ scene = "factory" /\ Making!Next
    /\ UNCHANGED scene

\* Two states that differ in who sent the last transaction are one.
NotCaller == <<nfr, factory, balance, allowance, signed, scene>>

SceneSpec == SceneInit /\ [][SceneNext]_sceneVars
=============================================================================
