--------------------------- MODULE RegistryClient ---------------------------
(***************************************************************************)
(* RegistryRepository, the core's client of the registries, with the       *)
(* contract objects of the governance SDK that it uses.                    *)
(*                                                                         *)
(* All operations share the field nonFungibleRegistryContract (and the     *)
(* field tokenERC20Contract): they put a new object in it, and use what is *)
(* in it after an await. Every call sets the address that the object is at *)
(* to the one it is given; a write asks for the price of gas between that  *)
(* and the transaction.                                                    *)
(*                                                                         *)
(* A method of the repository is the sequence of what it does between two  *)
(* awaits; an action is one such piece of an operation in progress. Reads  *)
(* go out in the piece that sets the address, so that of an object made    *)
(* for reading only it matters that it cannot sign.                        *)
(***************************************************************************)
EXTENDS Integers, Sequences

CONSTANTS
    Ops,          \* operations that the program asks for: a bound
    Registries,
    ModulesNfr,   \* the registry that lists the modules
    Hypertoken,   \* the coin that the factory is paid in
    CoinOf,       \* the registration token of each registry, None if there is none
    Methods,      \* the methods that are called: a bound
    Signatures,   \* lazy minting signatures
    None

ASSUME ClientAssumption ==
    /\ ModulesNfr \in Registries /\ DOMAIN CoinOf = Registries
    /\ None \notin Registries \cup Ops \cup {Hypertoken} /\ Signatures # {}

VARIABLES
    field,       \* nonFungibleRegistryContract: the operation that made the object
                 \* for writing, None if it was made for reading
    at,          \* where the object that an operation made for writing is
    coin,        \* tokenERC20Contract: its coin
    op,          \* the operations
    sent,        \* the transactions that were mined, and by which operation
    store,       \* the DID data store: signatures, with tokenClaimed
    overlapped   \* operations that were not alone (history)

vars == <<field, at, coin, op, sent, store, overlapped>>

Coins == {Hypertoken, None} \cup {CoinOf[r] : r \in Registries}
Entry == [signature : Signatures, claimed : BOOLEAN]

TypeOK ==
    /\ field \in Ops \cup {None} /\ at \in [Ops -> Registries] /\ coin \in Coins
    /\ \A o \in Ops :
           /\ op[o].registry \in Registries /\ op[o].signature \in Signatures
           /\ op[o].this \in Ops \cup {None} /\ op[o].pays \in Coins
           /\ op[o].copy \subseteq Entry
           /\ op[o].answer \in {"none", "done", "error", "thrown"}
           /\ op[o].left # <<>> => op[o].answer = "none"
    /\ store \subseteq Entry /\ overlapped \subseteq Ops

\* this is the object in whose method the operation is; pays the coin that it is
\* about to approve; copy what it read from the store.
Idle == [method |-> None, registry |-> ModulesNfr,
         signature |-> CHOOSE s \in Signatures : TRUE, run |-> <<>>,
         left |-> <<>>, this |-> None, pays |-> None, copy |-> {}, answer |-> "none"]

\* Signatures are in the store already: see SubmitLazyMintSignature.
Init ==
    /\ field = None
    /\ at = [o \in Ops |-> ModulesNfr]
    /\ coin = Hypertoken
    /\ op = [o \in Ops |-> Idle]
    /\ sent = {}
    /\ store = [signature : Signatures, claimed : {FALSE}]
    /\ overlapped = {}

-----------------------------------------------------------------------------
(* The methods.                                                            *)
(*   read        makes an object for reading and calls it                  *)
(*   list, call  calls the object that is in the field now, for an entry   *)
(*               of the registry of modules, or of the operation's own     *)
(*   write       makes an object for writing, with an ERC20 object in      *)
(*               create, and calls it                                      *)
(*   again       calls the object in whose method it is once more          *)
(*   send        the transaction, to where the object is now               *)
(*   hypertoken  makes an ERC20 object of the hypertoken and calls it      *)
(*   approve     calls the ERC20 object that is in the field now           *)
(*   pay         the transaction that approves                             *)
(*   batch, make, mint   a transaction through an object of its own        *)
(*   load, claim, drop   the store of signatures                           *)

GetRegistryModules == <<"read", "list", "list">>

GetRegistryByName == GetRegistryModules \o <<"read">>
GetRegistryByAddress == GetRegistryModules \o <<"read">>
GetRegistries == GetRegistryModules \o <<"read">>
GetRegistryEntriesTotalCount == <<"read">>
GetRegistryEntries == <<"read", "call", "call">>
GetRegistryEntryByOwnerAddress == <<"read">>
GetRegistryEntryDetailByTokenId == <<"read">>
GetRegistryEntryListByOwnerAddress == <<"read", "call", "call">>

UpdateRegistryEntryTokenURI == GetRegistryByName \o <<"write", "send", "call">>
UpdateRegistryEntryLabel == GetRegistryByName \o <<"write", "send", "call">>
TransferRegistryEntry == GetRegistryByName \o <<"write", "call", "send", "call">>
BurnRegistryEntry == GetRegistryByName \o <<"write", "send">>
UpdateRegistryParams == GetRegistryByName \o <<"write", "send">> \o GetRegistryByName

\* (mutant) the ERC20 object of an earlier operation is used
CreateRegistryEntryOldCoin(r) ==
    GetRegistryByName \o
    (IF CoinOf[r] = None THEN <<"create", "send">>
     ELSE <<"write", "approve", "pay", "call", "send">>)

\* If there is a registration token, its fee is read and approved first.
CreateRegistryEntry(r) ==
    GetRegistryByName \o
    (IF CoinOf[r] = None THEN <<"create", "send">>
     ELSE <<"create", "approve", "pay", "call", "send">>)

\* The admin of the factory does not pay.
CreateRegistryByToken == {<<"make">>, <<"hypertoken", "pay", "make">>}

\* The SDK asks for REGISTRAR_ROLE between the price of gas and the transaction.
GrantRegistrarRole == GetRegistryByName \o <<"write", "again", "send">>
RevokeRegistrarRole == GetRegistryByName \o <<"write", "again", "send">>
RenounceRegistrarRole == GetRegistryByName \o <<"write", "again", "send">>

CreateBatchRegistryEntry == GetRegistryModules \o GetRegistryByName \o <<"batch">>

\* The hash is made with a chain id that is still a promise, which throws: nothing
\* is signed or stored, and the caller gets an exception and no result.
SubmitLazyMintSignature == GetRegistryByName \o <<"throw">>

\* (mutant) the signature is marked before the token is minted
ExecuteLazyMintEarly == GetRegistryModules \o <<"load", "load", "claim", "mint">>

ExecuteLazyMint == GetRegistryModules \o <<"load", "mint", "load", "claim">>

RevokeLazyMintSignature == <<"load", "drop">>

\* What a method may do for registry r.
Runs(r) == [
    getRegistryByName |-> {GetRegistryByName},
    getRegistryByAddress |-> {GetRegistryByAddress},
    getRegistries |-> {GetRegistries},
    getRegistryEntriesTotalCount |-> {GetRegistryEntriesTotalCount},
    getRegistryEntries |-> {GetRegistryEntries},
    getRegistryEntryByOwnerAddress |-> {GetRegistryEntryByOwnerAddress},
    getRegistryEntryDetailByTokenId |-> {GetRegistryEntryDetailByTokenId},
    getRegistryEntryListByOwnerAddress |-> {GetRegistryEntryListByOwnerAddress},
    updateRegistryEntryTokenURI |-> {UpdateRegistryEntryTokenURI},
    updateRegistryEntryLabel |-> {UpdateRegistryEntryLabel},
    transferRegistryEntry |-> {TransferRegistryEntry},
    burnRegistryEntry |-> {BurnRegistryEntry},
    updateRegistryParams |-> {UpdateRegistryParams},
    createRegistryEntry |-> {CreateRegistryEntry(r)},
    createRegistryByToken |-> CreateRegistryByToken,
    grantRegistrarRole |-> {GrantRegistrarRole},
    revokeRegistrarRole |-> {RevokeRegistrarRole},
    renounceRegistrarRole |-> {RenounceRegistrarRole},
    createBatchRegistryEntry |-> {CreateBatchRegistryEntry},
    submitLazyMintSignature |-> {SubmitLazyMintSignature},
    executeLazyMint |-> {ExecuteLazyMint},
    revokeLazyMintSignature |-> {RevokeLazyMintSignature}]

ASSUME MethodsAssumption ==
    None \notin Methods /\ \A r \in Registries : Methods \subseteq DOMAIN Runs(r)

Transactions == {"send", "pay", "batch", "make", "mint"}

-----------------------------------------------------------------------------
(* The pieces. *)

InProgress == {o \in Ops : op[o].left # <<>>}

Start(o, m, r, s) ==
    /\ op[o].method = None
    /\ \E run \in Runs(r)[m] :
           op' = [op EXCEPT ![o] = [Idle EXCEPT
               !.method = m, !.registry = r, !.signature = s, !.run = run, !.left = run]]
    /\ overlapped' =
           IF InProgress = {} THEN overlapped ELSE overlapped \cup InProgress \cup {o}
    /\ UNCHANGED <<field, at, coin, sent, store>>

AtPiece(o, kind) == op[o].left # <<>> /\ Head(op[o].left) = kind

\* What is left after this piece, and the answer if nothing is.
Done(o) ==
    [op[o] EXCEPT !.left = Tail(@), !.answer = IF Len(op[o].left) = 1 THEN "done" ELSE @]
Proceed(o) == op' = [op EXCEPT ![o] = Done(o)]
In(o, object) == op' = [op EXCEPT ![o] = [Done(o) EXCEPT !.this = object]]

\* (mutant) the error is reported, but the rest of the method runs
FailGoesOn(o) ==
    /\ op[o].left # <<>>
    /\ op' = [op EXCEPT ![o].answer = "error"]
    /\ UNCHANGED <<field, at, coin, sent, store, overlapped>>

Fail(o) ==
    /\ op[o].left # <<>>
    /\ op' = [op EXCEPT ![o].left = <<>>, ![o].answer = "error"]
    /\ UNCHANGED <<field, at, coin, sent, store, overlapped>>

MakeForReading(o) ==
    /\ AtPiece(o, "read")
    /\ field' = None /\ In(o, None)
    /\ UNCHANGED <<at, coin, sent, store, overlapped>>

\* reinitializeContract
Moved(object, r) == IF object = None THEN at ELSE [at EXCEPT ![object] = r]

CallField(o) ==
    \E kind \in {"list", "call"} :
        /\ AtPiece(o, kind)
        /\ at' = Moved(field, IF kind = "list" THEN ModulesNfr ELSE op[o].registry)
        /\ In(o, field)
        /\ UNCHANGED <<field, coin, sent, store, overlapped>>

MakeForWriting(o) ==
    \E kind \in {"write", "create"} :
        /\ AtPiece(o, kind)
        /\ field' = o /\ at' = Moved(o, op[o].registry) /\ In(o, o)
        /\ coin' = IF kind = "create" THEN CoinOf[op[o].registry] ELSE coin
        /\ UNCHANGED <<sent, store, overlapped>>

\* The address is the operation's, or that which its object was made with.
CallAgain(o) ==
    /\ AtPiece(o, "again")
    /\ at' = Moved(op[o].this, op[o].registry)
    /\ Proceed(o)
    /\ UNCHANGED <<field, coin, sent, store, overlapped>>

\* (mutant) without a signer nothing is sent, and nobody told
SendOrNot(o) ==
    LET object == op[o].this IN
    /\ AtPiece(o, "send")
    /\ sent' = IF object = None THEN sent
               ELSE sent \cup {[by |-> o, kind |-> "send", to |-> at[object]]}
    /\ Proceed(o)
    /\ UNCHANGED <<field, at, coin, store, overlapped>>

\* An object made for reading has no signer: the call fails.
Send(o) ==
    LET object == op[o].this IN
    /\ AtPiece(o, "send") /\ object # None
    /\ sent' = sent \cup {[by |-> o, kind |-> "send", to |-> at[object]]}
    /\ Proceed(o)
    /\ UNCHANGED <<field, at, coin, store, overlapped>>

UseHypertoken(o) ==
    /\ AtPiece(o, "hypertoken")
    /\ coin' = Hypertoken
    /\ op' = [op EXCEPT ![o] = [Done(o) EXCEPT !.pays = Hypertoken]]
    /\ UNCHANGED <<field, at, sent, store, overlapped>>

Approve(o) ==
    /\ AtPiece(o, "approve")
    /\ op' = [op EXCEPT ![o] = [Done(o) EXCEPT !.pays = coin]]
    /\ UNCHANGED <<field, at, coin, sent, store, overlapped>>

Pay(o) ==
    /\ AtPiece(o, "pay") /\ op[o].pays # None
    /\ sent' = sent \cup {[by |-> o, kind |-> "pay", to |-> op[o].pays]}
    /\ Proceed(o)
    /\ UNCHANGED <<field, at, coin, store, overlapped>>

SendOfItsOwn(o) ==
    \E kind \in {"batch", "make"} :
        /\ AtPiece(o, kind)
        /\ sent' = sent \cup {[by |-> o, kind |-> kind, to |-> op[o].registry]}
        /\ Proceed(o)
        /\ UNCHANGED <<field, at, coin, store, overlapped>>

Minted == {op[t.by].signature : t \in {x \in sent : x.kind = "mint"}}

\* The registry mints a token once.
LazyRegister(o) ==
    /\ AtPiece(o, "mint") /\ op[o].signature \notin Minted
    /\ sent' = sent \cup {[by |-> o, kind |-> "mint", to |-> op[o].registry]}
    /\ Proceed(o)
    /\ UNCHANGED <<field, at, coin, store, overlapped>>

\* getLazyMintingSignatures; what executeLazyMint is given must be there.
Load(o) ==
    /\ AtPiece(o, "load")
    /\ "mint" \in {op[o].left[k] : k \in DOMAIN op[o].left} =>
           \E e \in store : e.signature = op[o].signature
    /\ op' = [op EXCEPT ![o] = [Done(o) EXCEPT !.copy = store]]
    /\ UNCHANGED <<field, at, coin, sent, store, overlapped>>

\* updateLazyMintingSignatureTokenClaimed
Claim(o) ==
    LET mine(e) == e.signature = op[o].signature IN
    /\ AtPiece(o, "claim")
    /\ store' = {[e EXCEPT !.claimed = @ \/ mine(e)] : e \in op[o].copy}
    /\ Proceed(o)
    /\ UNCHANGED <<field, at, coin, sent, overlapped>>

Drop(o) ==
    /\ AtPiece(o, "drop")
    /\ store' = {e \in op[o].copy : e.signature # op[o].signature}
    /\ Proceed(o)
    /\ UNCHANGED <<field, at, coin, sent, overlapped>>

Throw(o) ==
    /\ AtPiece(o, "throw")
    /\ op' = [op EXCEPT ![o].left = <<>>, ![o].answer = "thrown"]
    /\ UNCHANGED <<field, at, coin, sent, store, overlapped>>

Piece(o) ==
    \/ MakeForReading(o) \/ CallField(o) \/ MakeForWriting(o) \/ CallAgain(o)
    \/ Send(o) \/ UseHypertoken(o) \/ Approve(o) \/ Pay(o) \/ SendOfItsOwn(o)
    \/ LazyRegister(o) \/ Load(o) \/ Claim(o) \/ Drop(o) \/ Throw(o)

Next ==
    \E o \in Ops :
        \/ \E m \in Methods, r \in Registries, s \in Signatures : Start(o, m, r, s)
        \/ Piece(o) \/ Fail(o)

Spec == Init /\ [][Next]_vars

-----------------------------------------------------------------------------
(* Properties. *)

Target(t) == IF t.kind = "pay"
             THEN IF op[t.by].method = "createRegistryByToken" THEN Hypertoken
                  ELSE CoinOf[op[t.by].registry]
             ELSE op[t.by].registry

\* The objects that earlier operations left behind mislead no later one: as long
\* as an operation is alone, it writes to its registry and approves its coin,
\* whatever ran, failed or was given up before.
AloneHitsItsTarget == \A t \in sent : t.by \in overlapped \/ t.to = Target(t)

\* An operation that reports success has sent each of its transactions, though the
\* object it uses may have been replaced by one that cannot sign.
DoneIsWritten ==
    \A o \in Ops : op[o].answer = "done" =>
        {t.kind : t \in {x \in sent : x.by = o}}
            = {op[o].run[k] : k \in DOMAIN op[o].run} \cap Transactions

\* A signature marked as claimed has been used to mint, whatever stale copies of
\* the store are written back.
ClaimedIsMinted == \A e \in store : e.claimed => e.signature \in Minted

\* Every write goes to the registry that the operation is for ("Call the NFI
\* contract of that address"). It does not: see the README.
WritesItsRegistry == \A t \in sent : t.kind = "send" => t.to = Target(t)

=============================================================================
