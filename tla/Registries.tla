----------------------------- MODULE Registries -----------------------------
(***************************************************************************)
(* The contracts of Hypernet's registries: NonFungibleRegistry (the plain  *)
(* and the enumerable one differ in views only), the factory that makes    *)
(* registries under unique names, and the modules that act on a registry   *)
(* with the registrar role: batch, bulk transfer, buy, lazy mint, merkle.  *)
(*                                                                         *)
(* One action is one transaction, which either does all it should or is    *)
(* reverted and changes nothing, so that only what succeeds is a step. The *)
(* functions that say what a call of a registry requires and does are over *)
(* the state s of all registries: a module calls several in one step.      *)
(***************************************************************************)
EXTENDS Integers, FiniteSetsExt

CONSTANTS
    Registries,   \* addresses at which the factory makes registries
    Users,        \* accounts of people
    Admin,        \* the user with DEFAULT_ADMIN_ROLE
    First,        \* the registry the factory's constructor makes
    Names,        \* names of registries
    FirstName,
    Ids,          \* token ids other than 0
    Labels,       \* labels other than the empty one
    Coins,        \* ERC20 tokens
    Supply,       \* how much of each coin a user has at first
    Fee,          \* the registration fee of a new registry and, at first, of the factory
    Entries,      \* what may be registered: to whom, label and id
    Allowances,   \* a user, a coin, a spender and the amount he may allow it
    Gifts,        \* a user, a coin, and whom he may send how much of it
    Params,       \* what setRegistryParameters and the factory's setters are called with
    Grantees,     \* accounts that may get the registrar role
    Operators,    \* pairs of a user and an operator he may approve
    Uses,         \* which of the contracts are used: a bound
    Batches,      \* pairs of entries that may be registered at once
    Empty,        \* the empty label
    None          \* no token, registry, owner, payee: the 0 of Solidity

Modules == {"batch", "bulk", "buy", "lazy", "merkle"}
Spenders == Registries \cup {"buy", "factory"}
Holders == Users \cup Registries     \* of coins
Registrations == [to : Users, label : Labels \cup {Empty}, id : Ids]
NoStake == [coin |-> None, amount |-> 0]
BasisPoints == 10000

ASSUME RegistriesAssumption ==
    /\ Admin \in Users /\ First \in Registries /\ FirstName \in Names
    /\ Empty \notin Labels /\ None \notin Registries \cup Users \cup Ids \cup Coins
    /\ Users \cap Registries = {} /\ IsFiniteSet(Ids)
ASSUME AmountsAssumption ==
    /\ Supply \in Nat /\ Fee \in Nat
    /\ Allowances \subseteq Users \X Coins \X Spenders \X Nat
    /\ Gifts \subseteq Users \X Coins \X Holders \X Nat
ASSUME ChoicesAssumption ==
    /\ Grantees \subseteq Users \cup Modules
    /\ Operators \subseteq Users \X (Users \cup Modules)
    /\ Uses \subseteq {"parameters", "primary", "modules", "mints", "factory"}
    /\ Entries \subseteq Registrations
    /\ Batches \subseteq Entries \X Entries
    /\ Params \subseteq [transfers : BOOLEAN, labels : BOOLEAN,
           coin : Coins \cup {None}, fee : Nat, burnTo : Holders \cup {None},
           burnFee : Nat]

VARIABLES
    nfr,      \* the registries: see Registry
    factory,  \* names: nameToAddress; profiles: hypernetProfileRegistry;
              \* coin, fee and burnTo of createRegistryByToken
    balance,  \* of each coin
    allowance,
    signed,   \* entries signed by a registrar, with the signer: off chain
    caller    \* who sent the last transaction (history)

vars == <<nfr, factory, balance, allowance, signed, caller>>

Registry == [
    made : BOOLEAN,
    name : Names \cup {None},
    owner : [Ids -> Users \cup {None}],
    label : [Ids -> Labels \cup {Empty}],                 \* reverseRegistryMap
    idOf : [Labels \cup {Empty} -> Ids \cup {None}],      \* registryMap
    stake : [Ids -> [coin : Coins \cup {None}, amount : Nat]],
    approved : [Ids -> Users \cup Modules \cup {None}],
    operators : SUBSET (Users \X (Users \cup Modules)),
    registrars : SUBSET (Users \cup Modules),
    roleAdmin : Users \cup Modules,                       \* REGISTRAR_ROLE_ADMIN
    primary : Registries \cup {None},
    root : SUBSET Registrations,                            \* merkleRoot
    frozen : BOOLEAN,
    transfers : BOOLEAN, labels : BOOLEAN, coin : Coins \cup {None},
    fee : Nat, burnTo : Holders \cup {None}, burnFee : 0..BasisPoints]

TypeOK ==
    /\ nfr \in [Registries -> Registry]
    /\ factory \in [names : [Names -> Registries \cup {None}],
                    profiles : Registries \cup {None}, coin : Coins \cup {None},
                    fee : Nat, burnTo : Holders \cup {None}]
    /\ balance \in [Coins -> [Holders -> Nat]]
    /\ allowance \in [Coins -> [Users -> [Spenders -> Nat]]]
    /\ signed \subseteq Users \X Registrations
    /\ caller \in Users

\* initialize, for the registry that the factory makes under a name.
New(name, registrar, primary) == [
    made |-> TRUE, name |-> name,
    owner |-> [i \in Ids |-> None],
    label |-> [i \in Ids |-> Empty],
    idOf |-> [l \in Labels \cup {Empty} |-> None],
    stake |-> [i \in Ids |-> NoStake],
    approved |-> [i \in Ids |-> None],
    operators |-> {}, registrars |-> {registrar}, roleAdmin |-> registrar, primary |-> primary,
    root |-> {}, frozen |-> FALSE,
    transfers |-> TRUE, labels |-> FALSE, coin |-> None,
    fee |-> Fee, burnTo |-> Admin, burnFee |-> 500]

Init ==
    /\ nfr = [r \in Registries |->
           IF r = First THEN New(FirstName, Admin, None)
           ELSE [New(None, Admin, None) EXCEPT !.made = FALSE]]
    /\ factory = [names |-> [n \in Names |-> IF n = FirstName THEN First ELSE None],
                  profiles |-> First,
                  coin |-> IF Coins = {} THEN None ELSE CHOOSE x \in Coins : TRUE,
                  fee |-> Fee, burnTo |-> Admin]
    /\ balance = [x \in Coins |-> [h \in Holders |-> IF h \in Users THEN Supply ELSE 0]]
    /\ allowance = [x \in Coins |-> [u \in Users |-> [s \in Spenders |-> 0]]]
    /\ signed = {}
    /\ caller = Admin

-----------------------------------------------------------------------------
(* What the calls of a registry require and do. *)

Registrar(s, r, c) == c \in s[r].registrars

\* isApprovedForAll: the registrar is approved for everything.
ApprovedForAll(s, r, u, c) == Registrar(s, r, c) \/ <<u, c>> \in s[r].operators

\* _isApprovedOrOwner, of a token that exists.
MayAct(s, r, c, id) ==
    LET holder == s[r].owner[id]
    IN  holder # None /\ (c = holder \/ c = s[r].approved[id] \/ ApprovedForAll(s, r, holder, c))

\* _transfersAllowed, which minting and burning ask as well.
TransfersAllowed(s, r, c) == s[r].transfers \/ Registrar(s, r, c)

MappingExists(s, r, l) == s[r].idOf[l] # None

Holds(s, r, u) == \E id \in Ids : s[r].owner[id] = u

PreRegistered(s, r, u) == s[r].primary # None => Holds(s, s[r].primary, u)

\* _createLabeledToken and _createToken.
CanCreate(s, r, c, e) ==
    /\ e.label # Empty => ~MappingExists(s, r, e.label)
    /\ PreRegistered(s, r, e.to)
    /\ s[r].owner[e.id] = None
    /\ TransfersAllowed(s, r, c)

Minted(s, r, u, id) == [s EXCEPT ![r].owner[id] = u]

Labeled(s, r, id, l) == [s EXCEPT ![r].idOf[l] = id, ![r].label[id] = l]

Created(s, r, e) ==
    LET token == Minted(s, r, e.to, e.id)
    IN  IF e.label = Empty THEN token ELSE Labeled(token, r, e.id, e.label)

Staked(s, r, id, coin, n) == [s EXCEPT ![r].stake[id] = [coin |-> coin, amount |-> n]]

CanTransfer(s, r, c, from, to, id) ==
    /\ MayAct(s, r, c, id) /\ s[r].owner[id] = from
    /\ PreRegistered(s, r, to)
    /\ TransfersAllowed(s, r, c)

Transferred(s, r, to, id) ==
    [s EXCEPT ![r].owner[id] = to, ![r].approved[id] = None]

TransferredAll(s, r, to, ids) ==
    [s EXCEPT ![r].owner = [id \in Ids |-> IF id \in ids THEN to ELSE @[id]],
              ![r].approved = [id \in Ids |-> IF id \in ids THEN None ELSE @[id]]]

CanBurn(s, r, c, id) == MayAct(s, r, c, id) /\ TransfersAllowed(s, r, c)

\* (mutant) the label of a burned token stays taken
BurnedButLabel(s, r, id) ==
    [Transferred(s, r, None, id) EXCEPT ![r].label[id] = Empty, ![r].stake[id] = NoStake]

\* (mutant) the stake is given back and stays with the id
BurnedButStake(s, r, id) ==
    [Transferred(s, r, None, id) EXCEPT
        ![r].label[id] = Empty, ![r].idOf[s[r].label[id]] = None]

\* _burn: a token without a label takes the mapping of the empty label with it.
\* The stake is given back, if it is not 0.
Burned(s, r, id) ==
    LET stake == s[r].stake[id] IN
    [Transferred(s, r, None, id) EXCEPT
        ![r].label[id] = Empty,
        ![r].idOf[s[r].label[id]] = None,
        ![r].stake[id] = IF stake.amount = 0 THEN stake ELSE NoStake]

\* updateLabel: the old label is given up, unless it is the empty one.
Relabeled(s, r, id, l) ==
    LET old == s[r].label[id]
        freed == IF old = Empty THEN s ELSE [s EXCEPT ![r].idOf[old] = None]
    IN  Labeled(freed, r, id, l)

-----------------------------------------------------------------------------
(* Coins. *)

Moved(b, x, from, to, n) ==
    LET paid == [b EXCEPT ![x][from] = @ - n]
    IN  [paid EXCEPT ![x][to] = @ + n]

\* transferFrom of a coin that spender calls.
CanPull(x, from, spender, n) ==
    /\ x # None
    /\ balance[x][from] >= n /\ allowance[x][from][spender] >= n
Pulled(x, from, spender, n) == [allowance EXCEPT ![x][from][spender] = @ - n]

BurnAmount(n) == (n.fee * n.burnFee) \div BasisPoints

-----------------------------------------------------------------------------
(* A registry's own calls. *)

Register(c, r, e) ==
    /\ Registrar(nfr, r, c) /\ CanCreate(nfr, r, c, e)
    /\ nfr' = Created(nfr, r, e)
    /\ UNCHANGED <<factory, balance, allowance, signed>>

\* (mutant) the whole fee is recorded as the stake
RegisterByTokenForAll(c, r, e) ==
    LET n == nfr[r] IN
    /\ CanPull(n.coin, c, r, n.fee) /\ n.burnTo # None
    /\ ~MappingExists(nfr, r, e.label) /\ CanCreate(nfr, r, c, e)
    /\ balance' = Moved(Moved(balance, n.coin, c, r, n.fee),
                        n.coin, r, n.burnTo, BurnAmount(n))
    /\ allowance' = Pulled(n.coin, c, r, n.fee)
    /\ nfr' = Staked(Created(nfr, r, e), r, e.id, n.coin, n.fee)
    /\ UNCHANGED <<factory, signed>>

\* The fee goes to the registry, a part of it on to burnAddress, which may be any
\* address but 0, also that of the registry; the rest is the stake of the token, in
\* the coin it was paid in. The empty label must be free.
RegisterByToken(c, r, e) ==
    LET n == nfr[r] IN
    /\ CanPull(n.coin, c, r, n.fee) /\ n.burnTo # None
    /\ ~MappingExists(nfr, r, e.label) /\ CanCreate(nfr, r, c, e)
    /\ balance' = Moved(Moved(balance, n.coin, c, r, n.fee),
                        n.coin, r, n.burnTo, BurnAmount(n))
    /\ allowance' = Pulled(n.coin, c, r, n.fee)
    /\ nfr' = Staked(Created(nfr, r, e), r, e.id, n.coin, n.fee - BurnAmount(n))
    /\ UNCHANGED <<factory, signed>>

UpdateLabel(c, r, id, l) ==
    /\ nfr[r].labels \/ Registrar(nfr, r, c)
    /\ MayAct(nfr, r, c, id)
    /\ ~MappingExists(nfr, r, l)
    /\ nfr' = Relabeled(nfr, r, id, l)
    /\ UNCHANGED <<factory, balance, allowance, signed>>

\* transferFrom and safeTransferFrom.
TransferFrom(c, r, to, id) ==
    /\ CanTransfer(nfr, r, c, nfr[r].owner[id], to, id)
    /\ nfr' = Transferred(nfr, r, to, id)
    /\ UNCHANGED <<factory, balance, allowance, signed>>

\* Whoever burns the token gets its stake.
Burn(c, r, id) ==
    LET stake == nfr[r].stake[id] IN
    /\ CanBurn(nfr, r, c, id)
    /\ nfr' = Burned(nfr, r, id)
    /\ balance' = IF stake.amount = 0 THEN balance
                  ELSE Moved(balance, stake.coin, r, c, stake.amount)
    /\ UNCHANGED <<factory, allowance, signed>>

\* (mutant) any share may be burned
SetAnyParameters(c, r, p) ==
    /\ Registrar(nfr, r, c)
    /\ nfr' = [nfr EXCEPT
           ![r].transfers = p.transfers, ![r].labels = p.labels, ![r].coin = p.coin,
           ![r].fee = p.fee, ![r].burnTo = p.burnTo, ![r].burnFee = p.burnFee]
    /\ UNCHANGED <<factory, balance, allowance, signed>>

SetRegistryParameters(c, r, p) ==
    /\ Registrar(nfr, r, c) /\ p.burnFee <= BasisPoints
    /\ nfr' = [nfr EXCEPT
           ![r].transfers = p.transfers, ![r].labels = p.labels, ![r].coin = p.coin,
           ![r].fee = p.fee, ![r].burnTo = p.burnTo, ![r].burnFee = p.burnFee]
    /\ UNCHANGED <<factory, balance, allowance, signed>>

SetMerkleRoot(c, r, root, freeze) ==
    /\ Registrar(nfr, r, c) /\ ~nfr[r].frozen
    /\ nfr' = [nfr EXCEPT ![r].root = root, ![r].frozen = freeze]
    /\ UNCHANGED <<factory, balance, allowance, signed>>

SetPrimaryRegistry(c, r, p) ==
    /\ c = Admin /\ (p # None => nfr[p].made)
    /\ nfr' = [nfr EXCEPT ![r].primary = p]
    /\ UNCHANGED <<factory, balance, allowance, signed>>

\* grantRole, revokeRole and renounceRole of the registrar role.
SetRegistrar(c, r, a, may) ==
    /\ c = nfr[r].roleAdmin \/ (c = a /\ ~may)
    /\ nfr' = [nfr EXCEPT ![r].registrars = IF may THEN @ \cup {a} ELSE @ \ {a}]
    /\ UNCHANGED <<factory, balance, allowance, signed>>

-----------------------------------------------------------------------------
(* The modules: the registry sees the module as its caller. *)

BatchRegister(c, r, b) ==
    LET one == Created(nfr, r, b[1]) IN
    /\ Registrar(nfr, r, c) /\ Registrar(nfr, r, "batch")
    /\ CanCreate(nfr, r, "batch", b[1]) /\ CanCreate(one, r, "batch", b[2])
    /\ nfr' = Created(one, r, b[2])
    /\ UNCHANGED <<factory, balance, allowance, signed>>

\* (mutant) the caller is not asked for
BulkTransferForAnyone(c, r, u, to, ids) ==
    /\ \A id \in ids : CanTransfer(nfr, r, "bulk", u, to, id)
    /\ nfr' = TransferredAll(nfr, r, to, ids)
    /\ UNCHANGED <<factory, balance, allowance, signed>>

\* bulkTransfer of some tokens of u to one recipient.
BulkTransfer(c, r, u, to, ids) ==
    /\ ApprovedForAll(nfr, r, u, c)
    /\ \A id \in ids : CanTransfer(nfr, r, "bulk", u, to, id)
    /\ nfr' = TransferredAll(nfr, r, to, ids)
    /\ UNCHANGED <<factory, balance, allowance, signed>>

BuyNFI(c, r, id) ==
    LET n == nfr[r]
        seller == n.owner[id]
    IN  /\ seller # None /\ Registrar(nfr, r, seller) /\ n.fee > 0
        /\ CanPull(n.coin, c, "buy", n.fee) /\ n.burnTo # None
        /\ CanTransfer(nfr, r, "buy", seller, c, id)
        /\ balance' = Moved(balance, n.coin, c, n.burnTo, n.fee)
        /\ allowance' = Pulled(n.coin, c, "buy", n.fee)
        /\ nfr' = Transferred(nfr, r, c, id)
        /\ UNCHANGED <<factory, signed>>

\* lazyRegister: the signer must be a registrar now; the signature names neither
\* the registry nor a number of uses.
LazyRegister(c, r, e) ==
    /\ e.to = c
    /\ \E a \in Users : <<a, e>> \in signed /\ Registrar(nfr, r, a)
    /\ Registrar(nfr, r, "lazy") /\ CanCreate(nfr, r, "lazy", e)
    /\ nfr' = Created(nfr, r, e)
    /\ UNCHANGED <<factory, balance, allowance, signed>>

Redeem(c, r, e) ==
    /\ e \in nfr[r].root
    /\ Registrar(nfr, r, "merkle") /\ CanCreate(nfr, r, "merkle", e)
    /\ nfr' = Created(nfr, r, e)
    /\ UNCHANGED <<factory, balance, allowance, signed>>

-----------------------------------------------------------------------------
(* The factory. *)

\* (mutant) a name may be given again
CanMakeAgain(r, name) == ~nfr[r].made /\ name \in Names

\* _createEnumerableRegistry and _createRegistry: the name must not be in use.
CanMake(r, name) == ~nfr[r].made /\ factory.names[name] = None

Make(r, name, registrar) ==
    /\ CanMake(r, name)
    /\ nfr' = [nfr EXCEPT ![r] = New(name, registrar, factory.profiles)]
    /\ factory' = [factory EXCEPT !.names[name] = r]

\* The registrar of the new registry is whom the caller names.
CreateRegistry(c, r, name, registrar) ==
    /\ c = Admin
    /\ Make(r, name, registrar)
    /\ UNCHANGED <<balance, allowance, signed>>

CreateRegistryByToken(c, r, name, registrar) ==
    /\ factory.profiles # None => Holds(nfr, factory.profiles, c)
    /\ CanPull(factory.coin, c, "factory", factory.fee) /\ factory.burnTo # None
    /\ Make(r, name, registrar)
    /\ balance' = Moved(balance, factory.coin, c, factory.burnTo, factory.fee)
    /\ allowance' = Pulled(factory.coin, c, "factory", factory.fee)
    /\ UNCHANGED signed

SetProfileRegistryAddress(c, profiles) ==
    /\ c = Admin /\ profiles # None
    /\ factory' = [factory EXCEPT !.profiles = profiles]
    /\ UNCHANGED <<nfr, balance, allowance, signed>>

SetRegistrationToken(c, x) ==
    /\ c = Admin
    /\ factory' = [factory EXCEPT !.coin = x]
    /\ UNCHANGED <<nfr, balance, allowance, signed>>

SetRegistrationFee(c, n) ==
    /\ c = Admin
    /\ factory' = [factory EXCEPT !.fee = n]
    /\ UNCHANGED <<nfr, balance, allowance, signed>>

SetBurnAddress(c, h) ==
    /\ c = Admin
    /\ factory' = [factory EXCEPT !.burnTo = h]
    /\ UNCHANGED <<nfr, balance, allowance, signed>>

-----------------------------------------------------------------------------
(* What happens outside of these contracts. *)

Approve(c, x, spender, n) ==
    /\ <<c, x, spender, n>> \in Allowances
    /\ allowance' = [allowance EXCEPT ![x][c][spender] = n]
    /\ UNCHANGED <<nfr, factory, balance, signed>>

\* transfer of a coin, to a person or to a registry.
SendCoins(c, x, to, n) ==
    /\ <<c, x, to, n>> \in Gifts /\ balance[x][c] >= n
    /\ balance' = Moved(balance, x, c, to, n)
    /\ UNCHANGED <<nfr, factory, allowance, signed>>

SetApprovalForAll(c, r, a, may) ==
    /\ <<c, a>> \in Operators
    /\ nfr' = [nfr EXCEPT ![r].operators =
           IF may THEN @ \cup {<<c, a>>} ELSE @ \ {<<c, a>>}]
    /\ UNCHANGED <<factory, balance, allowance, signed>>

\* approve, of one token.
ApproveToken(c, r, a, id) ==
    LET holder == nfr[r].owner[id] IN
    /\ <<holder, a>> \in Operators /\ a # holder
    /\ c = holder \/ ApprovedForAll(nfr, r, holder, c)
    /\ nfr' = [nfr EXCEPT ![r].approved[id] = a]
    /\ UNCHANGED <<factory, balance, allowance, signed>>

SignEntry(c, e) ==
    /\ signed' = signed \cup {<<c, e>>}
    /\ UNCHANGED <<nfr, factory, balance, allowance>>

-----------------------------------------------------------------------------

TokenCall(c, r) ==
    \/ \E e \in Entries : Register(c, r, e) \/ RegisterByToken(c, r, e)
    \/ \E id \in Ids :
           \/ Burn(c, r, id)
           \/ \E e \in Entries : UpdateLabel(c, r, id, e.label)
           \/ \E u \in Users : TransferFrom(c, r, u, id)
           \/ \E a \in Users \cup Modules : ApproveToken(c, r, a, id)
    \/ \E may \in BOOLEAN, a \in Users \cup Modules : SetApprovalForAll(c, r, a, may)

RegistrarCall(c, r) ==
    \/ "parameters" \in Uses /\ \E p \in Params : SetRegistryParameters(c, r, p)
    \/ "primary" \in Uses /\ \E p \in Registries \cup {None} : SetPrimaryRegistry(c, r, p)
    \/ \E a \in Grantees, may \in BOOLEAN : SetRegistrar(c, r, a, may)

ModuleCall(c, r) ==
    \/ \E u, v \in Users, ids \in SUBSET Ids \ {{}} : BulkTransfer(c, r, u, v, ids)
    \/ \E id \in Ids : BuyNFI(c, r, id)

\* The entries that a registrar signs or puts in a merkle root: those of Batches.
Offered == {b[1] : b \in Batches}
Mint(c, r) ==
    \/ \E b \in Batches : BatchRegister(c, r, b)
    \/ \E e \in Offered : LazyRegister(c, r, e) \/ Redeem(c, r, e)
    \/ \E root \in {{}, Offered}, freeze \in BOOLEAN : SetMerkleRoot(c, r, root, freeze)

FactoryCall(c) ==
    \/ \E r \in Registries, n \in Names, a \in Users \cup Grantees :
           CreateRegistry(c, r, n, a) \/ CreateRegistryByToken(c, r, n, a)
    \/ \E r \in Registries \cup {None} : SetProfileRegistryAddress(c, r)
    \/ \E p \in Params :
           SetRegistrationToken(c, p.coin) \/ SetRegistrationFee(c, p.fee)
               \/ SetBurnAddress(c, p.burnTo)

Call(c) ==
    /\ caller' = c
    /\ \/ \E r \in Registries :
              \/ nfr[r].made /\ TokenCall(c, r)
              \/ nfr[r].made /\ RegistrarCall(c, r)
              \/ "modules" \in Uses /\ nfr[r].made /\ ModuleCall(c, r)
              \/ "mints" \in Uses /\ nfr[r].made /\ Mint(c, r)
       \/ "factory" \in Uses /\ FactoryCall(c)
       \/ \E a \in Allowances : Approve(c, a[2], a[3], a[4])
       \/ \E g \in Gifts : SendCoins(c, g[2], g[3], g[4])
       \/ \E e \in Offered : SignEntry(c, e)

Next == \E c \in Users : Call(c)

Spec == Init /\ [][Next]_vars

-----------------------------------------------------------------------------
(* Properties. *)

\* registryMap and reverseRegistryMap ("inverse datastructure to registryMap")
\* agree on every label but the empty one, and only tokens that exist have one:
\* through any sequence of registrations, new labels, burns and registrations of
\* the same id a label leads to one token, and every token to its own label.
LabelsAgree ==
    \A r \in Registries :
        /\ \A l \in Labels, id \in Ids :
               nfr[r].idOf[l] = id <=> nfr[r].label[id] = l
        /\ \A id \in Ids : nfr[r].owner[id] = None => nfr[r].label[id] = Empty

\* What each token of r has at stake in coin x.
StakesIn(r, x) == [id \in Ids |->
    IF nfr[r].stake[id].coin = x THEN nfr[r].stake[id].amount ELSE 0]

\* A registry holds at least the stakes it has to give back, of each coin: when the
\* registrar changes coin, fee, share or burnAddress between registrations and burns,
\* no stake is short. It may hold more: what it burned to itself, what others burned
\* to it or sent it, which no call gives back.
StakesBacked ==
    \A r \in Registries, x \in Coins : balance[x][r] >= SumFunction(StakesIn(r, x))

\* Only a token that exists has a stake, so that the next owner of its id does not
\* get one he did not pay for.
StakesOwned ==
    \A r \in Registries, id \in Ids :
        nfr[r].stake[id].amount > 0 => nfr[r].owner[id] # None

\* No token leaves its owner, through a module or directly, without him, someone
\* he approved or a registrar sending the transaction, but by the sale of a
\* registrar's token at the fee.
OwnerConsents ==
    [][\A r \in Registries, id \in Ids :
        LET n == nfr[r]
            holder == n.owner[id]
        IN  holder \notin {None, nfr'[r].owner[id]} =>
              \/ MayAct(nfr, r, caller', id)
              \/ /\ Registrar(nfr, r, holder) /\ nfr'[r].owner[id] = caller'
                 /\ n.coin # None /\ n.fee > 0
                 /\ \/ caller' = n.burnTo
                    \/ balance'[n.coin][caller'] = balance[n.coin][caller'] - n.fee]_vars

\* A name of the factory leads to the registry that was made under it, and to it
\* alone ("the true deployment address of a project's NFR").
NamesResolve ==
    \A r \in Registries, name \in Names :
        factory.names[name] = r <=> (nfr[r].made /\ nfr[r].name = name)

=============================================================================
