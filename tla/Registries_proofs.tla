-------------------------- MODULE Registries_proofs --------------------------
(***************************************************************************)
(* Labels, stakes, coins, owners and names of the registries, for any      *)
(* registries, users, ids, labels and entries, and any sequence of         *)
(* transactions.                                                           *)
(*                                                                         *)
(* A call of a registry changes the record of that registry. Good says of  *)
(* one record what the properties say of all, and Keeps of a change of the *)
(* state of all registries that every record stays good, is made when it   *)
(* was, and has the name it had. There is a lemma for each thing a call    *)
(* may do (create, transfer, burn, relabel, set what Good does not mention)*)
(* and modules, which do several at once, put them one after the other.    *)
(*                                                                         *)
(* The second half is about coins and consent. Most calls are calm: stakes *)
(* and the owners of tokens stay. The others change one stake and one      *)
(* balance by as much (SumLemmas says what that does to the sum), or move  *)
(* tokens of one registry, and Fine says of each that coins still add up   *)
(* and whoever lost a token was asked.                                     *)
(***************************************************************************)
EXTENDS Registries, SumLemmas

\* What the properties mention of a record, and the same of two records.
Same(m, n) ==
    /\ m.owner = n.owner /\ m.label = n.label /\ m.idOf = n.idOf /\ m.stake = n.stake
    /\ m.made = n.made /\ m.name = n.name

Good(n) ==
    /\ n \in Registry
    /\ \A l \in Labels, id \in Ids : n.idOf[l] = id <=> n.label[id] = l
    /\ \A id \in Ids : n.owner[id] = None => n.label[id] = Empty
    /\ \A id \in Ids : n.stake[id].amount > 0 => n.owner[id] # None

AllGood(s) == s \in [Registries -> Registry] /\ \A r \in Registries : Good(s[r])

Keeps(s, t) ==
    /\ AllGood(t)
    /\ \A r \in Registries : t[r].made = s[r].made /\ t[r].name = s[r].name

\* Only the record of r changes.
Elsewhere(s, t, r) == \A q \in Registries \ {r} : t[q] = s[q]

\* Stakes stay, and so do the owners of the tokens that exist.
Calm(s, t, r) ==
    /\ Elsewhere(s, t, r)
    /\ t[r].stake = s[r].stake
    /\ \A id \in Ids : s[r].owner[id] # None => t[r].owner[id] = s[r].owner[id]

Factory == [names : [Names -> Registries \cup {None}],
            profiles : Registries \cup {None}, coin : Coins \cup {None},
            fee : Nat, burnTo : Holders \cup {None}]

Inv == AllGood(nfr) /\ factory \in Factory /\ NamesResolve

-----------------------------------------------------------------------------
(* One record. *)

LEMMA GoodSame ==
    ASSUME NEW n, NEW m \in Registry, Good(n), Same(m, n)
    PROVE  Good(m)
BY DEF Good, Same

LEMMA OwnerSet ==
    ASSUME NEW n \in Registry, NEW id \in Ids, NEW u \in Users
    PROVE  LET m == [n EXCEPT !.owner[id] = u] IN
           /\ m \in Registry /\ m.owner = [n.owner EXCEPT ![id] = u]
           /\ m.label = n.label /\ m.idOf = n.idOf /\ m.stake = n.stake
           /\ m.made = n.made /\ m.name = n.name
BY DEF Registry

LEMMA TransferSet ==
    ASSUME NEW n \in Registry, NEW id \in Ids, NEW u \in Users \cup {None}
    PROVE  LET m == [n EXCEPT !.owner[id] = u, !.approved[id] = None] IN
           /\ m \in Registry /\ m.owner = [n.owner EXCEPT ![id] = u]
           /\ m.label = n.label /\ m.idOf = n.idOf /\ m.stake = n.stake
           /\ m.made = n.made /\ m.name = n.name
BY DEF Registry

\* The registry n once the token id has the label l.
WithLabel(n, id, l) == [n EXCEPT !.idOf[l] = id, !.label[id] = l]

LEMMA LabelSet ==
    ASSUME NEW n \in Registry, NEW id \in Ids, NEW l \in Labels \cup {Empty}
    PROVE  /\ WithLabel(n, id, l) \in Registry
           /\ WithLabel(n, id, l).idOf = [n.idOf EXCEPT ![l] = id]
           /\ WithLabel(n, id, l).label = [n.label EXCEPT ![id] = l]
           /\ WithLabel(n, id, l).owner = n.owner /\ WithLabel(n, id, l).stake = n.stake
           /\ WithLabel(n, id, l).made = n.made /\ WithLabel(n, id, l).name = n.name
BY DEF Registry, WithLabel

LEMMA Freed ==
    ASSUME NEW n \in Registry, NEW l \in Labels \cup {Empty}
    PROVE  LET m == [n EXCEPT !.idOf[l] = None] IN
           /\ m \in Registry /\ m.idOf = [n.idOf EXCEPT ![l] = None]
           /\ m.owner = n.owner /\ m.label = n.label /\ m.stake = n.stake
           /\ m.made = n.made /\ m.name = n.name
BY DEF Registry

LEMMA RootSet ==
    ASSUME NEW n \in Registry, NEW root \in SUBSET Registrations, NEW freeze \in BOOLEAN,
           NEW m, m = [n EXCEPT !.root = root, !.frozen = freeze]
    PROVE  m \in Registry /\ Same(m, n)
<1>1. PICK f : f = [n EXCEPT !.root = root]
  OBVIOUS
<1>2. f \in Registry /\ Same(f, n)
  BY <1>1 DEF Registry, Same
<1>3. m = [f EXCEPT !.frozen = freeze]
  BY <1>1
<1>4. m \in Registry
  BY <1>2, <1>3 DEF Registry
<1>5. Same(m, f)
  BY <1>2, <1>3 DEF Registry, Same
<1> QED
  BY <1>2, <1>5, <1>4 DEF Same

LEMMA StakeSet ==
    ASSUME NEW n \in Registry, NEW id \in Ids, NEW x \in Coins \cup {None}, NEW a \in Nat
    PROVE  LET m == [n EXCEPT !.stake[id] = [coin |-> x, amount |-> a]] IN
           /\ m \in Registry /\ m.stake = [n.stake EXCEPT ![id] = [coin |-> x, amount |-> a]]
           /\ m.owner = n.owner /\ m.label = n.label /\ m.idOf = n.idOf
           /\ m.made = n.made /\ m.name = n.name
BY DEF Registry

-----------------------------------------------------------------------------
(* The state of all registries. *)

LEMMA Put ==
    ASSUME NEW s, NEW r \in Registries, NEW m, AllGood(s), Good(m),
           m.made = s[r].made, m.name = s[r].name
    PROVE  LET t == [s EXCEPT ![r] = m] IN Keeps(s, t) /\ Elsewhere(s, t, r) /\ t[r] = m
BY DEF AllGood, Keeps, Good, Elsewhere

LEMMA PutSame ==
    ASSUME NEW s, NEW r \in Registries, NEW m \in Registry, AllGood(s), Same(m, s[r])
    PROVE  LET t == [s EXCEPT ![r] = m] IN Keeps(s, t) /\ Calm(s, t, r) /\ t[r] = m
BY Put, GoodSame DEF AllGood, Same, Calm

LEMMA KeepsBoth ==
    ASSUME NEW s, NEW t, NEW v, Keeps(s, t), Keeps(t, v)
    PROVE  Keeps(s, v)
BY DEF Keeps

LEMMA CalmBoth ==
    ASSUME NEW s, NEW t, NEW v, NEW r, Calm(s, t, r), Calm(t, v, r)
    PROVE  Calm(s, v, r)
BY DEF Calm, Elsewhere

\* A token that did not exist gets an owner.
LEMMA MintKeeps ==
    ASSUME NEW s, NEW r \in Registries, NEW id \in Ids, NEW u \in Users, AllGood(s),
           s[r].owner[id] = None
    PROVE  LET t == Minted(s, r, u, id) IN
           /\ Keeps(s, t) /\ Calm(s, t, r) /\ t[r].owner = [s[r].owner EXCEPT ![id] = u]
           /\ t[r].idOf = s[r].idOf /\ t[r].label = s[r].label
<1> DEFINE n == s[r]
           m == [n EXCEPT !.owner[id] = u]
<1>1. s \in [Registries -> Registry] /\ n \in Registry /\ Good(n) /\ None \notin Users
  BY RegistriesAssumption DEF AllGood
<1>2. Minted(s, r, u, id) = [s EXCEPT ![r] = m]
  BY <1>1 DEF Minted
<1>3. /\ m \in Registry /\ m.owner = [n.owner EXCEPT ![id] = u]
      /\ m.label = n.label /\ m.idOf = n.idOf /\ m.stake = n.stake
      /\ m.made = n.made /\ m.name = n.name
  <2>1. n \in Registry
    BY <1>1
  <2> HIDE DEF n
  <2> QED
    BY <2>1, OwnerSet
<1>4. n.owner \in [Ids -> Users \cup {None}]
  BY <1>1 DEF Registry
<1> HIDE DEF m
<1>5. \A i \in Ids : m.owner[i] = IF i = id THEN u ELSE n.owner[i]
  BY <1>3, <1>4
<1>6. Good(m)
  BY <1>1, <1>3, <1>5 DEF Good
<1> DEFINE t == [s EXCEPT ![r] = m]
<1>7. Keeps(s, t) /\ Elsewhere(s, t, r) /\ t[r] = m
  BY <1>1, <1>3, <1>6, Put
<1> HIDE DEF t
<1>8. Calm(s, t, r)
  BY <1>3, <1>5, <1>7 DEF Calm
<1> QED
  BY <1>2, <1>3, <1>7, <1>8 DEF t

\* A token without a label gets one that is free.
LEMMA LabelKeeps ==
    ASSUME NEW s, NEW r \in Registries, NEW id \in Ids, NEW l \in Labels \cup {Empty},
           AllGood(s), s[r].owner[id] # None, s[r].label[id] = Empty, s[r].idOf[l] = None
    PROVE  LET t == Labeled(s, r, id, l) IN
           Keeps(s, t) /\ Calm(s, t, r) /\ t[r].owner = s[r].owner
<1> DEFINE n == s[r]
           m == WithLabel(n, id, l)
<1>1. /\ s \in [Registries -> Registry] /\ n \in Registry /\ Good(n)
      /\ None \notin Ids /\ Empty \notin Labels
  BY RegistriesAssumption DEF AllGood
<1>2. Labeled(s, r, id, l) = [s EXCEPT ![r] = m]
  BY <1>1 DEF Labeled, WithLabel
<1>3. /\ m \in Registry
      /\ m.idOf = [n.idOf EXCEPT ![l] = id] /\ m.label = [n.label EXCEPT ![id] = l]
      /\ m.owner = n.owner /\ m.stake = n.stake /\ m.made = n.made /\ m.name = n.name
  <2>1. n \in Registry
    BY <1>1
  <2> HIDE DEF n
  <2>2. \A k \in Registry :
            /\ WithLabel(k, id, l) \in Registry
            /\ WithLabel(k, id, l).idOf = [k.idOf EXCEPT ![l] = id]
            /\ WithLabel(k, id, l).label = [k.label EXCEPT ![id] = l]
            /\ WithLabel(k, id, l).owner = k.owner /\ WithLabel(k, id, l).stake = k.stake
            /\ WithLabel(k, id, l).made = k.made /\ WithLabel(k, id, l).name = k.name
    BY LabelSet, Zenon
  <2> QED
    BY <2>1, <2>2, Zenon
<1>4. /\ n.label \in [Ids -> Labels \cup {Empty}]
      /\ n.idOf \in [Labels \cup {Empty} -> Ids \cup {None}]
  BY <1>1 DEF Registry
<1> HIDE DEF m
<1>5. /\ \A i \in Ids : m.label[i] = IF i = id THEN l ELSE n.label[i]
      /\ \A k \in Labels : m.idOf[k] = IF k = l THEN id ELSE n.idOf[k]
  BY <1>3, <1>4
<1>6. \A k \in Labels, i \in Ids : m.idOf[k] = i <=> m.label[i] = k
  BY <1>1, <1>5 DEF Good
<1>7. Good(m)
  BY <1>1, <1>3, <1>5, <1>6 DEF Good
<1> DEFINE t == [s EXCEPT ![r] = m]
<1>8. Keeps(s, t) /\ Elsewhere(s, t, r) /\ t[r] = m
  BY <1>3, <1>7, Put
<1> HIDE DEF t
<1>9. Calm(s, t, r) /\ t[r].owner = s[r].owner
  BY <1>3, <1>8 DEF Calm
<1> QED
  BY <1>2, <1>8, <1>9 DEF t

\* updateLabel: a token gives up its label for one that is free.
LEMMA RelabelKeeps ==
    ASSUME NEW s, NEW r \in Registries, NEW id \in Ids, NEW l \in Labels \cup {Empty},
           AllGood(s), s[r].owner[id] # None, s[r].idOf[l] = None
    PROVE  LET t == Relabeled(s, r, id, l) IN Keeps(s, t) /\ Calm(s, t, r)
<1> DEFINE n == s[r]
           old == n.label[id]
           f == [n EXCEPT !.idOf[old] = None]
           m == WithLabel(f, id, l)
<1>1. /\ s \in [Registries -> Registry] /\ n \in Registry /\ Good(n)
      /\ None \notin Ids /\ Empty \notin Labels
  BY RegistriesAssumption DEF AllGood
<1>2. /\ n.label \in [Ids -> Labels \cup {Empty}]
      /\ n.idOf \in [Labels \cup {Empty} -> Ids \cup {None}]
  BY <1>1 DEF Registry
<1>3. CASE old = Empty
  <2>1. Relabeled(s, r, id, l) = Labeled(s, r, id, l)
    BY <1>3 DEF Relabeled
  <2> QED
    BY <1>3, <2>1, LabelKeeps
<1>4. CASE old # Empty
  <2>1. old \in Labels
    BY <1>2, <1>4
  <2> HIDE DEF old
  <2>2. /\ f \in Registry /\ f.idOf = [n.idOf EXCEPT ![old] = None]
        /\ f.owner = n.owner /\ f.label = n.label /\ f.stake = n.stake
        /\ f.made = n.made /\ f.name = n.name
    <3>1. n \in Registry
      BY <1>1
    <3> HIDE DEF n
    <3> QED
      BY <2>1, <3>1, Freed
  <2> HIDE DEF f
  <2>3. /\ m \in Registry
        /\ m.idOf = [f.idOf EXCEPT ![l] = id] /\ m.label = [f.label EXCEPT ![id] = l]
        /\ m.owner = f.owner /\ m.stake = f.stake /\ m.made = f.made /\ m.name = f.name
    BY <2>2, LabelSet
  <2>4. /\ \A i \in Ids : m.label[i] = IF i = id THEN l ELSE n.label[i]
        /\ \A k \in Labels :
               m.idOf[k] = IF k = l THEN id ELSE IF k = old THEN None ELSE n.idOf[k]
    <3> HIDE DEF m
    <3> QED
      BY <1>2, <2>1, <2>2, <2>3
  <2>5. \A i \in Ids : n.label[i] = old <=> i = id
    BY <1>1, <2>1 DEF Good, old
  <2> HIDE DEF m
  <2>6. \A k \in Labels, i \in Ids : m.idOf[k] = i <=> m.label[i] = k
    BY <1>1, <2>1, <2>4, <2>5 DEF Good
  <2>7. Good(m)
    BY <1>1, <2>2, <2>3, <2>4, <2>6 DEF Good
  <2>8. Relabeled(s, r, id, l) = [s EXCEPT ![r] = m]
    <3>1. [s EXCEPT ![r].idOf[old] = None] = [s EXCEPT ![r] = f]
      BY <1>1 DEF f
    <3> DEFINE g == [s EXCEPT ![r] = f]
    <3>2. g \in [Registries -> Registry] /\ g[r] = f
      BY <1>1, <2>2
    <3>3. Relabeled(s, r, id, l) = Labeled(g, r, id, l)
      BY <1>4, <3>1 DEF Relabeled, old
    <3>4. Labeled(g, r, id, l) = [g EXCEPT ![r] = m]
      <4> HIDE DEF g
      <4> QED
        BY <3>2 DEF m, Labeled, WithLabel
    <3>5. [g EXCEPT ![r] = m] = [s EXCEPT ![r] = m]
      BY <1>1
    <3> QED
      BY <3>3, <3>4, <3>5
  <2> DEFINE t == [s EXCEPT ![r] = m]
  <2>9. Keeps(s, t) /\ Elsewhere(s, t, r) /\ t[r] = m
    BY <2>2, <2>3, <2>7, Put
  <2> HIDE DEF t
  <2>10. Calm(s, t, r)
    BY <2>2, <2>3, <2>9 DEF Calm
  <2> QED
    BY <2>8, <2>9, <2>10 DEF t
<1> QED
  BY <1>3, <1>4

\* A token goes to another owner.
LEMMA TransferKeeps ==
    ASSUME NEW s, NEW r \in Registries, NEW id \in Ids, NEW u \in Users, AllGood(s)
    PROVE  LET t == Transferred(s, r, u, id) IN
           /\ Keeps(s, t) /\ Elsewhere(s, t, r) /\ t[r].stake = s[r].stake
           /\ \A i \in Ids : t[r].owner[i] = IF i = id THEN u ELSE s[r].owner[i]
<1> DEFINE n == s[r]
           m == [n EXCEPT !.owner[id] = u, !.approved[id] = None]
<1>1. s \in [Registries -> Registry] /\ n \in Registry /\ Good(n) /\ None \notin Users
  BY RegistriesAssumption DEF AllGood
<1>2. Transferred(s, r, u, id) = [s EXCEPT ![r] = m]
  BY <1>1 DEF Transferred
<1>3. /\ m \in Registry /\ m.owner = [n.owner EXCEPT ![id] = u]
      /\ m.label = n.label /\ m.idOf = n.idOf /\ m.stake = n.stake
      /\ m.made = n.made /\ m.name = n.name
  <2> HIDE DEF n
  <2> QED
    BY <1>1 DEF Registry
<1>4. n.owner \in [Ids -> Users \cup {None}]
  BY <1>1 DEF Registry
<1> HIDE DEF m
<1>5. \A i \in Ids : m.owner[i] = IF i = id THEN u ELSE n.owner[i]
  BY <1>3, <1>4
<1>6. Good(m)
  BY <1>1, <1>3, <1>5 DEF Good
<1> DEFINE t == [s EXCEPT ![r] = m]
<1>7. Keeps(s, t) /\ Elsewhere(s, t, r) /\ t[r] = m
  BY <1>3, <1>6, Put
<1> HIDE DEF t
<1> QED
  BY <1>2, <1>3, <1>5, <1>7 DEF t

LEMMA UnlabelSet ==
    ASSUME NEW n \in Registry, NEW id \in Ids, NEW l \in Labels \cup {Empty}
    PROVE  LET m == [n EXCEPT !.label[id] = Empty, !.idOf[l] = None] IN
           /\ m \in Registry
           /\ m.idOf = [n.idOf EXCEPT ![l] = None] /\ m.label = [n.label EXCEPT ![id] = Empty]
           /\ m.owner = n.owner /\ m.stake = n.stake /\ m.made = n.made /\ m.name = n.name
BY DEF Registry

LEMMA UnstakeSet ==
    ASSUME NEW n \in Registry, NEW id \in Ids,
           NEW w \in [coin : Coins \cup {None}, amount : Nat]
    PROVE  LET m == [n EXCEPT !.stake[id] = w] IN
           /\ m \in Registry /\ m.stake = [n.stake EXCEPT ![id] = w]
           /\ m.owner = n.owner /\ m.label = n.label /\ m.idOf = n.idOf
           /\ m.made = n.made /\ m.name = n.name
BY DEF Registry

\* A token is gone, with its label and its stake.
LEMMA BurnKeeps ==
    ASSUME NEW s, NEW r \in Registries, NEW id \in Ids, AllGood(s),
           NEW t, t = Burned(s, r, id), NEW v,
           v = IF s[r].stake[id].amount = 0 THEN s[r].stake[id] ELSE NoStake
    PROVE  /\ Keeps(s, t) /\ Elsewhere(s, t, r)
           /\ \A i \in Ids : t[r].owner[i] = IF i = id THEN None ELSE s[r].owner[i]
           /\ \A i \in Ids : t[r].stake[i] = IF i = id THEN v ELSE s[r].stake[i]
<1> DEFINE n == s[r]
           old == n.label[id]
           w == IF n.stake[id].amount = 0 THEN n.stake[id] ELSE NoStake
           n1 == [n EXCEPT !.owner[id] = None, !.approved[id] = None]
           n2 == [n1 EXCEPT !.label[id] = Empty, !.idOf[old] = None]
           m == [n2 EXCEPT !.stake[id] = w]
<1>1. /\ s \in [Registries -> Registry] /\ n \in Registry /\ Good(n)
      /\ None \notin Ids /\ Empty \notin Labels
  BY RegistriesAssumption DEF AllGood
<1>2. /\ n.label \in [Ids -> Labels \cup {Empty}] /\ n.owner \in [Ids -> Users \cup {None}]
      /\ n.idOf \in [Labels \cup {Empty} -> Ids \cup {None}]
      /\ n.stake \in [Ids -> [coin : Coins \cup {None}, amount : Nat]]
  BY <1>1 DEF Registry
<1>3. old \in Labels \cup {Empty} /\ \A l \in Labels : n.idOf[l] = id <=> old = l
  BY <1>1, <1>2 DEF Good
<1>4. w \in [coin : Coins \cup {None}, amount : Nat] /\ w.amount = 0
  <2>1. n.stake[id] \in [coin : Coins \cup {None}, amount : Nat]
    BY <1>2
  <2> HIDE DEF n
  <2> QED
    BY <2>1 DEF NoStake
<1>5. Transferred(s, r, None, id) = [s EXCEPT ![r] = n1]
  BY <1>1 DEF Transferred
<1>6. /\ n1 \in Registry /\ n1.owner = [n.owner EXCEPT ![id] = None]
      /\ n1.label = n.label /\ n1.idOf = n.idOf /\ n1.stake = n.stake
      /\ n1.made = n.made /\ n1.name = n.name
  <2>1. n \in Registry
    BY <1>1
  <2> HIDE DEF n
  <2> QED
    BY <2>1 DEF Registry
<1> DEFINE s1 == [s EXCEPT ![r] = n1]
           s2 == [s1 EXCEPT ![r] = n2]
<1> HIDE DEF n1
<1>7. s1 \in [Registries -> Registry] /\ s1[r] = n1
  BY <1>1, <1>6
<1> HIDE DEF old, w
<1>8. /\ n2 \in Registry
      /\ n2.idOf = [n.idOf EXCEPT ![old] = None] /\ n2.label = [n.label EXCEPT ![id] = Empty]
      /\ n2.owner = n1.owner /\ n2.stake = n.stake /\ n2.made = n.made /\ n2.name = n.name
  <2>1. /\ n2 \in Registry
        /\ n2.idOf = [n1.idOf EXCEPT ![old] = None] /\ n2.label = [n1.label EXCEPT ![id] = Empty]
        /\ n2.owner = n1.owner /\ n2.stake = n1.stake /\ n2.made = n1.made /\ n2.name = n1.name
    BY <1>3, <1>6 DEF Registry
  <2> QED
    BY <1>6, <2>1
<1>9. [s1 EXCEPT ![r].label[id] = Empty, ![r].idOf[old] = None] = s2
  <2> HIDE DEF s1
  <2> QED
    BY <1>7
<1> HIDE DEF n2
<1>10. s2 \in [Registries -> Registry] /\ s2[r] = n2
  BY <1>7, <1>8
<1>11. Burned(s, r, id) = [s2 EXCEPT ![r].stake[id] = w]
  <2>1. Transferred(s, r, None, id) = s1
    BY <1>5
  <2> HIDE DEF s1, s2
  <2>2. Burned(s, r, id)
        = [s1 EXCEPT ![r].label[id] = Empty, ![r].idOf[old] = None, ![r].stake[id] = w]
    BY <2>1 DEF Burned, old, w
  <2> QED
    BY <1>9, <2>2
<1>12. [s2 EXCEPT ![r].stake[id] = w] = [s EXCEPT ![r] = m]
  <2>1. [s2 EXCEPT ![r].stake[id] = w] = [s2 EXCEPT ![r] = m]
    <3> HIDE DEF s2
    <3> QED
      BY <1>10
  <2> QED
    BY <1>1, <2>1
<1>13. /\ m \in Registry /\ m.stake = [n2.stake EXCEPT ![id] = w]
       /\ m.owner = n2.owner /\ m.label = n2.label /\ m.idOf = n2.idOf
       /\ m.made = n2.made /\ m.name = n2.name
  BY <1>4, <1>8, UnstakeSet
<1> HIDE DEF m
<1>14. /\ \A i \in Ids : /\ m.owner[i] = IF i = id THEN None ELSE n.owner[i]
                         /\ m.label[i] = IF i = id THEN Empty ELSE n.label[i]
                         /\ m.stake[i] = IF i = id THEN w ELSE n.stake[i]
       /\ \A l \in Labels : m.idOf[l] = IF l = old THEN None ELSE n.idOf[l]
  BY <1>2, <1>3, <1>6, <1>8, <1>13
<1>15. Good(m)
  <2>1. \A l \in Labels, i \in Ids : m.idOf[l] = i <=> m.label[i] = l
    BY <1>1, <1>3, <1>14 DEF Good
  <2> QED
    BY <1>1, <1>4, <1>13, <1>14, <2>1 DEF Good
<1> DEFINE u == [s EXCEPT ![r] = m]
<1>16. Keeps(s, u) /\ Elsewhere(s, u, r) /\ u[r] = m
  BY <1>8, <1>13, <1>15, Put
<1> HIDE DEF u
<1>17. t = u
  BY <1>11, <1>12 DEF u
<1>18. v = w
  BY DEF w
<1>19. t[r].owner = m.owner /\ t[r].stake = m.stake /\ n = s[r]
  BY <1>16, <1>17
<1> HIDE DEF n
<1>20. /\ \A i \in Ids : t[r].owner[i] = IF i = id THEN None ELSE s[r].owner[i]
       /\ \A i \in Ids : t[r].stake[i] = IF i = id THEN v ELSE s[r].stake[i]
  BY <1>14, <1>18, <1>19
<1> QED
  BY <1>16, <1>17, <1>20

\* A token that exists gets a stake.
LEMMA StakeKeeps ==
    ASSUME NEW s, NEW r \in Registries, NEW id \in Ids, NEW x \in Coins \cup {None},
           NEW a \in Nat, AllGood(s), s[r].owner[id] # None,
           NEW t, t = Staked(s, r, id, x, a)
    PROVE  /\ Keeps(s, t) /\ Elsewhere(s, t, r) /\ t[r].owner = s[r].owner
           /\ \A i \in Ids : t[r].stake[i] =
                  IF i = id THEN [coin |-> x, amount |-> a] ELSE s[r].stake[i]
<1> DEFINE n == s[r]
           m == [n EXCEPT !.stake[id] = [coin |-> x, amount |-> a]]
<1>1. s \in [Registries -> Registry] /\ n \in Registry /\ Good(n)
  BY DEF AllGood
<1>2. Staked(s, r, id, x, a) = [s EXCEPT ![r] = m]
  BY <1>1 DEF Staked
<1>3. /\ m \in Registry /\ m.stake = [n.stake EXCEPT ![id] = [coin |-> x, amount |-> a]]
      /\ m.owner = n.owner /\ m.label = n.label /\ m.idOf = n.idOf
      /\ m.made = n.made /\ m.name = n.name
  BY <1>1, StakeSet
<1>4. n.stake \in [Ids -> [coin : Coins \cup {None}, amount : Nat]]
  BY <1>1 DEF Registry
<1> HIDE DEF m
<1>5. \A i \in Ids : m.stake[i] = IF i = id THEN [coin |-> x, amount |-> a] ELSE n.stake[i]
  BY <1>3, <1>4
<1>6. Good(m)
  BY <1>1, <1>3, <1>5 DEF Good
<1> DEFINE v == [s EXCEPT ![r] = m]
<1>7. Keeps(s, v) /\ Elsewhere(s, v, r) /\ v[r] = m
  BY <1>3, <1>6, Put
<1>8. t = v /\ n = s[r]
  BY <1>2 DEF v
<1> HIDE DEF v
<1> HIDE DEF n
<1> QED
  BY <1>3, <1>5, <1>7, <1>8

\* A registration: the label was free and the token did not exist.
LEMMA CreatedKeeps ==
    ASSUME NEW s, NEW r \in Registries, NEW c, NEW e \in Registrations,
           AllGood(s), CanCreate(s, r, c, e)
    PROVE  LET t == Created(s, r, e) IN
           /\ Keeps(s, t) /\ Calm(s, t, r) /\ t[r].owner[e.id] # None
           /\ s[r].owner[e.id] = None
<1> DEFINE t == Minted(s, r, e.to, e.id)
<1>1. e.id \in Ids /\ e.to \in Users /\ e.label \in Labels \cup {Empty} /\ None \notin Users
  BY RegistriesAssumption DEF Registrations
<1>2. /\ Keeps(s, t) /\ Calm(s, t, r) /\ t[r].owner = [s[r].owner EXCEPT ![e.id] = e.to]
      /\ t[r].idOf = s[r].idOf /\ t[r].label = s[r].label /\ s[r].owner[e.id] = None
  BY <1>1, MintKeeps DEF CanCreate
<1>3. s[r].owner \in [Ids -> Users \cup {None}] /\ s[r].label[e.id] = Empty
  BY <1>1 DEF AllGood, Good, Registry, CanCreate
<1>4. t[r].owner[e.id] # None
  BY <1>1, <1>2, <1>3
<1>5. CASE e.label = Empty
  BY <1>2, <1>4, <1>5 DEF Created
<1>6. CASE e.label # Empty
  <2>1. t[r].idOf[e.label] = None /\ t[r].label[e.id] = Empty /\ AllGood(t)
    BY <1>2, <1>3, <1>6 DEF CanCreate, MappingExists, Keeps
  <2>2. LET v == Labeled(t, r, e.id, e.label) IN
        Keeps(t, v) /\ Calm(t, v, r) /\ v[r].owner = t[r].owner
    BY <1>1, <1>4, <2>1, LabelKeeps
  <2>3. Created(s, r, e) = Labeled(t, r, e.id, e.label)
    BY <1>6 DEF Created
  <2> QED
    BY <1>2, <1>4, <2>2, <2>3, KeepsBoth, CalmBoth
<1> QED
  BY <1>5, <1>6

\* What the properties do not mention.
LEMMA ParamsKeep ==
    ASSUME NEW s, NEW r \in Registries, NEW p \in Params, AllGood(s), p.burnFee <= BasisPoints
    PROVE  LET t == [s EXCEPT
               ![r].transfers = p.transfers, ![r].labels = p.labels, ![r].coin = p.coin,
               ![r].fee = p.fee, ![r].burnTo = p.burnTo, ![r].burnFee = p.burnFee]
           IN  Keeps(s, t) /\ Calm(s, t, r)
<1> DEFINE n == s[r]
           m1 == [n EXCEPT !.transfers = p.transfers, !.labels = p.labels, !.coin = p.coin]
           t == [s EXCEPT ![r] = m1]
           m2 == [m1 EXCEPT !.fee = p.fee, !.burnTo = p.burnTo, !.burnFee = p.burnFee]
<1>1. s \in [Registries -> Registry] /\ n \in Registry
  BY DEF AllGood
<1>2. /\ p.transfers \in BOOLEAN /\ p.labels \in BOOLEAN /\ p.coin \in Coins \cup {None}
      /\ p.fee \in Nat /\ p.burnTo \in Holders \cup {None} /\ p.burnFee \in 0..BasisPoints
  <2>1. p \in [transfers : BOOLEAN, labels : BOOLEAN, coin : Coins \cup {None},
               fee : Nat, burnTo : Holders \cup {None}, burnFee : Nat]
    BY ChoicesAssumption
  <2> DEFINE b == p.burnFee
  <2>2. b \in Nat /\ b <= BasisPoints
    BY <2>1
  <2>3. b \in 0..BasisPoints
    <3> HIDE DEF b
    <3> QED
      BY <2>2 DEF BasisPoints
  <2> QED
    BY <2>1, <2>3
<1>3. [s EXCEPT ![r].transfers = p.transfers, ![r].labels = p.labels, ![r].coin = p.coin] = t
  BY <1>1
<1>4. m1 \in Registry /\ Same(m1, n)
  <2> HIDE DEF n
  <2> QED
    BY <1>1, <1>2 DEF Registry, Same
<1>5. Keeps(s, t) /\ Calm(s, t, r) /\ t \in [Registries -> Registry] /\ t[r] = m1
  <2> HIDE DEF m1
  <2> QED
    BY <1>1, <1>4, PutSame
<1> HIDE DEF m1
<1>6. m2 \in Registry /\ Same(m2, m1)
  BY <1>2, <1>4 DEF Registry, Same
<1> HIDE DEF t
<1>7. LET v == [t EXCEPT ![r] = m2] IN Keeps(t, v) /\ Calm(t, v, r)
  <2> HIDE DEF m2
  <2> QED
    BY <1>5, <1>6, PutSame DEF Keeps
<1>8. [t EXCEPT ![r].fee = p.fee, ![r].burnTo = p.burnTo, ![r].burnFee = p.burnFee]
      = [t EXCEPT ![r] = m2]
  BY <1>5
<1> DEFINE v == [t EXCEPT ![r].fee = p.fee, ![r].burnTo = p.burnTo, ![r].burnFee = p.burnFee]
<1>9. Keeps(t, v) /\ Calm(t, v, r)
  BY <1>7, <1>8
<1> HIDE DEF v
<1>10. Keeps(s, v) /\ Calm(s, v, r)
  BY <1>5, <1>9, KeepsBoth, CalmBoth
<1> QED
  BY <1>3, <1>10 DEF v

LEMMA RootKeeps ==
    ASSUME NEW s, NEW r \in Registries, NEW root \in SUBSET Registrations,
           NEW freeze \in BOOLEAN, AllGood(s)
    PROVE  LET t == [s EXCEPT ![r].root = root, ![r].frozen = freeze] IN Keeps(s, t) /\ Calm(s, t, r)
<1> DEFINE n == s[r]
           m == [n EXCEPT !.root = root, !.frozen = freeze]
<1>1. s \in [Registries -> Registry] /\ n \in Registry
  BY DEF AllGood
<1>2. [s EXCEPT ![r].root = root, ![r].frozen = freeze] = [s EXCEPT ![r] = m]
  BY <1>1
<1>3. m \in Registry /\ Same(m, n)
  <2> HIDE DEF n
  <2> QED
    BY <1>1, RootSet
<1> HIDE DEF m
<1> QED
  BY <1>2, <1>3, PutSame

LEMMA PrimaryKeeps ==
    ASSUME NEW s, NEW r \in Registries, NEW p \in Registries \cup {None}, AllGood(s)
    PROVE  LET t == [s EXCEPT ![r].primary = p] IN Keeps(s, t) /\ Calm(s, t, r)
<1> DEFINE n == s[r]
           m == [n EXCEPT !.primary = p]
<1>1. s \in [Registries -> Registry] /\ n \in Registry
  BY DEF AllGood
<1>2. [s EXCEPT ![r].primary = p] = [s EXCEPT ![r] = m]
  BY <1>1
<1>3. m \in Registry /\ Same(m, n)
  <2> HIDE DEF n
  <2> QED
    BY <1>1 DEF Registry, Same
<1> HIDE DEF m
<1> QED
  BY <1>2, <1>3, PutSame

LEMMA RegistrarsKeep ==
    ASSUME NEW s, NEW r \in Registries, NEW a \in SUBSET (Users \cup Modules), AllGood(s)
    PROVE  LET t == [s EXCEPT ![r].registrars = a] IN Keeps(s, t) /\ Calm(s, t, r)
<1> DEFINE n == s[r]
           m == [n EXCEPT !.registrars = a]
<1>1. s \in [Registries -> Registry] /\ n \in Registry
  BY DEF AllGood
<1>2. [s EXCEPT ![r].registrars = a] = [s EXCEPT ![r] = m]
  BY <1>1
<1>3. m \in Registry /\ Same(m, n)
  <2> HIDE DEF n
  <2> QED
    BY <1>1 DEF Registry, Same
<1> HIDE DEF m
<1> QED
  BY <1>2, <1>3, PutSame

LEMMA OperatorsKeep ==
    ASSUME NEW s, NEW r \in Registries, NEW a \in SUBSET (Users \X (Users \cup Modules)),
           AllGood(s)
    PROVE  LET t == [s EXCEPT ![r].operators = a] IN Keeps(s, t) /\ Calm(s, t, r)
<1> DEFINE n == s[r]
           m == [n EXCEPT !.operators = a]
<1>1. s \in [Registries -> Registry] /\ n \in Registry
  BY DEF AllGood
<1>2. [s EXCEPT ![r].operators = a] = [s EXCEPT ![r] = m]
  BY <1>1
<1>3. m \in Registry /\ Same(m, n)
  <2> HIDE DEF n
  <2> QED
    BY <1>1 DEF Registry, Same
<1> HIDE DEF m
<1> QED
  BY <1>2, <1>3, PutSame

LEMMA ApprovedKeeps ==
    ASSUME NEW s, NEW r \in Registries, NEW id \in Ids, NEW a \in Users \cup Modules, AllGood(s)
    PROVE  LET t == [s EXCEPT ![r].approved[id] = a] IN Keeps(s, t) /\ Calm(s, t, r)
<1> DEFINE n == s[r]
           m == [n EXCEPT !.approved[id] = a]
<1>1. s \in [Registries -> Registry] /\ n \in Registry
  BY DEF AllGood
<1>2. [s EXCEPT ![r].approved[id] = a] = [s EXCEPT ![r] = m]
  BY <1>1
<1>3. m \in Registry /\ Same(m, n)
  <2> HIDE DEF n
  <2> QED
    BY <1>1 DEF Registry, Same
<1> HIDE DEF m
<1> QED
  BY <1>2, <1>3, PutSame

-----------------------------------------------------------------------------
(* The calls. *)

LEMMA RegisterKeeps ==
    ASSUME Inv, NEW c, NEW r \in Registries, NEW e \in Registrations, Register(c, r, e)
    PROVE  Keeps(nfr, nfr') /\ Calm(nfr, nfr', r)
BY CreatedKeeps DEF Inv, Register

\* The fee is enough for the part of it that goes on.
LEMMA BurnInFee ==
    ASSUME NEW n \in Registry
    PROVE  BurnAmount(n) \in 0..n.fee
<1> DEFINE f == n.fee
           b == n.burnFee
           p == f * b
<1>1. f \in Nat /\ b \in 0..10000
  BY DEF Registry, BasisPoints
<1>2. BurnAmount(n) = p \div 10000
  BY DEF BurnAmount, BasisPoints
<1> HIDE DEF f, b
<1>3. p \in Nat /\ p <= f * 10000
  BY <1>1
<1> HIDE DEF p
<1>4. p \div 10000 \in 0..f
  BY <1>1, <1>3
<1> QED
  BY <1>2, <1>4 DEF f

LEMMA StakeLeft ==
    ASSUME NEW n \in Registry
    PROVE  n.coin \in Coins \cup {None} /\ n.fee - BurnAmount(n) \in Nat
<1>1. n.coin \in Coins \cup {None} /\ n.fee \in Nat
  BY DEF Registry
<1> QED
  BY <1>1, BurnInFee

LEMMA RegisterByTokenKeeps ==
    ASSUME Inv, NEW c, NEW r \in Registries, NEW e \in Registrations, RegisterByToken(c, r, e)
    PROVE  Keeps(nfr, nfr')
<1> DEFINE n == nfr[r]
           t == Created(nfr, r, e)
           a == n.fee - BurnAmount(n)
<1>1. Keeps(nfr, t) /\ t[r].owner[e.id] # None
  BY CreatedKeeps DEF Inv, RegisterByToken
<1>2. n \in Registry /\ e.id \in Ids /\ AllGood(t)
  BY <1>1 DEF Inv, AllGood, Registrations, Keeps
<1>3. n.coin \in Coins \cup {None} /\ a \in Nat
  BY <1>2, StakeLeft
<1>4. nfr' = Staked(t, r, e.id, n.coin, a)
  BY DEF RegisterByToken
<1>5. Keeps(t, nfr')
  <2> HIDE DEF t, a, n
  <2> QED
    BY <1>1, <1>2, <1>3, <1>4, StakeKeeps
<1> QED
  BY <1>1, <1>5, KeepsBoth

LEMMA UpdateLabelKeeps ==
    ASSUME Inv, NEW c, NEW r \in Registries, NEW id \in Ids, NEW l \in Labels \cup {Empty},
           UpdateLabel(c, r, id, l)
    PROVE  Keeps(nfr, nfr') /\ Calm(nfr, nfr', r)
BY RelabelKeeps DEF Inv, UpdateLabel, MayAct, MappingExists

LEMMA TransferFromKeeps ==
    ASSUME Inv, NEW c, NEW r \in Registries, NEW u \in Users, NEW id \in Ids,
           TransferFrom(c, r, u, id)
    PROVE  Keeps(nfr, nfr')
BY TransferKeeps DEF Inv, TransferFrom

LEMMA BurnCallKeeps ==
    ASSUME Inv, NEW c, NEW r \in Registries, NEW id \in Ids, Burn(c, r, id)
    PROVE  Keeps(nfr, nfr')
BY BurnKeeps DEF Inv, Burn

LEMMA ApproveTokenKeeps ==
    ASSUME Inv, NEW c, NEW r \in Registries, NEW a \in Users \cup Modules, NEW id \in Ids,
           ApproveToken(c, r, a, id)
    PROVE  Keeps(nfr, nfr') /\ Calm(nfr, nfr', r)
BY ApprovedKeeps DEF Inv, ApproveToken

LEMMA SetApprovalForAllKeeps ==
    ASSUME Inv, NEW c, NEW r \in Registries, NEW a \in Users \cup Modules, NEW may \in BOOLEAN,
           SetApprovalForAll(c, r, a, may)
    PROVE  Keeps(nfr, nfr') /\ Calm(nfr, nfr', r)
<1>1. PICK o : o = IF may THEN nfr[r].operators \cup {<<c, a>>}
                   ELSE nfr[r].operators \ {<<c, a>>}
  OBVIOUS
<1>2. nfr \in [Registries -> Registry] /\ <<c, a>> \in Users \X (Users \cup Modules)
  BY ChoicesAssumption DEF Inv, AllGood, SetApprovalForAll
<1>3. o \in SUBSET (Users \X (Users \cup Modules))
  <2>1. nfr[r].operators \in SUBSET (Users \X (Users \cup Modules))
    BY <1>2 DEF Registry
  <2> QED
    BY <1>1, <1>2, <2>1
<1>4. nfr' = [nfr EXCEPT ![r].operators = o]
  BY <1>1, <1>2 DEF SetApprovalForAll
<1> QED
  BY <1>3, <1>4, OperatorsKeep DEF Inv

LEMMA SetRegistrarKeeps ==
    ASSUME Inv, NEW c, NEW r \in Registries, NEW a \in Grantees, NEW may \in BOOLEAN,
           SetRegistrar(c, r, a, may)
    PROVE  Keeps(nfr, nfr') /\ Calm(nfr, nfr', r)
<1>1. PICK o : o = IF may THEN nfr[r].registrars \cup {a} ELSE nfr[r].registrars \ {a}
  OBVIOUS
<1>2. nfr \in [Registries -> Registry] /\ a \in Users \cup Modules
  BY ChoicesAssumption DEF Inv, AllGood
<1>3. o \in SUBSET (Users \cup Modules)
  <2>1. nfr[r].registrars \in SUBSET (Users \cup Modules)
    BY <1>2 DEF Registry
  <2> QED
    BY <1>1, <1>2, <2>1
<1>4. nfr' = [nfr EXCEPT ![r].registrars = o]
  BY <1>1, <1>2 DEF SetRegistrar
<1> QED
  BY <1>3, <1>4, RegistrarsKeep DEF Inv

LEMMA SetParametersKeeps ==
    ASSUME Inv, NEW c, NEW r \in Registries, NEW p \in Params, SetRegistryParameters(c, r, p)
    PROVE  Keeps(nfr, nfr') /\ Calm(nfr, nfr', r)
BY ParamsKeep DEF Inv, SetRegistryParameters

LEMMA SetMerkleRootKeeps ==
    ASSUME Inv, NEW c, NEW r \in Registries, NEW root \in SUBSET Registrations,
           NEW freeze \in BOOLEAN, SetMerkleRoot(c, r, root, freeze)
    PROVE  Keeps(nfr, nfr') /\ Calm(nfr, nfr', r)
BY RootKeeps DEF Inv, SetMerkleRoot

LEMMA SetPrimaryKeeps ==
    ASSUME Inv, NEW c, NEW r \in Registries, NEW p \in Registries \cup {None},
           SetPrimaryRegistry(c, r, p)
    PROVE  Keeps(nfr, nfr') /\ Calm(nfr, nfr', r)
BY PrimaryKeeps DEF Inv, SetPrimaryRegistry

LEMMA BatchKeeps ==
    ASSUME Inv, NEW c, NEW r \in Registries, NEW b \in Registrations \X Registrations,
           BatchRegister(c, r, b)
    PROVE  Keeps(nfr, nfr') /\ Calm(nfr, nfr', r)
<1> DEFINE one == Created(nfr, r, b[1])
<1>1. b[1] \in Registrations /\ b[2] \in Registrations
  OBVIOUS
<1>2. /\ CanCreate(nfr, r, "batch", b[1]) /\ CanCreate(one, r, "batch", b[2])
      /\ nfr' = Created(one, r, b[2])
  BY DEF BatchRegister
<1>3. Keeps(nfr, one) /\ Calm(nfr, one, r)
  BY <1>1, <1>2, CreatedKeeps DEF Inv
<1>4. AllGood(one)
  BY <1>3 DEF Keeps
<1>5. Keeps(one, nfr') /\ Calm(one, nfr', r)
  <2> HIDE DEF one
  <2> QED
    BY <1>1, <1>2, <1>4, CreatedKeeps
<1> QED
  BY <1>3, <1>5, KeepsBoth, CalmBoth

LEMMA BulkTransferKeeps ==
    ASSUME Inv, NEW c, NEW r \in Registries, NEW u, NEW to \in Users, NEW ids \in SUBSET Ids,
           BulkTransfer(c, r, u, to, ids)
    PROVE  /\ Keeps(nfr, nfr') /\ Elsewhere(nfr, nfr', r) /\ nfr'[r].stake = nfr[r].stake
           /\ \A id \in Ids \ ids : nfr'[r].owner[id] = nfr[r].owner[id]
<1> DEFINE n == nfr[r]
           ow == [id \in Ids |-> IF id \in ids THEN to ELSE n.owner[id]]
           ap == [id \in Ids |-> IF id \in ids THEN None ELSE n.approved[id]]
           m == [n EXCEPT !.owner = ow, !.approved = ap]
<1>1. nfr \in [Registries -> Registry] /\ n \in Registry /\ Good(n) /\ None \notin Users
  BY RegistriesAssumption DEF Inv, AllGood
<1>2. ow \in [Ids -> Users \cup {None}] /\ ap \in [Ids -> Users \cup Modules \cup {None}]
  <2>1. n.owner \in [Ids -> Users \cup {None}] /\ n.approved \in [Ids -> Users \cup Modules \cup {None}]
    BY <1>1 DEF Registry
  <2> QED
    BY <2>1
<1>3. nfr' = [nfr EXCEPT ![r] = m]
  BY <1>1 DEF BulkTransfer, TransferredAll
<1> HIDE DEF ow, ap
<1>4. /\ m \in Registry /\ m.owner = ow
      /\ m.label = n.label /\ m.idOf = n.idOf /\ m.stake = n.stake
      /\ m.made = n.made /\ m.name = n.name
  <2>1. n \in Registry
    BY <1>1
  <2> HIDE DEF n
  <2> QED
    BY <1>2, <2>1 DEF Registry
<1> HIDE DEF m
<1>5. \A id \in Ids : ow[id] = IF id \in ids THEN to ELSE n.owner[id]
  BY DEF ow
<1>6. Good(m)
  BY <1>1, <1>4, <1>5 DEF Good
<1> DEFINE t == [nfr EXCEPT ![r] = m]
<1>7. Keeps(nfr, t) /\ Elsewhere(nfr, t, r) /\ t[r] = m
  BY <1>4, <1>6, Put DEF Inv
<1> HIDE DEF t
<1> QED
  BY <1>3, <1>4, <1>5, <1>7 DEF t

LEMMA BuyKeeps ==
    ASSUME Inv, NEW c \in Users, NEW r \in Registries, NEW id \in Ids, BuyNFI(c, r, id)
    PROVE  Keeps(nfr, nfr')
BY TransferKeeps DEF Inv, BuyNFI

LEMMA LazyRegisterKeeps ==
    ASSUME Inv, NEW c, NEW r \in Registries, NEW e \in Registrations, LazyRegister(c, r, e)
    PROVE  Keeps(nfr, nfr') /\ Calm(nfr, nfr', r)
BY CreatedKeeps DEF Inv, LazyRegister

LEMMA RedeemKeeps ==
    ASSUME Inv, NEW c, NEW r \in Registries, NEW e \in Registrations, Redeem(c, r, e)
    PROVE  Keeps(nfr, nfr') /\ Calm(nfr, nfr', r)
BY CreatedKeeps DEF Inv, Redeem

-----------------------------------------------------------------------------
(* The factory, and the steps. *)

LEMMA NewIsGood ==
    ASSUME NEW name \in Names \cup {None}, NEW u \in Users \cup Modules,
           NEW p \in Registries \cup {None}
    PROVE  LET n == New(name, u, p) IN Good(n) /\ n.made /\ n.name = name
<1> DEFINE n == New(name, u, p)
<1>1. /\ n.owner = [i \in Ids |-> None] /\ n.label = [i \in Ids |-> Empty]
      /\ n.idOf = [l \in Labels \cup {Empty} |-> None]
      /\ n.stake = [i \in Ids |-> NoStake] /\ n.made /\ n.name = name
  BY DEF New
<1>2. n \in Registry
  BY RegistriesAssumption, AmountsAssumption DEF New, Registry, NoStake, BasisPoints, Holders
<1>3. None \notin Ids /\ Empty \notin Labels /\ NoStake.amount = 0
  BY RegistriesAssumption DEF NoStake
<1> HIDE DEF n
<1>4. Good(n)
  BY <1>1, <1>2, <1>3 DEF Good
<1> QED
  BY <1>1, <1>4 DEF n

\* What keeps the records, and leaves the names of the factory alone.
LEMMA InvKeeps ==
    ASSUME Inv, Keeps(nfr, nfr'), factory' \in Factory, factory'.names = factory.names
    PROVE  Inv'
BY DEF Inv, Keeps, NamesResolve

LEMMA InvSame ==
    ASSUME Inv, nfr' = nfr, factory' \in Factory, factory'.names = factory.names
    PROVE  Inv'
BY DEF Inv, NamesResolve

\* A registry that was not made has no name, so that the new one is alone with its.
LEMMA MakeInv ==
    ASSUME Inv, NEW r \in Registries, NEW name \in Names,
           NEW u \in Users \cup Modules, Make(r, name, u)
    PROVE  Inv'
<1> DEFINE n == New(name, u, factory.profiles)
<1>1. /\ nfr \in [Registries -> Registry] /\ \A q \in Registries : Good(nfr[q])
      /\ factory \in Factory /\ NamesResolve /\ None \notin Registries
  BY RegistriesAssumption DEF Inv, AllGood
<1>2. Good(n) /\ n.made /\ n.name = name /\ n \in Registry
  <2>1. factory.profiles \in Registries \cup {None}
    BY <1>1 DEF Factory
  <2>2. Good(n) /\ n.made /\ n.name = name
    BY <2>1, NewIsGood
  <2> QED
    BY <2>2 DEF Good
<1>3. /\ ~nfr[r].made /\ factory.names[name] = None
      /\ nfr' = [nfr EXCEPT ![r] = n] /\ factory' = [factory EXCEPT !.names[name] = r]
  BY DEF Make, CanMake
<1> HIDE DEF n
<1>4. /\ nfr' \in [Registries -> Registry]
      /\ \A q \in Registries : nfr'[q] = IF q = r THEN n ELSE nfr[q]
  BY <1>1, <1>2, <1>3
<1>5. /\ factory' \in Factory
      /\ \A k \in Names : factory'.names[k] = IF k = name THEN r ELSE factory.names[k]
  BY <1>1, <1>3 DEF Factory
<1>6. AllGood(nfr')
  BY <1>1, <1>2, <1>4 DEF AllGood
<1>7. NamesResolve'
  <2> SUFFICES ASSUME NEW q \in Registries, NEW k \in Names
               PROVE  factory'.names[k] = q <=> (nfr'[q].made /\ nfr'[q].name = k)
    BY DEF NamesResolve
  <2>1. factory.names[k] = q <=> (nfr[q].made /\ nfr[q].name = k)
    BY <1>1 DEF NamesResolve
  <2>2. ~(nfr[q].made /\ nfr[q].name = name)
    BY <1>1, <1>3 DEF NamesResolve
  <2>3. factory.names[k] # r
    BY <1>1, <1>3 DEF NamesResolve
  <2> QED
    BY <1>2, <1>4, <1>5, <2>1, <2>2, <2>3
<1> QED
  BY <1>5, <1>6, <1>7 DEF Inv

LEMMA FactoryCallInv ==
    ASSUME Inv, NEW c \in Users, FactoryCall(c)
    PROVE  Inv'
<1>0. Users \cup Grantees \subseteq Users \cup Modules
  BY ChoicesAssumption
<1>1. ASSUME NEW r \in Registries, NEW name \in Names, NEW a \in Users \cup Grantees,
             CreateRegistry(c, r, name, a) \/ CreateRegistryByToken(c, r, name, a)
      PROVE  Inv'
  <2>1. a \in Users \cup Modules /\ Make(r, name, a)
    BY <1>0, <1>1 DEF CreateRegistry, CreateRegistryByToken
  <2> QED
    BY <2>1, MakeInv
<1>2. ASSUME NEW q \in Registries \cup {None}, SetProfileRegistryAddress(c, q)
      PROVE  Inv'
  <2>1. nfr' = nfr /\ factory' = [factory EXCEPT !.profiles = q] /\ factory \in Factory
    BY <1>2 DEF SetProfileRegistryAddress, Inv
  <2>2. factory' \in Factory /\ factory'.names = factory.names
    BY <2>1 DEF Factory
  <2> QED
    BY <2>1, <2>2, InvSame
<1>3. ASSUME NEW p \in Params, \/ SetRegistrationToken(c, p.coin)
                              \/ SetRegistrationFee(c, p.fee) \/ SetBurnAddress(c, p.burnTo)
      PROVE  Inv'
  <2>1. PICK x \in Coins \cup {None}, n \in Nat, h \in Holders \cup {None} :
            x = p.coin /\ n = p.fee /\ h = p.burnTo
    BY ChoicesAssumption
  <2>2. /\ nfr' = nfr /\ factory \in Factory
        /\ \/ factory' = [factory EXCEPT !.coin = x]
           \/ factory' = [factory EXCEPT !.fee = n]
           \/ factory' = [factory EXCEPT !.burnTo = h]
    BY <1>3, <2>1 DEF SetRegistrationToken, SetRegistrationFee, SetBurnAddress, Inv
  <2>3. factory' \in Factory /\ factory'.names = factory.names
    BY <2>2 DEF Factory
  <2> QED
    BY <2>2, <2>3, InvSame
<1> QED
  BY <1>1, <1>2, <1>3 DEF FactoryCall

LEMMA TokenCallKeeps ==
    ASSUME Inv, NEW c \in Users, NEW r \in Registries, TokenCall(c, r)
    PROVE  Keeps(nfr, nfr') /\ factory' = factory
<1>1. \A e \in Entries : e \in Registrations /\ e.label \in Labels \cup {Empty}
  BY ChoicesAssumption DEF Registrations
<1>2. ASSUME NEW e \in Entries, Register(c, r, e) \/ RegisterByToken(c, r, e)
      PROVE  Keeps(nfr, nfr') /\ factory' = factory
  BY <1>1, <1>2, RegisterKeeps, RegisterByTokenKeeps DEF Register, RegisterByToken
<1>3. ASSUME NEW id \in Ids, Burn(c, r, id)
      PROVE  Keeps(nfr, nfr') /\ factory' = factory
  BY <1>3, BurnCallKeeps DEF Burn
<1>4. ASSUME NEW id \in Ids, NEW e \in Entries, UpdateLabel(c, r, id, e.label)
      PROVE  Keeps(nfr, nfr') /\ factory' = factory
  BY <1>1, <1>4, UpdateLabelKeeps DEF UpdateLabel
<1>5. ASSUME NEW id \in Ids, NEW u \in Users, TransferFrom(c, r, u, id)
      PROVE  Keeps(nfr, nfr') /\ factory' = factory
  BY <1>5, TransferFromKeeps DEF TransferFrom
<1>6. ASSUME NEW id \in Ids, NEW a \in Users \cup Modules, ApproveToken(c, r, a, id)
      PROVE  Keeps(nfr, nfr') /\ factory' = factory
  BY <1>6, ApproveTokenKeeps DEF ApproveToken
<1>7. ASSUME NEW a \in Users \cup Modules, NEW may \in BOOLEAN,
             SetApprovalForAll(c, r, a, may)
      PROVE  Keeps(nfr, nfr') /\ factory' = factory
  BY <1>7, SetApprovalForAllKeeps DEF SetApprovalForAll
<1> QED
  BY <1>2, <1>3, <1>4, <1>5, <1>6, <1>7 DEF TokenCall

LEMMA RegistrarCallKeeps ==
    ASSUME Inv, NEW c \in Users, NEW r \in Registries, RegistrarCall(c, r)
    PROVE  Keeps(nfr, nfr') /\ factory' = factory
<1>1. ASSUME NEW p \in Params, SetRegistryParameters(c, r, p)
      PROVE  Keeps(nfr, nfr') /\ factory' = factory
  BY <1>1, SetParametersKeeps DEF SetRegistryParameters
<1>2. ASSUME NEW p \in Registries \cup {None}, SetPrimaryRegistry(c, r, p)
      PROVE  Keeps(nfr, nfr') /\ factory' = factory
  BY <1>2, SetPrimaryKeeps DEF SetPrimaryRegistry
<1>3. ASSUME NEW a \in Grantees, NEW may \in BOOLEAN, SetRegistrar(c, r, a, may)
      PROVE  Keeps(nfr, nfr') /\ factory' = factory
  BY <1>3, SetRegistrarKeeps DEF SetRegistrar
<1> QED
  BY <1>1, <1>2, <1>3 DEF RegistrarCall

LEMMA ModuleCallKeeps ==
    ASSUME Inv, NEW c \in Users, NEW r \in Registries, ModuleCall(c, r)
    PROVE  Keeps(nfr, nfr') /\ factory' = factory
<1>1. ASSUME NEW u \in Users, NEW v \in Users, NEW ids \in SUBSET Ids \ {{}},
             BulkTransfer(c, r, u, v, ids)
      PROVE  Keeps(nfr, nfr') /\ factory' = factory
  BY <1>1, BulkTransferKeeps DEF BulkTransfer
<1>2. ASSUME NEW id \in Ids, BuyNFI(c, r, id)
      PROVE  Keeps(nfr, nfr') /\ factory' = factory
  BY <1>2, BuyKeeps DEF BuyNFI
<1> QED
  BY <1>1, <1>2 DEF ModuleCall

LEMMA MintCallKeeps ==
    ASSUME Inv, NEW c \in Users, NEW r \in Registries, Mint(c, r)
    PROVE  Keeps(nfr, nfr') /\ factory' = factory
<1>1. \A b \in Batches : b \in Registrations \X Registrations
  BY ChoicesAssumption
<1>2. Offered \subseteq Registrations
  BY <1>1 DEF Offered
<1>3. ASSUME NEW b \in Batches, BatchRegister(c, r, b)
      PROVE  Keeps(nfr, nfr') /\ factory' = factory
  BY <1>1, <1>3, BatchKeeps DEF BatchRegister
<1>4. ASSUME NEW e \in Offered, LazyRegister(c, r, e) \/ Redeem(c, r, e)
      PROVE  Keeps(nfr, nfr') /\ factory' = factory
  BY <1>2, <1>4, LazyRegisterKeeps, RedeemKeeps DEF LazyRegister, Redeem
<1>5. ASSUME NEW root \in {{}, Offered}, NEW freeze \in BOOLEAN,
             SetMerkleRoot(c, r, root, freeze)
      PROVE  Keeps(nfr, nfr') /\ factory' = factory
  BY <1>2, <1>5, SetMerkleRootKeeps DEF SetMerkleRoot
<1> QED
  BY <1>3, <1>4, <1>5 DEF Mint

LEMMA CallInv ==
    ASSUME Inv, NEW c \in Users, Call(c)
    PROVE  Inv'
<1>1. factory \in Factory
  BY DEF Inv
<1>2. ASSUME NEW r \in Registries,
             TokenCall(c, r) \/ RegistrarCall(c, r) \/ ModuleCall(c, r) \/ Mint(c, r)
      PROVE  Inv'
  <2>1. Keeps(nfr, nfr') /\ factory' = factory
    BY <1>2, TokenCallKeeps, RegistrarCallKeeps, ModuleCallKeeps, MintCallKeeps
  <2> QED
    BY <1>1, <2>1, InvKeeps
<1>3. CASE FactoryCall(c)
  BY <1>3, FactoryCallInv
<1>4. ASSUME NEW a \in Allowances, Approve(c, a[2], a[3], a[4])
      PROVE  Inv'
  <2>1. nfr' = nfr /\ factory' = factory
    BY <1>4 DEF Approve
  <2> QED
    BY <1>1, <2>1, InvSame
<1>5. ASSUME NEW e \in Offered, SignEntry(c, e)
      PROVE  Inv'
  <2>1. nfr' = nfr /\ factory' = factory
    BY <1>5 DEF SignEntry
  <2> QED
    BY <1>1, <2>1, InvSame
<1>6. ASSUME NEW g \in Gifts, SendCoins(c, g[2], g[3], g[4])
      PROVE  Inv'
  <2>1. nfr' = nfr /\ factory' = factory
    BY <1>6 DEF SendCoins
  <2> QED
    BY <1>1, <2>1, InvSame
<1> QED
  BY <1>2, <1>3, <1>4, <1>5, <1>6 DEF Call

LEMMA InitInv ==
    ASSUME Init
    PROVE  Inv
<1>1. /\ Admin \in Users /\ First \in Registries /\ FirstName \in Names
      /\ None \notin Registries
  BY RegistriesAssumption
<1> DEFINE n0 == New(None, Admin, None)
           m0 == [n0 EXCEPT !.made = FALSE]
           n1 == New(FirstName, Admin, None)
<1>2. Good(n1) /\ n1.made /\ n1.name = FirstName
  BY <1>1, NewIsGood
<1>3. Good(n0) /\ n0.name = None
  BY <1>1, NewIsGood
<1>4. nfr = [r \in Registries |-> IF r = First THEN n1 ELSE m0]
  BY DEF Init
<1> HIDE DEF n0, n1
<1>5. Good(m0) /\ ~m0.made
  <2>1. n0 \in Registry
    BY <1>3 DEF Good
  <2>2. /\ m0 \in Registry /\ ~m0.made /\ m0.owner = n0.owner /\ m0.label = n0.label
        /\ m0.idOf = n0.idOf /\ m0.stake = n0.stake
    BY <2>1 DEF Registry
  <2> HIDE DEF m0
  <2> QED
    BY <1>3, <2>2 DEF Good
<1> HIDE DEF m0
<1>6. AllGood(nfr)
  BY <1>2, <1>4, <1>5 DEF AllGood, Good
<1>7. /\ factory.names = [k \in Names |-> IF k = FirstName THEN First ELSE None]
      /\ factory \in Factory
  BY <1>1, AmountsAssumption DEF Init, Factory, Holders
<1>8. NamesResolve
  BY <1>1, <1>2, <1>4, <1>5, <1>7 DEF NamesResolve
<1> QED
  BY <1>6, <1>7, <1>8 DEF Inv

\* Every registry keeps a good record, and the factory's names lead to registries
\* that were made under them: the invariant of which the others are parts.
THEOREM RecordsStayGood == Spec => []Inv
<1>1. Init => Inv
  BY InitInv
<1>2. Inv /\ [Next]_vars => Inv'
  <2> SUFFICES ASSUME Inv, [Next]_vars PROVE Inv'
    OBVIOUS
  <2>1. CASE Next
    BY <2>1, CallInv DEF Next
  <2>2. CASE UNCHANGED vars
    BY <2>2, InvSame DEF vars, Inv
  <2> QED
    BY <2>1, <2>2
<1> QED
  BY <1>1, <1>2, PTL DEF Spec

\* The two mappings of a registry's labels agree (registryMap and reverseRegistryMap),
\* whatever is registered, relabeled, transferred and burned, in whatever order.
THEOREM LabelsStayInverse == Spec => []LabelsAgree
<1>1. Inv => LabelsAgree
  BY DEF Inv, AllGood, Good, LabelsAgree
<1> QED
  BY <1>1, RecordsStayGood, PTL

\* Only a token that exists has a stake, for any fees and burn shares, and whoever
\* transfers or burns it.
THEOREM StakesHaveOwners == Spec => []StakesOwned
<1>1. Inv => StakesOwned
  BY DEF Inv, AllGood, Good, StakesOwned
<1> QED
  BY <1>1, RecordsStayGood, PTL

\* A name of the factory leads to the one registry made under it.
THEOREM NamesLeadHome == Spec => []NamesResolve
<1>1. Inv => NamesResolve
  BY DEF Inv
<1> QED
  BY <1>1, RecordsStayGood, PTL

-----------------------------------------------------------------------------
(***************************************************************************)
(* Coins and stakes.  A registry's balance is no less than the sum of its  *)
(* stakes: the calls that change neither are calm, one that stakes or      *)
(* burns changes one stake, and the balance by as much or leaves more, and *)
(* no coin leaves a registry otherwise.                                    *)
(***************************************************************************)

Stakes == [coin : Coins \cup {None}, amount : Nat]

CoinsInv ==
    /\ balance \in [Coins -> [Holders -> Nat]]
    /\ allowance \in [Coins -> [Users -> [Spenders -> Nat]]]

\* A stake is in some coin, if it is not 0.
StakesInv ==
    /\ StakesBacked
    /\ \A r \in Registries, id \in Ids :
           nfr[r].stake[id].amount > 0 => nfr[r].stake[id].coin \in Coins

\* Tokens are only minted by registries that were made.
MadeInv == \A r \in Registries, id \in Ids : nfr[r].owner[id] # None => nfr[r].made

\* What a stake is worth in coin x.
Worth(w, x) == IF w.coin = x THEN w.amount ELSE 0

\* No registry loses coins.
RegistriesKeep ==
    \A x \in Coins, q \in Registries : balance'[x][q] >= balance[x][q]

LEMMA StakesInType ==
    ASSUME nfr \in [Registries -> Registry], NEW r \in Registries, NEW x
    PROVE  /\ nfr[r].stake \in [Ids -> Stakes]
           /\ StakesIn(r, x) \in [Ids -> Nat]
           /\ \A id \in Ids : StakesIn(r, x)[id] = Worth(nfr[r].stake[id], x)
<1>1. nfr[r].stake \in [Ids -> Stakes]
  BY DEF Registry, Stakes
<1>2. \A id \in Ids : Worth(nfr[r].stake[id], x) \in Nat
  BY <1>1 DEF Worth, Stakes
<1>3. StakesIn(r, x) = [id \in Ids |-> Worth(nfr[r].stake[id], x)]
  BY DEF StakesIn, Worth
<1> QED
  BY <1>1, <1>2, <1>3

LEMMA SumOfStakes ==
    ASSUME nfr \in [Registries -> Registry], NEW r \in Registries, NEW x
    PROVE  SumFunction(StakesIn(r, x)) \in Nat
<1> DEFINE f == StakesIn(r, x)
<1>1. f \in [Ids -> Nat]
  BY StakesInType
<1> HIDE DEF f
<1>2. SumFunction(f) \in Nat
  BY <1>1, RegistriesAssumption, SumIsLarge
<1> QED
  BY <1>2 DEF f

\* The same stakes stay backed by no less.
LEMMA BackedByMore ==
    ASSUME Inv, CoinsInv, CoinsInv', StakesInv, RegistriesKeep,
           NEW q \in Registries, NEW x \in Coins, StakesIn(q, x)' = StakesIn(q, x)
    PROVE  balance'[x][q] >= SumFunction(StakesIn(q, x)')
<1>1. SumFunction(StakesIn(q, x)) \in Nat
  BY SumOfStakes DEF Inv, AllGood
<1>2. balance[x][q] \in Nat /\ balance'[x][q] \in Nat
  BY DEF CoinsInv, Holders
<1>3. balance[x][q] >= SumFunction(StakesIn(q, x)) /\ balance'[x][q] >= balance[x][q]
  BY DEF StakesInv, StakesBacked, RegistriesKeep
<1>4. balance'[x][q] >= SumFunction(StakesIn(q, x))
  BY <1>1, <1>2, <1>3
<1> QED
  BY <1>4

LEMMA StakesRest ==
    ASSUME Inv, CoinsInv, CoinsInv', StakesInv, RegistriesKeep,
           \A q \in Registries : nfr'[q].stake = nfr[q].stake
    PROVE  StakesInv'
<1>1. \A q \in Registries, x \in Coins : StakesIn(q, x)' = StakesIn(q, x)
  BY DEF StakesIn
<1>2. StakesBacked'
  BY <1>1, BackedByMore DEF StakesBacked
<1> QED
  BY <1>2 DEF StakesInv

\* One stake of registry r changes, and its balance by no less than the difference.
LEMMA StakeChanges ==
    ASSUME Inv, CoinsInv, CoinsInv', StakesInv, NEW r \in Registries, NEW id \in Ids,
           NEW w \in Stakes, Keeps(nfr, nfr'), Elsewhere(nfr, nfr', r),
           \A i \in Ids : nfr'[r].stake[i] = IF i = id THEN w ELSE nfr[r].stake[i],
           w.amount > 0 => w.coin \in Coins,
           \A x \in Coins, q \in Registries :
               balance'[x][q] >= balance[x][q]
                   + (IF q = r THEN Worth(w, x) - Worth(nfr[r].stake[id], x) ELSE 0)
    PROVE  StakesInv'
<1> DEFINE old == nfr[r].stake[id]
<1>1. nfr \in [Registries -> Registry] /\ nfr' \in [Registries -> Registry]
  BY DEF Inv, Keeps, AllGood
<1>2. nfr[r].stake \in [Ids -> Stakes] /\ old \in Stakes
  BY <1>1, StakesInType
<1>3. ASSUME NEW q \in Registries, NEW x \in Coins
      PROVE  balance'[x][q] >= SumFunction(StakesIn(q, x)')
  <2>1. /\ balance[x][q] >= SumFunction(StakesIn(q, x)) /\ SumFunction(StakesIn(q, x)) \in Nat
        /\ balance[x][q] \in Nat /\ balance'[x][q] \in Nat
    BY <1>1, SumOfStakes DEF StakesInv, StakesBacked, CoinsInv, Holders
  <2>2. CASE q # r
    <3>1. nfr'[q] = nfr[q]
      BY <2>2 DEF Elsewhere
    <3>2. StakesIn(q, x)' = StakesIn(q, x)
      BY <3>1 DEF StakesIn
    <3>3. balance'[x][q] >= balance[x][q] + 0
      BY <2>2
    <3>4. balance'[x][q] >= SumFunction(StakesIn(q, x))
      BY <2>1, <3>3
    <3> QED
      BY <3>2, <3>4
  <2>3. CASE q = r
    <3> DEFINE f == StakesIn(r, x)
               h == StakesIn(r, x)'
    <3>1. f \in [Ids -> Nat] /\ \A i \in Ids : f[i] = Worth(nfr[r].stake[i], x)
      BY <1>1, StakesInType
    <3>2. h = [i \in Ids |-> Worth(nfr'[r].stake[i], x)]
      BY DEF StakesIn, Worth
    <3>3. \A i \in Ids : nfr'[r].stake[i] = IF i = id THEN w ELSE nfr[r].stake[i]
      OBVIOUS
    <3> HIDE DEF f, h
    <3>4. \A i \in Ids : h[i] = IF i = id THEN Worth(w, x) ELSE f[i]
      BY <3>1, <3>2, <3>3
    <3>5. Worth(w, x) \in Nat /\ f[id] = Worth(old, x)
      BY <3>1 DEF Worth, Stakes
    <3>6. f \in [Ids -> Int] /\ h \in [Ids -> Int] /\ \A i \in Ids \ {id} : h[i] = f[i]
      BY <3>1, <3>2, <3>4, <3>5
    <3>7. SumFunction(h) = SumFunction(f) + h[id] - f[id]
      BY <3>6, RegistriesAssumption, SumChanged
    <3>8. /\ SumFunction(f) \in Nat /\ balance[x][r] >= SumFunction(f)
          /\ balance[x][r] \in Nat /\ balance'[x][r] \in Nat /\ h[id] = Worth(w, x)
      BY <2>1, <2>3, <3>4 DEF f
    <3>9. balance'[x][r] >= balance[x][r] + (Worth(w, x) - f[id])
      BY <3>5
    <3>10. f[id] \in Nat
      BY <3>1
    <3>11. balance'[x][r] >= SumFunction(h)
      BY <3>5, <3>7, <3>8, <3>9, <3>10
    <3> QED
      BY <2>3, <3>11 DEF h
  <2> QED
    BY <2>2, <2>3
<1>4. ASSUME NEW q \in Registries, NEW i \in Ids, nfr'[q].stake[i].amount > 0
      PROVE  nfr'[q].stake[i].coin \in Coins
  <2>1. nfr[q].stake[i].amount > 0 => nfr[q].stake[i].coin \in Coins
    BY DEF StakesInv
  <2>2. CASE q = r
    BY <1>2, <1>4, <2>1, <2>2
  <2>3. CASE q # r
    BY <1>4, <2>1, <2>3 DEF Elsewhere
  <2> QED
    BY <2>2, <2>3
<1> QED
  BY <1>3, <1>4 DEF StakesInv, StakesBacked

\* A registry can give back each of its stakes.
LEMMA StakeIsThere ==
    ASSUME Inv, CoinsInv, StakesInv, NEW r \in Registries, NEW id \in Ids,
           nfr[r].stake[id].amount # 0
    PROVE  /\ nfr[r].stake[id] \in Stakes /\ nfr[r].stake[id].coin \in Coins
           /\ balance[nfr[r].stake[id].coin][r] >= nfr[r].stake[id].amount
<1> DEFINE w == nfr[r].stake[id]
           f == StakesIn(r, w.coin)
<1>1. nfr \in [Registries -> Registry]
  BY DEF Inv, AllGood
<1>2. w \in Stakes /\ w.amount > 0
  BY <1>1, StakesInType DEF Stakes
<1>3. w.coin \in Coins
  BY <1>2 DEF StakesInv
<1>4. f \in [Ids -> Nat] /\ f[id] = w.amount
  BY <1>1, StakesInType DEF Worth
<1>5. balance[w.coin][r] >= SumFunction(f) /\ balance[w.coin][r] \in Nat
  BY <1>3 DEF StakesInv, StakesBacked, CoinsInv, Holders
<1>6. SumFunction(f) \in Nat /\ SumFunction(f) >= f[id]
  <2> HIDE DEF f
  <2> QED
    BY <1>4, RegistriesAssumption, SumIsLarge
<1>7. balance[w.coin][r] >= w.amount
  <2> HIDE DEF f, w
  <2>1. w.amount \in Nat
    BY <1>2 DEF Stakes
  <2> QED
    BY <1>4, <1>5, <1>6, <2>1
<1> QED
  BY <1>2, <1>3, <1>7

-----------------------------------------------------------------------------
(* Coins that are moved. *)

LEMMA Apart ==
    /\ Users \subseteq Holders /\ Registries \subseteq Holders
    /\ \A u \in Users, q \in Registries : u # q
BY RegistriesAssumption DEF Holders

LEMMA MovedFacts ==
    ASSUME NEW b \in [Coins -> [Holders -> Nat]], NEW x \in Coins, NEW from \in Holders,
           NEW to \in Holders, NEW n \in Nat, b[x][from] >= n,
           NEW m, m = Moved(b, x, from, to, n)
    PROVE  /\ m \in [Coins -> [Holders -> Nat]]
           /\ \A y \in Coins, h \in Holders : y # x \/ h \notin {from, to} => m[y][h] = b[y][h]
           /\ from # to => m[x][from] = b[x][from] - n /\ m[x][to] = b[x][to] + n
           /\ from = to => m[x][from] = b[x][from]
<1> DEFINE f == b[x]
           g == [f EXCEPT ![from] = @ - n]
           h == [g EXCEPT ![to] = @ + n]
<1>1. f \in [Holders -> Nat] /\ f[from] - n \in Nat
  BY SMT
<1>2. m = [b EXCEPT ![x] = h]
  <2> DEFINE b1 == [b EXCEPT ![x] = g]
  <2>1. [b EXCEPT ![x][from] = @ - n] = b1
    OBVIOUS
  <2>2. b1[x] = g /\ [b1 EXCEPT ![x] = h] = [b EXCEPT ![x] = h]
    OBVIOUS
  <2>3. m = [b1 EXCEPT ![x][to] = @ + n]
    BY <2>1 DEF Moved
  <2> HIDE DEF b1
  <2>4. m = [b1 EXCEPT ![x] = h]
    BY <2>2, <2>3
  <2> QED
    BY <2>2, <2>4
<1> HIDE DEF f
<1>3. g \in [Holders -> Nat] /\ \A k \in Holders : g[k] = IF k = from THEN f[from] - n ELSE f[k]
  BY <1>1
<1> HIDE DEF g
<1>4. h \in [Holders -> Nat] /\ \A k \in Holders : h[k] = IF k = to THEN g[to] + n ELSE g[k]
  <2>1. g[to] + n \in Nat
    BY <1>3
  <2> QED
    BY <1>3, <2>1
<1> HIDE DEF h
<1>5. m \in [Coins -> [Holders -> Nat]] /\ \A y \in Coins : m[y] = IF y = x THEN h ELSE b[y]
  BY <1>2, <1>4
<1>6. \A y \in Coins, k \in Holders : y # x \/ k \notin {from, to} => m[y][k] = b[y][k]
  BY <1>3, <1>4, <1>5 DEF f
<1>7. from # to => m[x][from] = b[x][from] - n /\ m[x][to] = b[x][to] + n
  BY <1>3, <1>4, <1>5 DEF f
<1>8. from = to => m[x][from] = b[x][from]
  <2>1. f[from] \in Nat /\ n \in Nat
    BY <1>1
  <2>2. from = to => h[from] = (f[from] - n) + n
    BY <1>3, <1>4
  <2>3. from = to => h[from] = f[from]
    BY <2>1, <2>2
  <2> QED
    BY <1>5, <2>3 DEF f
<1> QED
  BY <1>5, <1>6, <1>7, <1>8

\* Nobody but the one who pays has less, and he by no more than that.
LEMMA PaidByOne ==
    ASSUME NEW b \in [Coins -> [Holders -> Nat]], NEW x \in Coins, NEW from \in Holders,
           NEW to \in Holders, NEW n \in Nat, b[x][from] >= n,
           NEW m, m = Moved(b, x, from, to, n)
    PROVE  /\ m \in [Coins -> [Holders -> Nat]]
           /\ \A y \in Coins, h \in Holders :
                  m[y][h] >= b[y][h] - (IF y = x /\ h = from THEN n ELSE 0)
<1>1. /\ m \in [Coins -> [Holders -> Nat]]
      /\ \A y \in Coins, h \in Holders : y # x \/ h \notin {from, to} => m[y][h] = b[y][h]
      /\ from # to => m[x][from] = b[x][from] - n /\ m[x][to] = b[x][to] + n
      /\ from = to => m[x][from] = b[x][from]
  BY MovedFacts
<1>2. ASSUME NEW y \in Coins, NEW h \in Holders
      PROVE  m[y][h] >= b[y][h] - (IF y = x /\ h = from THEN n ELSE 0)
  <2>1. m[y][h] \in Nat /\ b[y][h] \in Nat
    BY <1>1
  <2>2. CASE y # x \/ h \notin {from, to}
    BY <1>1, <2>1, <2>2
  <2>3. CASE y = x /\ h = from
    BY <1>1, <2>1, <2>3
  <2>4. CASE y = x /\ h = to /\ h # from
    BY <1>1, <2>1, <2>4
  <2> QED
    BY <2>2, <2>3, <2>4
<1> QED
  BY <1>1, <1>2

LEMMA PaidOut ==
    ASSUME balance \in [Coins -> [Holders -> Nat]], NEW x \in Coins, NEW r \in Registries,
           NEW c \in Users, NEW a \in Nat, balance[x][r] >= a,
           balance' = Moved(balance, x, r, c, a)
    PROVE  /\ balance' \in [Coins -> [Holders -> Nat]]
           /\ \A y \in Coins, q \in Registries :
                  balance'[y][q] = IF y = x /\ q = r THEN balance[y][q] - a ELSE balance[y][q]
<1>1. PICK b, m : b = balance /\ m = balance'
  OBVIOUS
<1>2. /\ m \in [Coins -> [Holders -> Nat]]
      /\ \A y \in Coins, h \in Holders : y # x \/ h \notin {r, c} => m[y][h] = b[y][h]
      /\ r # c => m[x][r] = b[x][r] - a
  <2>1. /\ b \in [Coins -> [Holders -> Nat]] /\ b[x][r] >= a /\ m = Moved(b, x, r, c, a)
        /\ r \in Holders /\ c \in Holders
    BY <1>1, Apart
  <2> QED
    BY <2>1, MovedFacts
<1> QED
  BY <1>1, <1>2, Apart

LEMMA PulledFacts ==
    ASSUME CoinsInv, NEW x \in Coins \cup {None}, NEW c \in Users, NEW s \in Spenders,
           NEW n \in Nat, CanPull(x, c, s, n)
    PROVE  /\ x \in Coins /\ balance[x][c] >= n
           /\ Pulled(x, c, s, n) \in [Coins -> [Users -> [Spenders -> Nat]]]
<1>1. x \in Coins /\ balance[x][c] >= n /\ allowance[x][c][s] >= n
  BY DEF CanPull
<1>2. allowance \in [Coins -> [Users -> [Spenders -> Nat]]]
  BY DEF CoinsInv
<1> DEFINE f == allowance[x][c][s]
<1>3. f \in Nat /\ f - n \in Nat
  BY <1>1, <1>2
<1>4. Pulled(x, c, s, n) = [allowance EXCEPT ![x][c][s] = f - n]
  BY DEF Pulled
<1> HIDE DEF f
<1>5. [allowance EXCEPT ![x][c][s] = f - n] \in [Coins -> [Users -> [Spenders -> Nat]]]
  BY <1>1, <1>2, <1>3
<1> QED
  BY <1>1, <1>4, <1>5

\* What the calls leave behind, once their effect on registries is known.
CoinsKept == CoinsInv' /\ StakesInv'

\* A call that costs nothing.
LEMMA FreeCall ==
    ASSUME CoinsInv, StakesInv, NEW r \in Registries, Elsewhere(nfr, nfr', r),
           nfr'[r].stake = nfr[r].stake, UNCHANGED <<balance, allowance>>
    PROVE  CoinsKept
<1>1. \A q \in Registries : nfr'[q].stake = nfr[q].stake
  BY DEF Elsewhere
<1>2. \A q \in Registries, x \in Coins : StakesIn(q, x)' = StakesIn(q, x)
  BY <1>1 DEF StakesIn
<1>3. StakesInv'
  BY <1>1, <1>2 DEF StakesInv, StakesBacked
<1> QED
  BY <1>3 DEF CoinsInv, CoinsKept

LEMMA RegisterByTokenCoins ==
    ASSUME Inv, CoinsInv, StakesInv, NEW c \in Users, NEW r \in Registries,
           NEW e \in Registrations, RegisterByToken(c, r, e)
    PROVE  /\ CoinsKept /\ Elsewhere(nfr, nfr', r)
           /\ \A id \in Ids : nfr[r].owner[id] # None => nfr'[r].owner[id] = nfr[r].owner[id]
<1> DEFINE n == nfr[r]
           x == n.coin
           fee == n.fee
           burn == BurnAmount(n)
           one == Moved(balance, x, c, r, fee)
           t == Created(nfr, r, e)
           w == [coin |-> x, amount |-> fee - burn]
<1>1. /\ CanPull(x, c, r, fee) /\ CanCreate(nfr, r, c, e) /\ n.burnTo # None
      /\ balance' = Moved(one, x, r, n.burnTo, burn)
      /\ allowance' = Pulled(x, c, r, fee)
      /\ nfr' = Staked(t, r, e.id, x, fee - burn)
  BY DEF RegisterByToken
<1>2. /\ n \in Registry /\ n.burnTo \in Holders /\ fee \in Nat /\ e.id \in Ids
      /\ balance \in [Coins -> [Holders -> Nat]] /\ r \in Spenders /\ AllGood(nfr)
  BY <1>1 DEF Inv, AllGood, Registry, Registrations, CoinsInv, Spenders
<1>3. x \in Coins \cup {None} /\ fee - burn \in Nat /\ burn \in Nat /\ burn <= fee
  <2>1. BurnAmount(n) \in 0..fee
    BY <1>2, BurnInFee
  <2> HIDE DEF n
  <2> QED
    BY <1>2, <2>1 DEF Registry
<1>4. Keeps(nfr, t) /\ Calm(nfr, t, r) /\ t[r].owner[e.id] # None /\ n.owner[e.id] = None
  BY <1>1, <1>2, CreatedKeeps
<1> HIDE DEF t, x, fee, burn
<1>5. /\ Keeps(t, nfr') /\ Elsewhere(t, nfr', r) /\ nfr'[r].owner = t[r].owner
      /\ \A i \in Ids : nfr'[r].stake[i] = IF i = e.id THEN w ELSE t[r].stake[i]
  <2>1. AllGood(t) /\ fee - burn \in Nat
    BY <1>3, <1>4 DEF Keeps
  <2> DEFINE a == fee - burn
  <2> HIDE DEF a, n
  <2>2. nfr' = Staked(t, r, e.id, x, a) /\ a \in Nat
    BY <1>1, <2>1 DEF a
  <2>3. /\ Keeps(t, nfr') /\ Elsewhere(t, nfr', r) /\ nfr'[r].owner = t[r].owner
        /\ \A i \in Ids : nfr'[r].stake[i] =
               IF i = e.id THEN [coin |-> x, amount |-> a] ELSE t[r].stake[i]
    <3> HIDE DEF one, w
    <3>1. e.id \in Ids /\ x \in Coins \cup {None} /\ AllGood(t) /\ t[r].owner[e.id] # None
      BY <1>2, <1>3, <1>4, <2>1
    <3> QED
      BY <2>2, <3>1, StakeKeeps
  <2> QED
    BY <2>3 DEF a
<1>6. /\ Keeps(nfr, nfr') /\ Elsewhere(nfr, nfr', r)
      /\ \A i \in Ids : nfr'[r].stake[i] = IF i = e.id THEN w ELSE n.stake[i]
      /\ \A id \in Ids : n.owner[id] # None => nfr'[r].owner[id] = n.owner[id]
  <2>1. Keeps(nfr, nfr')
    BY <1>4, <1>5, KeepsBoth
  <2> QED
    BY <1>4, <1>5, <2>1 DEF Calm, Elsewhere
<1>7. /\ x \in Coins /\ balance[x][c] >= fee
      /\ allowance' \in [Coins -> [Users -> [Spenders -> Nat]]]
  BY <1>1, <1>2, <1>3, PulledFacts
<1>8. /\ one \in [Coins -> [Holders -> Nat]]
      /\ \A y \in Coins, h \in Holders : y # x \/ h \notin {c, r} => one[y][h] = balance[y][h]
      /\ one[x][r] = balance[x][r] + fee
  <2>1. one = Moved(balance, x, c, r, fee)
    OBVIOUS
  <2> HIDE DEF one, n, w
  <2>2. c \in Holders /\ r \in Holders /\ c # r
    BY Apart
  <2>3. balance \in [Coins -> [Holders -> Nat]] /\ x \in Coins /\ fee \in Nat /\ balance[x][c] >= fee
    BY <1>2, <1>7
  <2> QED
    BY <2>1, <2>2, <2>3, MovedFacts
<1> HIDE DEF one
<1>9. one[x][r] >= burn /\ balance[x][r] \in Nat
  BY <1>2, <1>3, <1>7, <1>8, Apart
<1>10. /\ balance' \in [Coins -> [Holders -> Nat]]
       /\ \A y \in Coins, h \in Holders :
              balance'[y][h] >= one[y][h] - (IF y = x /\ h = r THEN burn ELSE 0)
  <2> DEFINE h0 == n.burnTo
  <2>1. balance' = Moved(one, x, r, h0, burn)
    BY <1>1
  <2>2. h0 \in Holders /\ r \in Holders
    BY <1>2, Apart
  <2> HIDE DEF n, w, h0
  <2>3. x \in Coins /\ burn \in Nat
    BY <1>3, <1>7
  <2> QED
    BY <1>8, <1>9, <2>1, <2>2, <2>3, PaidByOne
<1>11. n.stake \in [Ids -> Stakes] /\ n.stake[e.id].amount = 0
  <2>1. Good(n) /\ n.stake \in [Ids -> Stakes]
    BY <1>2, StakesInType DEF AllGood
  <2> QED
    BY <1>2, <1>4, <2>1 DEF Good, Stakes
<1>12. w \in Stakes /\ w.coin \in Coins
  BY <1>3, <1>7 DEF Stakes
<1>13. ASSUME NEW y \in Coins, NEW q \in Registries
       PROVE  balance'[y][q] >= balance[y][q]
                  + (IF q = r THEN Worth(w, y) - Worth(n.stake[e.id], y) ELSE 0)
  <2>1. balance[y][q] \in Nat /\ balance'[y][q] \in Nat /\ one[y][q] \in Nat /\ q # c
    BY <1>2, <1>8, <1>10, Apart
  <2>2. Worth(n.stake[e.id], y) = 0
    BY <1>11 DEF Worth
  <2>3. Worth(w, y) = IF y = x THEN fee - burn ELSE 0
    BY DEF Worth
  <2>4. balance'[y][q] >= one[y][q] - (IF y = x /\ q = r THEN burn ELSE 0)
    BY <1>10, Apart
  <2>5. q # r \/ y # x => one[y][q] = balance[y][q]
    BY <1>8, <2>1, Apart
  <2> HIDE DEF w, n
  <2>6. CASE q = r /\ y = x
    <3>1. one[y][q] = balance[y][q] + fee /\ fee \in Nat /\ burn \in Nat
      BY <1>2, <1>3, <1>8, <2>6
    <3> QED
      BY <2>1, <2>2, <2>3, <2>4, <2>6, <3>1
  <2>7. CASE q # r
    BY <2>1, <2>4, <2>5, <2>7
  <2>8. CASE q = r /\ y # x
    BY <2>1, <2>2, <2>3, <2>4, <2>5, <2>8
  <2> QED
    BY <2>6, <2>7, <2>8
<1> HIDE DEF w
<1>14. CoinsInv'
  BY <1>7, <1>10 DEF CoinsInv
<1>15. StakesInv'
  BY <1>2, <1>6, <1>12, <1>13, <1>14, StakeChanges
<1> QED
  BY <1>6, <1>14, <1>15 DEF CoinsKept

LEMMA BurnCoins ==
    ASSUME Inv, CoinsInv, StakesInv, NEW c \in Users, NEW r \in Registries, NEW id \in Ids,
           Burn(c, r, id)
    PROVE  CoinsKept
<1> DEFINE n == nfr[r]
           w == n.stake[id]
           v == IF w.amount = 0 THEN w ELSE NoStake
<1>1. /\ nfr' = Burned(nfr, r, id) /\ allowance' = allowance
      /\ balance' = IF w.amount = 0 THEN balance ELSE Moved(balance, w.coin, r, c, w.amount)
  BY DEF Burn
<1>2. AllGood(nfr) /\ balance \in [Coins -> [Holders -> Nat]] /\ n.stake \in [Ids -> Stakes]
  BY StakesInType DEF Inv, AllGood, CoinsInv
<1>3. /\ Keeps(nfr, nfr') /\ Elsewhere(nfr, nfr', r)
      /\ \A i \in Ids : nfr'[r].stake[i] = IF i = id THEN v ELSE n.stake[i]
  <2>1. nfr' = Burned(nfr, r, id) /\ AllGood(nfr)
    BY <1>1, <1>2
  <2>2. v = IF nfr[r].stake[id].amount = 0 THEN nfr[r].stake[id] ELSE NoStake
    OBVIOUS
  <2> HIDE DEF n, w, v
  <2>3. /\ Keeps(nfr, nfr') /\ Elsewhere(nfr, nfr', r)
        /\ \A i \in Ids : nfr'[r].stake[i] = IF i = id THEN v ELSE nfr[r].stake[i]
    BY <2>1, <2>2, BurnKeeps
  <2> QED
    BY <2>3 DEF n
<1>4. v \in Stakes /\ v.amount = 0
  <2>1. w \in Stakes
    BY <1>2
  <2> HIDE DEF w
  <2> QED
    BY <2>1 DEF Stakes, NoStake
<1> HIDE DEF v
<1>5. \A x \in Coins : Worth(v, x) = 0
  BY <1>4 DEF Worth
<1>6. CASE w.amount = 0
  <2>1. balance' = balance
    BY <1>1, <1>6
  <2>2. \A x \in Coins, q \in Registries : balance[x][q] \in Nat
    BY <1>2, Apart
  <2>3. \A x \in Coins : Worth(w, x) = 0
    BY <1>6 DEF Worth
  <2>4. \A x \in Coins, q \in Registries :
            balance'[x][q] >= balance[x][q]
                + (IF q = r THEN Worth(v, x) - Worth(w, x) ELSE 0)
    BY <1>5, <2>1, <2>2, <2>3
  <2>5. CoinsInv'
    BY <1>1, <2>1 DEF CoinsInv
  <2>6. StakesInv'
    BY <1>3, <1>4, <2>4, <2>5, StakeChanges
  <2> QED
    BY <2>5, <2>6 DEF CoinsKept
<1>7. CASE w.amount # 0
  <2>1. w \in Stakes /\ w.coin \in Coins /\ balance[w.coin][r] >= w.amount
    BY <1>7, StakeIsThere
  <2> DEFINE x == w.coin
             a == w.amount
  <2>2. balance' = Moved(balance, x, r, c, a) /\ a \in Nat
    BY <1>1, <1>7, <2>1 DEF Stakes
  <2>3. /\ balance' \in [Coins -> [Holders -> Nat]]
        /\ \A y \in Coins, q \in Registries :
               balance'[y][q] = IF y = x /\ q = r THEN balance[y][q] - a ELSE balance[y][q]
    <3> HIDE DEF x, a
    <3>1. x \in Coins /\ balance[x][r] >= a
      BY <2>1 DEF x, a
    <3> HIDE DEF w, n
    <3> QED
      BY <1>2, <2>2, <3>1, PaidOut
  <2>4. ASSUME NEW y \in Coins, NEW q \in Registries
        PROVE  balance'[y][q] >= balance[y][q]
                   + (IF q = r THEN Worth(v, y) - Worth(w, y) ELSE 0)
    <3>1. balance[y][q] \in Nat /\ q # c
      BY <1>2, Apart
    <3>2. Worth(w, y) = IF y = x THEN a ELSE 0
      BY DEF Worth
    <3> HIDE DEF x, a, w
    <3>3. Worth(v, y) = 0 /\ a \in Nat
      BY <1>5, <2>2
    <3> QED
      BY <2>3, <3>1, <3>2, <3>3
  <2>5. CoinsInv'
    BY <1>1, <2>3 DEF CoinsInv
  <2>6. StakesInv'
    BY <1>3, <1>4, <2>4, <2>5, StakeChanges
  <2> QED
    BY <2>5, <2>6 DEF CoinsKept
<1> QED
  BY <1>6, <1>7

\* Coins that a user pays, to another one or to a registry.
LEMMA UserPays ==
    ASSUME balance \in [Coins -> [Holders -> Nat]], NEW x \in Coins, NEW c \in Users,
           NEW to \in Holders, NEW a \in Nat, balance[x][c] >= a,
           balance' = Moved(balance, x, c, to, a)
    PROVE  /\ balance' \in [Coins -> [Holders -> Nat]] /\ RegistriesKeep
           /\ c = to \/ balance'[x][c] = balance[x][c] - a
<1>1. c \in Holders
  BY Apart
<1>2. /\ balance' \in [Coins -> [Holders -> Nat]]
      /\ c # to => balance'[x][c] = balance[x][c] - a
  BY <1>1, MovedFacts
<1>3. \A y \in Coins, h \in Holders :
          balance'[y][h] >= balance[y][h] - (IF y = x /\ h = c THEN a ELSE 0)
  BY <1>1, PaidByOne
<1>4. ASSUME NEW y \in Coins, NEW q \in Registries PROVE balance'[y][q] >= balance[y][q]
  <2>1. q \in Holders /\ q # c
    BY Apart
  <2>2. balance[y][q] \in Nat /\ balance'[y][q] \in Nat
    BY <1>2, <2>1
  <2>3. balance'[y][q] >= balance[y][q] - 0
    BY <1>3, <2>1
  <2> QED
    BY <2>2, <2>3
<1> QED
  BY <1>2, <1>4 DEF RegistriesKeep

LEMMA BuyCoins ==
    ASSUME Inv, CoinsInv, StakesInv, NEW c \in Users, NEW r \in Registries, NEW id \in Ids,
           BuyNFI(c, r, id)
    PROVE  /\ CoinsKept /\ Elsewhere(nfr, nfr', r)
           /\ \A i \in Ids : nfr'[r].owner[i] = IF i = id THEN c ELSE nfr[r].owner[i]
           /\ nfr[r].coin # None /\ nfr[r].fee > 0 /\ Registrar(nfr, r, nfr[r].owner[id])
           /\ \/ c = nfr[r].burnTo
              \/ balance'[nfr[r].coin][c] = balance[nfr[r].coin][c] - nfr[r].fee
<1> DEFINE n == nfr[r]
           x == n.coin
           fee == n.fee
           to == n.burnTo
<1>1. /\ Registrar(nfr, r, n.owner[id]) /\ fee > 0
      /\ CanPull(x, c, "buy", fee) /\ x # None /\ to # None
      /\ balance' = Moved(balance, x, c, to, fee)
      /\ allowance' = Pulled(x, c, "buy", fee)
      /\ nfr' = Transferred(nfr, r, c, id)
  BY DEF BuyNFI, CanPull
<1>2. /\ x \in Coins \cup {None} /\ fee \in Nat /\ to \in Holders /\ AllGood(nfr)
      /\ balance \in [Coins -> [Holders -> Nat]] /\ "buy" \in Spenders
  BY <1>1 DEF Inv, AllGood, Registry, CoinsInv, Spenders
<1>3. /\ Elsewhere(nfr, nfr', r) /\ nfr'[r].stake = n.stake
      /\ \A i \in Ids : nfr'[r].owner[i] = IF i = id THEN c ELSE n.owner[i]
  BY <1>1, <1>2, TransferKeeps
<1> HIDE DEF x, fee, to
<1>4. /\ x \in Coins /\ balance[x][c] >= fee
      /\ allowance' \in [Coins -> [Users -> [Spenders -> Nat]]]
  BY <1>1, <1>2, PulledFacts
<1>5. /\ balance' \in [Coins -> [Holders -> Nat]] /\ RegistriesKeep
      /\ c = to \/ balance'[x][c] = balance[x][c] - fee
  BY <1>1, <1>2, <1>4, UserPays
<1>6. CoinsInv' /\ \A q \in Registries : nfr'[q].stake = nfr[q].stake
  BY <1>3, <1>4, <1>5 DEF CoinsInv, Elsewhere
<1>7. CoinsKept
  BY <1>5, <1>6, StakesRest DEF CoinsKept
<1> QED
  BY <1>1, <1>3, <1>5, <1>7 DEF x, fee, to

-----------------------------------------------------------------------------
(* Whom a token leaves, and with whose consent. *)

Consents(r, id, c) ==
    LET n == nfr[r]
        holder == n.owner[id]
    IN  holder \notin {None, nfr'[r].owner[id]} =>
          \/ MayAct(nfr, r, c, id)
          \/ /\ Registrar(nfr, r, holder) /\ nfr'[r].owner[id] = c
             /\ n.coin # None /\ n.fee > 0
             /\ \/ c = n.burnTo
                \/ balance'[n.coin][c] = balance[n.coin][c] - n.fee

AllConsent(c) == \A r \in Registries, id \in Ids : Consents(r, id, c)

\* What the proofs say of a call of user c, besides that records stay good.
Fine(c) == CoinsKept /\ MadeInv' /\ AllConsent(c)

LEMMA ConsentAt ==
    ASSUME NEW r \in Registries, NEW c, Elsewhere(nfr, nfr', r),
           \A id \in Ids : Consents(r, id, c)
    PROVE  AllConsent(c)
<1>1. ASSUME NEW q \in Registries, NEW id \in Ids, q # r PROVE Consents(q, id, c)
  <2>1. nfr'[q] = nfr[q]
    BY <1>1 DEF Elsewhere
  <2> QED
    BY <2>1 DEF Consents
<1> QED
  BY <1>1 DEF AllConsent

LEMMA MadeAt ==
    ASSUME NEW r \in Registries, MadeInv, nfr[r].made, Keeps(nfr, nfr'), Elsewhere(nfr, nfr', r)
    PROVE  MadeInv'
BY DEF MadeInv, Keeps, Elsewhere

LEMMA CalmIsFine ==
    ASSUME CoinsInv, StakesInv, MadeInv, NEW c, NEW r \in Registries, nfr[r].made,
           Keeps(nfr, nfr'), Calm(nfr, nfr', r), UNCHANGED <<balance, allowance>>
    PROVE  Fine(c)
<1>1. Elsewhere(nfr, nfr', r) /\ nfr'[r].stake = nfr[r].stake
  BY DEF Calm
<1>2. CoinsKept
  BY <1>1, FreeCall
<1>3. \A id \in Ids : Consents(r, id, c)
  BY DEF Calm, Consents
<1> QED
  BY <1>1, <1>2, <1>3, ConsentAt, MadeAt DEF Fine

Invs == Inv /\ CoinsInv /\ StakesInv /\ MadeInv

LEMMA RegisterByTokenFine ==
    ASSUME Invs, NEW c \in Users, NEW r \in Registries, nfr[r].made,
           NEW e \in Registrations, RegisterByToken(c, r, e)
    PROVE  Fine(c)
<1>1. /\ CoinsKept /\ Elsewhere(nfr, nfr', r)
      /\ \A id \in Ids : nfr[r].owner[id] # None => nfr'[r].owner[id] = nfr[r].owner[id]
  BY RegisterByTokenCoins DEF Invs
<1>2. Keeps(nfr, nfr')
  BY RegisterByTokenKeeps DEF Invs
<1>3. \A id \in Ids : Consents(r, id, c)
  BY <1>1 DEF Consents
<1> QED
  BY <1>1, <1>2, <1>3, ConsentAt, MadeAt DEF Fine, Invs

LEMMA BurnFine ==
    ASSUME Invs, NEW c \in Users, NEW r \in Registries, nfr[r].made, NEW id \in Ids,
           Burn(c, r, id)
    PROVE  Fine(c)
<1>1. CoinsKept
  BY BurnCoins DEF Invs
<1>2. MayAct(nfr, r, c, id) /\ nfr' = Burned(nfr, r, id) /\ AllGood(nfr)
  BY DEF Burn, CanBurn, Invs, Inv
<1> DEFINE v == IF nfr[r].stake[id].amount = 0 THEN nfr[r].stake[id] ELSE NoStake
<1>3. v = IF nfr[r].stake[id].amount = 0 THEN nfr[r].stake[id] ELSE NoStake
  OBVIOUS
<1> HIDE DEF v
<1>4. /\ Keeps(nfr, nfr') /\ Elsewhere(nfr, nfr', r)
      /\ \A i \in Ids : nfr'[r].owner[i] = IF i = id THEN None ELSE nfr[r].owner[i]
  BY <1>2, <1>3, BurnKeeps
<1>5. \A i \in Ids : Consents(r, i, c)
  BY <1>2, <1>4 DEF Consents
<1> QED
  BY <1>1, <1>4, <1>5, ConsentAt, MadeAt DEF Fine, Invs

LEMMA TransferFine ==
    ASSUME Invs, NEW c \in Users, NEW r \in Registries, nfr[r].made, NEW id \in Ids,
           NEW u \in Users, TransferFrom(c, r, u, id)
    PROVE  Fine(c)
<1>1. /\ MayAct(nfr, r, c, id) /\ nfr' = Transferred(nfr, r, u, id) /\ AllGood(nfr)
      /\ UNCHANGED <<balance, allowance>>
  BY DEF TransferFrom, CanTransfer, Invs, Inv
<1>2. /\ Keeps(nfr, nfr') /\ Elsewhere(nfr, nfr', r) /\ nfr'[r].stake = nfr[r].stake
      /\ \A i \in Ids : nfr'[r].owner[i] = IF i = id THEN u ELSE nfr[r].owner[i]
  BY <1>1, TransferKeeps
<1>3. CoinsKept
  BY <1>1, <1>2, FreeCall DEF Invs
<1>4. \A i \in Ids : Consents(r, i, c)
  BY <1>1, <1>2 DEF Consents
<1> QED
  BY <1>2, <1>3, <1>4, ConsentAt, MadeAt DEF Fine, Invs

\* Who asks the bulk module to act for u is u's operator or a registrar, and so may
\* act for the tokens himself.
LEMMA BulkFine ==
    ASSUME Invs, NEW c \in Users, NEW r \in Registries, nfr[r].made, NEW u \in Users,
           NEW to \in Users, NEW ids \in SUBSET Ids, BulkTransfer(c, r, u, to, ids)
    PROVE  Fine(c)
<1>1. /\ ApprovedForAll(nfr, r, u, c) /\ UNCHANGED <<balance, allowance>>
      /\ \A id \in ids : MayAct(nfr, r, "bulk", id) /\ nfr[r].owner[id] = u
  BY DEF BulkTransfer, CanTransfer
<1>2. /\ Keeps(nfr, nfr') /\ Elsewhere(nfr, nfr', r) /\ nfr'[r].stake = nfr[r].stake
      /\ \A id \in Ids \ ids : nfr'[r].owner[id] = nfr[r].owner[id]
  BY BulkTransferKeeps DEF Invs
<1>3. CoinsKept
  BY <1>1, <1>2, FreeCall DEF Invs
<1>4. \A id \in ids : MayAct(nfr, r, c, id)
  BY <1>1 DEF MayAct
<1>5. \A id \in Ids : Consents(r, id, c)
  BY <1>2, <1>4 DEF Consents
<1> QED
  BY <1>2, <1>3, <1>5, ConsentAt, MadeAt DEF Fine, Invs

LEMMA BuyFine ==
    ASSUME Invs, NEW c \in Users, NEW r \in Registries, nfr[r].made, NEW id \in Ids,
           BuyNFI(c, r, id)
    PROVE  Fine(c)
<1>1. /\ CoinsKept /\ Elsewhere(nfr, nfr', r)
      /\ \A i \in Ids : nfr'[r].owner[i] = IF i = id THEN c ELSE nfr[r].owner[i]
      /\ nfr[r].coin # None /\ nfr[r].fee > 0 /\ Registrar(nfr, r, nfr[r].owner[id])
      /\ \/ c = nfr[r].burnTo
         \/ balance'[nfr[r].coin][c] = balance[nfr[r].coin][c] - nfr[r].fee
  BY BuyCoins DEF Invs
<1>2. Keeps(nfr, nfr')
  BY BuyKeeps DEF Invs
<1>3. \A i \in Ids : Consents(r, i, c)
  BY <1>1 DEF Consents
<1> QED
  BY <1>1, <1>2, <1>3, ConsentAt, MadeAt DEF Fine, Invs

\* A new registry has no tokens and no stakes, and had none before it was made.
LEMMA MakeFine ==
    ASSUME Invs, NEW c, NEW r \in Registries, NEW name \in Names, NEW u,
           Make(r, name, u), CoinsInv', RegistriesKeep
    PROVE  StakesInv' /\ MadeInv' /\ AllConsent(c)
<1> DEFINE n == New(name, u, factory.profiles)
<1>1. /\ nfr \in [Registries -> Registry] /\ Good(nfr[r]) /\ ~nfr[r].made
      /\ nfr' = [nfr EXCEPT ![r] = n]
  BY DEF Invs, Inv, AllGood, Make, CanMake
<1>2. /\ n.owner = [i \in Ids |-> None] /\ n.stake = [i \in Ids |-> NoStake]
  BY DEF New
<1> HIDE DEF n
<1>3. /\ nfr'[r] = n /\ Elsewhere(nfr, nfr', r)
  BY <1>1 DEF Elsewhere
<1>4. \A id \in Ids : nfr[r].owner[id] = None
  BY <1>1 DEF Invs, MadeInv
<1>5. \A id \in Ids : nfr[r].stake[id].amount = 0
  BY <1>1, <1>4 DEF Good, Registry
<1>6. \A id \in Ids : nfr'[r].stake[id].amount = 0 /\ nfr'[r].owner[id] = None
  BY <1>2, <1>3 DEF NoStake
<1>7. ASSUME NEW q \in Registries, NEW x \in Coins PROVE StakesIn(q, x)' = StakesIn(q, x)
  <2>1. CASE q = r
    <3>1. StakesIn(r, x) = [id \in Ids |-> 0]
      BY <1>5 DEF StakesIn
    <3>2. StakesIn(r, x)' = [id \in Ids |-> 0]
      BY <1>6 DEF StakesIn
    <3> QED
      BY <2>1, <3>1, <3>2
  <2>2. CASE q # r
    <3>1. nfr'[q] = nfr[q]
      BY <1>3, <2>2 DEF Elsewhere
    <3> QED
      BY <3>1 DEF StakesIn
  <2> QED
    BY <2>1, <2>2
<1>8. StakesBacked'
  BY <1>7, BackedByMore DEF Invs, StakesBacked
<1>9. ASSUME NEW q \in Registries, NEW id \in Ids, nfr'[q].stake[id].amount > 0
      PROVE  nfr'[q].stake[id].coin \in Coins
  <2>1. q # r
    BY <1>6, <1>9
  <2>2. nfr'[q] = nfr[q]
    BY <1>3, <2>1 DEF Elsewhere
  <2> QED
    BY <1>9, <2>2 DEF Invs, StakesInv
<1>10. StakesInv'
  BY <1>8, <1>9 DEF StakesInv
<1>11. MadeInv'
  BY <1>3, <1>6 DEF Invs, MadeInv, Elsewhere
<1>12. \A id \in Ids : Consents(r, id, c)
  BY <1>4 DEF Consents
<1> QED
  BY <1>3, <1>10, <1>11, <1>12, ConsentAt

\* What changes no registry.
LEMMA NothingIsFine ==
    ASSUME Invs, NEW c, nfr' = nfr, CoinsInv', balance' = balance
    PROVE  Fine(c)
<1>1. StakesInv' /\ MadeInv'
  BY DEF Invs, StakesInv, StakesBacked, StakesIn, MadeInv
<1>2. AllConsent(c)
  BY DEF AllConsent, Consents
<1> QED
  BY <1>1, <1>2 DEF Fine, CoinsKept

\* What pays and does no more.
LEMMA PayingIsFine ==
    ASSUME Invs, NEW c, nfr' = nfr, CoinsInv', RegistriesKeep
    PROVE  Fine(c)
<1>1. StakesInv'
  BY StakesRest DEF Invs
<1>2. MadeInv' /\ AllConsent(c)
  BY DEF Invs, MadeInv, AllConsent, Consents
<1> QED
  BY <1>1, <1>2 DEF Fine, CoinsKept

LEMMA FactoryCallFine ==
    ASSUME Invs, NEW c \in Users, FactoryCall(c)
    PROVE  Fine(c)
<1>1. ASSUME NEW r \in Registries, NEW name \in Names, NEW u, CreateRegistry(c, r, name, u)
      PROVE  Fine(c)
  <2>1. Make(r, name, u) /\ UNCHANGED <<balance, allowance>>
    BY <1>1 DEF CreateRegistry
  <2>2. CoinsInv'
    BY <2>1 DEF CoinsInv, Invs
  <2>3. RegistriesKeep
    <3>1. \A x \in Coins, q \in Registries : balance[x][q] \in Nat
      BY Apart DEF Invs, CoinsInv
    <3> QED
      BY <2>1, <3>1 DEF RegistriesKeep
  <2> QED
    BY <2>1, <2>2, <2>3, MakeFine DEF Fine, CoinsKept
<1>2. ASSUME NEW r \in Registries, NEW name \in Names, NEW u,
             CreateRegistryByToken(c, r, name, u)
      PROVE  Fine(c)
  <2> DEFINE x == factory.coin
             to == factory.burnTo
             fee == factory.fee
  <2>1. /\ CanPull(x, c, "factory", fee) /\ to # None /\ Make(r, name, u)
        /\ balance' = Moved(balance, x, c, to, fee)
        /\ allowance' = Pulled(x, c, "factory", fee)
    BY <1>2 DEF CreateRegistryByToken
  <2>2. /\ x \in Coins \cup {None} /\ to \in Holders /\ fee \in Nat /\ CoinsInv
        /\ balance \in [Coins -> [Holders -> Nat]] /\ "factory" \in Spenders
    BY <2>1 DEF Invs, Inv, Factory, CoinsInv, Spenders
  <2> HIDE DEF x, to, fee
  <2>3. /\ x \in Coins /\ balance[x][c] >= fee
        /\ allowance' \in [Coins -> [Users -> [Spenders -> Nat]]]
    BY <2>1, <2>2, PulledFacts
  <2>4. balance' \in [Coins -> [Holders -> Nat]] /\ RegistriesKeep
    BY <2>1, <2>2, <2>3, UserPays
  <2>5. CoinsInv'
    BY <2>3, <2>4 DEF CoinsInv
  <2> QED
    BY <2>1, <2>4, <2>5, MakeFine DEF Fine, CoinsKept
<1>3. ASSUME NEW q, \/ SetProfileRegistryAddress(c, q) \/ SetRegistrationToken(c, q)
                    \/ SetRegistrationFee(c, q) \/ SetBurnAddress(c, q)
      PROVE  Fine(c)
  <2>1. nfr' = nfr /\ UNCHANGED <<balance, allowance>>
    BY <1>3 DEF SetProfileRegistryAddress, SetRegistrationToken, SetRegistrationFee,
                SetBurnAddress
  <2>2. CoinsInv'
    BY <2>1 DEF Invs, CoinsInv
  <2> QED
    BY <2>1, <2>2, NothingIsFine
<1> QED
  BY <1>1, <1>2, <1>3 DEF FactoryCall

LEMMA TokenCallFine ==
    ASSUME Invs, NEW c \in Users, NEW r \in Registries, nfr[r].made, TokenCall(c, r)
    PROVE  Fine(c)
<1>1. \A e \in Entries : e \in Registrations /\ e.label \in Labels \cup {Empty}
  BY ChoicesAssumption DEF Registrations
<1>2. Inv /\ CoinsInv /\ StakesInv /\ MadeInv
  BY DEF Invs
<1>3. ASSUME Keeps(nfr, nfr') /\ Calm(nfr, nfr', r), UNCHANGED <<balance, allowance>>
      PROVE  Fine(c)
  BY <1>2, <1>3, CalmIsFine
<1>4. ASSUME NEW e \in Entries, Register(c, r, e)
      PROVE  Fine(c)
  BY <1>1, <1>2, <1>3, <1>4, RegisterKeeps DEF Register
<1>5. ASSUME NEW e \in Entries, RegisterByToken(c, r, e)
      PROVE  Fine(c)
  BY <1>1, <1>5, RegisterByTokenFine
<1>6. ASSUME NEW id \in Ids, Burn(c, r, id)
      PROVE  Fine(c)
  BY <1>6, BurnFine
<1>7. ASSUME NEW id \in Ids, NEW e \in Entries, UpdateLabel(c, r, id, e.label)
      PROVE  Fine(c)
  BY <1>1, <1>2, <1>3, <1>7, UpdateLabelKeeps DEF UpdateLabel
<1>8. ASSUME NEW id \in Ids, NEW u \in Users, TransferFrom(c, r, u, id)
      PROVE  Fine(c)
  BY <1>8, TransferFine
<1>9. ASSUME NEW id \in Ids, NEW a \in Users \cup Modules, ApproveToken(c, r, a, id)
      PROVE  Fine(c)
  BY <1>2, <1>3, <1>9, ApproveTokenKeeps DEF ApproveToken
<1>10. ASSUME NEW a \in Users \cup Modules, NEW may \in BOOLEAN,
              SetApprovalForAll(c, r, a, may)
       PROVE  Fine(c)
  BY <1>2, <1>3, <1>10, SetApprovalForAllKeeps DEF SetApprovalForAll
<1> QED
  BY <1>4, <1>5, <1>6, <1>7, <1>8, <1>9, <1>10 DEF TokenCall

LEMMA RegistrarCallFine ==
    ASSUME Invs, NEW c \in Users, NEW r \in Registries, nfr[r].made, RegistrarCall(c, r)
    PROVE  Fine(c)
<1>1. Inv /\ CoinsInv /\ StakesInv /\ MadeInv
  BY DEF Invs
<1>2. ASSUME NEW p \in Params, SetRegistryParameters(c, r, p)
      PROVE  Fine(c)
  BY <1>1, <1>2, SetParametersKeeps, CalmIsFine DEF SetRegistryParameters
<1>3. ASSUME NEW p \in Registries \cup {None}, SetPrimaryRegistry(c, r, p)
      PROVE  Fine(c)
  BY <1>1, <1>3, SetPrimaryKeeps, CalmIsFine DEF SetPrimaryRegistry
<1>4. ASSUME NEW a \in Grantees, NEW may \in BOOLEAN, SetRegistrar(c, r, a, may)
      PROVE  Fine(c)
  BY <1>1, <1>4, SetRegistrarKeeps, CalmIsFine DEF SetRegistrar
<1> QED
  BY <1>2, <1>3, <1>4 DEF RegistrarCall

LEMMA ModuleCallFine ==
    ASSUME Invs, NEW c \in Users, NEW r \in Registries, nfr[r].made, ModuleCall(c, r)
    PROVE  Fine(c)
<1>1. ASSUME NEW u \in Users, NEW v \in Users, NEW ids \in SUBSET Ids \ {{}},
             BulkTransfer(c, r, u, v, ids)
      PROVE  Fine(c)
  BY <1>1, BulkFine
<1>2. ASSUME NEW id \in Ids, BuyNFI(c, r, id)
      PROVE  Fine(c)
  BY <1>2, BuyFine
<1> QED
  BY <1>1, <1>2 DEF ModuleCall

LEMMA MintFine ==
    ASSUME Invs, NEW c \in Users, NEW r \in Registries, nfr[r].made, Mint(c, r)
    PROVE  Fine(c)
<1>1. Inv /\ CoinsInv /\ StakesInv /\ MadeInv
  BY DEF Invs
<1>2. \A b \in Batches : b \in Registrations \X Registrations
  BY ChoicesAssumption
<1>3. Offered \subseteq Registrations
  BY <1>2 DEF Offered
<1>4. ASSUME NEW b \in Batches, BatchRegister(c, r, b)
      PROVE  Fine(c)
  BY <1>1, <1>2, <1>4, BatchKeeps, CalmIsFine DEF BatchRegister
<1>5. ASSUME NEW e \in Offered, LazyRegister(c, r, e)
      PROVE  Fine(c)
  BY <1>1, <1>3, <1>5, LazyRegisterKeeps, CalmIsFine DEF LazyRegister
<1>6. ASSUME NEW e \in Offered, Redeem(c, r, e)
      PROVE  Fine(c)
  BY <1>1, <1>3, <1>6, RedeemKeeps, CalmIsFine DEF Redeem
<1>7. ASSUME NEW root \in {{}, Offered}, NEW freeze \in BOOLEAN,
             SetMerkleRoot(c, r, root, freeze)
      PROVE  Fine(c)
  <2>1. root \in SUBSET Registrations
    BY <1>3
  <2> QED
    BY <1>1, <1>7, <2>1, SetMerkleRootKeeps, CalmIsFine DEF SetMerkleRoot
<1> QED
  BY <1>4, <1>5, <1>6, <1>7 DEF Mint

LEMMA ApproveFine ==
    ASSUME Invs, NEW c \in Users, NEW a \in Allowances, Approve(c, a[2], a[3], a[4])
    PROVE  Fine(c)
<1> DEFINE x == a[2]
           s == a[3]
           k == a[4]
<1>1. x \in Coins /\ s \in Spenders /\ k \in Nat
  <2>1. a \in Users \X Coins \X Spenders \X Nat
    BY AmountsAssumption
  <2> QED
    BY <2>1
<1>2. /\ allowance' = [allowance EXCEPT ![x][c][s] = k]
      /\ nfr' = nfr /\ balance' = balance
  BY DEF Approve
<1> HIDE DEF x, s, k
<1>3. allowance' \in [Coins -> [Users -> [Spenders -> Nat]]]
  BY <1>1, <1>2 DEF Invs, CoinsInv
<1>4. CoinsInv'
  BY <1>2, <1>3 DEF Invs, CoinsInv
<1> QED
  BY <1>2, <1>4, NothingIsFine

LEMMA SendCoinsFine ==
    ASSUME Invs, NEW c \in Users, NEW g \in Gifts, SendCoins(c, g[2], g[3], g[4])
    PROVE  Fine(c)
<1> DEFINE x == g[2]
           to == g[3]
           n == g[4]
<1>1. x \in Coins /\ to \in Holders /\ n \in Nat
  <2>1. g \in Users \X Coins \X Holders \X Nat
    BY AmountsAssumption
  <2> QED
    BY <2>1
<1>2. /\ balance[x][c] >= n /\ balance' = Moved(balance, x, c, to, n)
      /\ nfr' = nfr /\ allowance' = allowance
  BY DEF SendCoins
<1> HIDE DEF x, to, n
<1>3. balance' \in [Coins -> [Holders -> Nat]] /\ RegistriesKeep
  BY <1>1, <1>2, UserPays DEF Invs, CoinsInv
<1>4. CoinsInv'
  BY <1>2, <1>3 DEF Invs, CoinsInv
<1> QED
  BY <1>2, <1>3, <1>4, PayingIsFine

LEMMA CallFine ==
    ASSUME Invs, NEW c \in Users, Call(c)
    PROVE  Fine(c)
<1>1. ASSUME NEW r \in Registries, nfr[r].made,
             TokenCall(c, r) \/ RegistrarCall(c, r) \/ ModuleCall(c, r) \/ Mint(c, r)
      PROVE  Fine(c)
  BY <1>1, TokenCallFine, RegistrarCallFine, ModuleCallFine, MintFine
<1>2. ASSUME NEW e, SignEntry(c, e)
      PROVE  Fine(c)
  <2>1. nfr' = nfr /\ UNCHANGED <<balance, allowance>>
    BY <1>2 DEF SignEntry
  <2>2. CoinsInv'
    BY <2>1 DEF Invs, CoinsInv
  <2> QED
    BY <2>1, <2>2, NothingIsFine
<1> QED
  BY <1>1, <1>2, FactoryCallFine, ApproveFine, SendCoinsFine DEF Call

-----------------------------------------------------------------------------
(* All of it, from the first state on. *)

WhoInv == signed \subseteq Users \X Registrations /\ caller \in Users

AllInv == Invs /\ WhoInv

LEMMA AllInit ==
    ASSUME Init
    PROVE  AllInv
<1>1. Inv
  BY InitInv
<1>2. /\ Users \cap Registries = {} /\ Supply \in Nat /\ IsFiniteSet(Ids)
      /\ None \notin Coins /\ Admin \in Users
  BY RegistriesAssumption, AmountsAssumption
<1>3. CoinsInv
  BY <1>2 DEF Init, CoinsInv, Holders
<1>4. \A r \in Registries, id \in Ids :
          nfr[r].stake[id] = NoStake /\ nfr[r].owner[id] = None
  BY DEF Init, New
<1>5. ASSUME NEW r \in Registries, NEW x \in Coins
      PROVE  balance[x][r] >= SumFunction(StakesIn(r, x))
  <2>1. balance[x][r] = 0
    BY <1>2, <1>5 DEF Init, Holders
  <2> DEFINE f == StakesIn(r, x)
  <2>2. f \in [Ids -> Int] /\ \A i \in Ids : f[i] = 0
    BY <1>4 DEF StakesIn, NoStake
  <2> HIDE DEF f
  <2>3. SumFunction(f) = 0
    BY <1>2, <2>2, SumOfNothing
  <2> QED
    BY <2>1, <2>3 DEF f
<1>6. StakesInv
  BY <1>4, <1>5 DEF StakesInv, StakesBacked, NoStake
<1>7. MadeInv
  BY <1>4 DEF MadeInv
<1>8. WhoInv
  BY <1>2 DEF Init, WhoInv
<1> QED
  BY <1>1, <1>3, <1>6, <1>7, <1>8 DEF AllInv, Invs

\* Only a signer's own entry is added to what is signed.
LEMMA SignedKept ==
    ASSUME NEW c \in Users, Call(c)
    PROVE  signed' = signed \/ \E e \in Offered : signed' = signed \cup {<<c, e>>}
<1>1. ASSUME NEW r \in Registries, TokenCall(c, r) PROVE signed' = signed
  BY <1>1 DEF TokenCall, Register, RegisterByToken, Burn, UpdateLabel, TransferFrom,
              ApproveToken, SetApprovalForAll
<1>2. ASSUME NEW r \in Registries, RegistrarCall(c, r) PROVE signed' = signed
  BY <1>2 DEF RegistrarCall, SetRegistryParameters, SetPrimaryRegistry, SetRegistrar
<1>3. ASSUME NEW r \in Registries, ModuleCall(c, r) PROVE signed' = signed
  BY <1>3 DEF ModuleCall, BulkTransfer, BuyNFI
<1>4. ASSUME NEW r \in Registries, Mint(c, r) PROVE signed' = signed
  BY <1>4 DEF Mint, BatchRegister, LazyRegister, Redeem, SetMerkleRoot
<1>5. CASE FactoryCall(c)
  BY <1>5 DEF FactoryCall, CreateRegistry, CreateRegistryByToken, SetProfileRegistryAddress,
              SetRegistrationToken, SetRegistrationFee, SetBurnAddress
<1>6. ASSUME NEW a \in Allowances, Approve(c, a[2], a[3], a[4]) PROVE signed' = signed
  BY <1>6 DEF Approve
<1>7. ASSUME NEW g \in Gifts, SendCoins(c, g[2], g[3], g[4]) PROVE signed' = signed
  BY <1>7 DEF SendCoins
<1> QED
  BY <1>1, <1>2, <1>3, <1>4, <1>5, <1>6, <1>7 DEF Call, SignEntry

LEMMA AllStep ==
    ASSUME AllInv, NEW c \in Users, Call(c)
    PROVE  AllInv'
<1>1. Inv' /\ Fine(c)
  BY CallInv, CallFine DEF AllInv, Invs
<1>2. \A e \in Offered : e \in Registrations
  BY ChoicesAssumption DEF Offered
<1>3. caller' = c
  BY DEF Call
<1>4. signed' \subseteq Users \X Registrations
  BY <1>2, SignedKept DEF AllInv, WhoInv
<1> QED
  BY <1>1, <1>3, <1>4 DEF AllInv, Invs, Fine, CoinsKept, WhoInv

LEMMA AllStays ==
    ASSUME AllInv, UNCHANGED vars
    PROVE  AllInv'
<1>1. Inv'
  BY InvSame DEF AllInv, Invs, Inv, vars
<1>2. /\ nfr' = nfr /\ balance' = balance /\ allowance' = allowance
      /\ signed' = signed /\ caller' = caller
  BY DEF vars
<1>3. CoinsInv' /\ MadeInv' /\ WhoInv'
  BY <1>2 DEF AllInv, Invs, CoinsInv, MadeInv, WhoInv
<1>4. \A r \in Registries, x \in Coins : StakesIn(r, x)' = StakesIn(r, x)
  BY <1>2 DEF StakesIn
<1>5. StakesInv'
  BY <1>2, <1>4 DEF AllInv, Invs, StakesInv, StakesBacked
<1> QED
  BY <1>1, <1>3, <1>5 DEF AllInv, Invs

\* The whole inductive invariant: records are good, every variable has its type, the
\* balance of a registry in each coin is no less than the sum of its tokens' stakes, a
\* stake is in some coin, and only a registry that was made has tokens.
THEOREM AllStaysSound == Spec => []AllInv
<1>1. Init => AllInv
  BY AllInit
<1>2. AllInv /\ [Next]_vars => AllInv'
  BY AllStep, AllStays DEF Next
<1> QED
  BY <1>1, <1>2, PTL DEF Spec

\* Every variable has its type, for any fees, allowances and burn shares: no balance
\* or allowance becomes negative.
THEOREM RegistryTypes == Spec => []TypeOK
<1>1. AllInv => TypeOK
  BY DEF AllInv, Invs, Inv, AllGood, CoinsInv, WhoInv, TypeOK, Factory, Holders
<1> QED
  BY <1>1, AllStaysSound, PTL

\* A registry holds the stakes that it has to give back, in every coin (the transfers of
\* registerByToken and burn), whatever the registrar sets between a registration and its
\* burn, with any number of tokens, and wherever the burned shares go.
THEOREM StakesStayBacked == Spec => []StakesBacked
<1>1. AllInv => StakesBacked
  BY DEF AllInv, Invs, StakesInv
<1> QED
  BY <1>1, AllStaysSound, PTL

\* No token leaves its owner but with his, an approved account's or a registrar's
\* transaction, or by the sale of a registrar's token at the fee, whatever modules
\* have the registrar role.
THEOREM OwnersStayAsked == Spec => OwnerConsents
<1>1. ASSUME AllInv, NEW c \in Users, Call(c), NEW r \in Registries, NEW id \in Ids
      PROVE  Consents(r, id, caller')
  <2>1. AllConsent(c) /\ caller' = c
    BY <1>1, CallFine DEF AllInv, Fine, Call
  <2> QED
    BY <2>1 DEF AllConsent
<1> DEFINE Asked == \A r \in Registries, id \in Ids : Consents(r, id, caller')
<1>2. AllInv /\ [Next]_vars => [Asked]_vars
  BY <1>1 DEF Next
<1>3. [][Asked]_vars => OwnerConsents
  BY PTL DEF OwnerConsents, Consents
<1> QED
  BY <1>2, <1>3, AllStaysSound, PTL DEF Spec

=============================================================================
