---------------------------- MODULE NtokenProofs ----------------------------
(***************************************************************************)
(* Proofs about the two NFT contracts: their types, that the supply of a   *)
(* token is what its holders have, that locked tokens stay and the others  *)
(* are not stuck, that allowances add up, and that both implement a ledger *)
(* whose assets do not perish.                                             *)
(***************************************************************************)
EXTENDS Ntokens, TableProofs

(* The id of a new token *)

\* A finite set of naturals has a greatest element.
LEMMA MaxIsGreatest ==
    ASSUME NEW S, IsFiniteSet(S), S \subseteq Nat, S # {}
    PROVE  Max(S) \in S /\ \A y \in S : y <= Max(S)
<1> DEFINE h == [x \in S |-> x]
<1>1. \A x \in S : h[x] \in Int
  OBVIOUS
<1>2. \E x \in S : \A y \in S : x >= y
  <2>1. \A x \in S : h[x] = x
    OBVIOUS
  <2> HIDE DEF h
  <2>2. \E x \in S : \A y \in S : h[y] <= h[x]
    BY <1>1, GreatestOf
  <2> QED BY <2>1, <2>2
<1> DEFINE m == Max(S)
<1>3. m \in S /\ \A y \in S : m >= y
  BY <1>2 DEF Max
<1> QED BY <1>3

\* A new id is none that a token has.
LEMMA NewIdIsNew ==
    ASSUME IsTable(nstats, TokenIds, NstatRow)
    PROVE  DOMAIN nstats = {} \/ NewTokenId \notin DOMAIN nstats
<1> DEFINE S == DOMAIN nstats
<1>1. SUFFICES ASSUME S # {} PROVE NewTokenId \notin S
  OBVIOUS
<1>2. S \subseteq TokenIds /\ IsFiniteSet(S) /\ S \subseteq Nat
  <2>1. IsFiniteSet(TokenIds) /\ TokenIds \subseteq Nat
    BY NtokenInputs, FS_Interval DEF TokenIds
  <2> QED BY <2>1, FS_Subset DEF IsTable
<1>3. nstats # EmptyTable
  BY <1>1 DEF EmptyTable
<1>4. NewTokenId = Max(S) + 1
  BY <1>3 DEF NewTokenId
<1> HIDE DEF S
<1>5. Max(S) \in Nat /\ \A y \in S : y \in Nat /\ y <= Max(S)
  BY <1>1, <1>2, MaxIsGreatest
<1> QED BY <1>4, <1>5
------------------------------------------------------------------------------
(* Balances and totals of a table of accounts *)

In(a, u, n) == IF <<u, n>> \in DOMAIN a THEN a[<<u, n>>] ELSE 0
Total(a, n) == SumFunction([u \in Users |-> In(a, u, n)])

Book(a) == IsTable(a, Users \X TokenSymbols, Nat)

LEMMA BalanceIsNat == ASSUME NEW a, Book(a) PROVE \A u, n : In(a, u, n) \in Nat
BY DEF In, Book, IsTable

LEMMA BalanceIsIn == /\ \A u, n : BalanceOf(u, n) = In(accounts, u, n)
                     /\ \A u, n : BalanceOf(u, n)' = In(accounts', u, n)
BY DEF BalanceOf, In

LEMMA TotalIsSum ==
    ASSUME NEW a, Book(a), NEW n
    PROVE  /\ Total(a, n) = Sum([u \in Users |-> In(a, u, n)], Users)
           /\ Total(a, n) \in Nat
           /\ \A u \in Users : In(a, u, n) <= Total(a, n)
<1> DEFINE w == [u \in Users |-> In(a, u, n)]
<1>1. IsFiniteSet(Users)
  BY NtokenAccounts
<1>2. DOMAIN w = Users /\ \A u \in Users : w[u] = In(a, u, n) /\ w[u] \in Nat
  BY BalanceIsNat
<1>3. Total(a, n) = SumFunction(w)
  BY DEF Total
<1> HIDE DEF w
<1>4. Total(a, n) = Sum(w, Users)
  BY <1>2, <1>3, SumFunctionIsSum
<1>5. Sum(w, Users) \in Nat
  BY <1>1, <1>2, SumNat
<1>6. \A u \in Users : w[u] <= Sum(w, Users)
  BY <1>1, <1>2, SumCovers
<1> QED BY <1>2, <1>4, <1>5, <1>6 DEF w

\* Book b has d more than book a in one balance.
Differ(a, b, u, n, d) ==
    /\ Book(a) /\ u \in Users /\ d \in Int
    /\ In(b, u, n) = In(a, u, n) + d
    /\ \A v, m : (v = u /\ m = n) \/ In(b, v, m) = In(a, v, m)

LEMMA DifferShifts ==
    ASSUME NEW a, NEW b, NEW u, NEW n, NEW d, Differ(a, b, u, n, d)
    PROVE  \A m : Total(b, m) = Total(a, m) + (IF m = n THEN d ELSE 0)
<1> SUFFICES ASSUME NEW m PROVE Total(b, m) = Total(a, m) + (IF m = n THEN d ELSE 0)
  OBVIOUS
<1> DEFINE w == [v \in Users |-> In(a, v, m)]
           x == [v \in Users |-> In(b, v, m)]
<1>1. IsFiniteSet(Users) /\ u \in Users /\ d \in Int /\ Book(a)
  BY NtokenAccounts DEF Differ
<1>2. Total(a, m) = Sum(w, Users) /\ Total(a, m) \in Nat
  BY <1>1, TotalIsSum
<1>3. DOMAIN x = Users /\ Total(b, m) = SumFunction(x)
  BY DEF Total
<1>4. \A v \in Users : w[v] \in Int
  BY <1>1, BalanceIsNat
<1>5. \A v \in Users \ {u} : x[v] = w[v]
  BY DEF Differ
<1>6. x[u] = IF m = n THEN w[u] + d ELSE w[u]
  BY <1>1 DEF Differ
<1> HIDE DEF w, x
<1>7. Total(b, m) = Sum(x, Users)
  BY <1>3, SumFunctionIsSum
<1>8. x[u] \in Int
  BY <1>1, <1>4, <1>6
<1>9. Sum(x, Users) = Sum(w, Users) - w[u] + x[u]
  BY <1>1, <1>4, <1>5, <1>8, SumUpdate
<1>10. CASE m = n
  BY <1>1, <1>2, <1>4, <1>6, <1>7, <1>9, <1>10
<1>11. CASE m # n
  BY <1>1, <1>2, <1>4, <1>6, <1>7, <1>9, <1>11
<1> QED BY <1>10, <1>11
------------------------------------------------------------------------------
(* The inductive invariant of what both contracts share *)

Rows(t) ==
    /\ IsTable(t, TokenIds, NstatRow)
    /\ \A i \in DOMAIN t : t[i].symbol.id = i /\ t[i].supply <= t[i].max_supply

Books == \A i \in DOMAIN nstats : nstats[i].supply = Total(accounts, nstats[i].symbol)

NtokenInv ==
    /\ notaries \subseteq Users /\ creators \subseteq Users
    /\ Rows(nstats) /\ Book(accounts) /\ Books
    /\ \A k \in DOMAIN accounts : Names(k[2])

\* The invariant has the types.
LEMMA InvHasTypes == ASSUME NtokenInv PROVE TypeOK
BY DEF NtokenInv, TypeOK, Rows, Book

\* It has the supply.
LEMMA InvHasSupply == ASSUME NtokenInv PROVE SupplyIsHeld
<1>1. \A i \in DOMAIN nstats :
        nstats[i].supply = SumFunction([u \in Users |-> BalanceOf(u, nstats[i].symbol)])
  BY DEF NtokenInv, Books, Total, In, BalanceOf
<1> QED BY <1>1 DEF SupplyIsHeld, NtokenInv

LEMMA NtokenInvInit == ASSUME Init PROVE NtokenInv
<1>1. DOMAIN nstats = {} /\ DOMAIN accounts = {} /\ notaries = {} /\ creators = {}
  BY DEF Init, EmptyTable
<1> QED BY <1>1 DEF NtokenInv, Rows, Book, Books, IsTable

LEMMA NtokenInvStays == ASSUME NtokenInv, UNCHANGED ntokenvars PROVE NtokenInv'
BY DEF NtokenInv, ntokenvars, Rows, Book, Books, Total, In, Names, is_valid

\* A token that is named has its own symbol.
LEMMA NamedIsSymbol ==
    ASSUME NtokenInv, NEW n, Names(n)
    PROVE  /\ n \in TokenSymbols /\ n.id \in DOMAIN nstats /\ n.id \in TokenIds
           /\ nstats[n.id] \in NstatRow /\ nstats[n.id].issuer \in Users
           /\ nstats[n.id].supply = Total(accounts, n)
           /\ nstats[n.id].supply <= nstats[n.id].max_supply
BY DEF NtokenInv, Names, Rows, IsTable, NstatRow, Books
------------------------------------------------------------------------------
(* Tokens *)

\* An action that changes what a row says of its token, and not its symbol or supply.
OnlyDescribes ==
    /\ DOMAIN nstats' = DOMAIN nstats
    /\ \A i \in DOMAIN nstats :
          /\ nstats'[i] \in NstatRow /\ nstats'[i].symbol = nstats[i].symbol
          /\ nstats'[i].supply = nstats[i].supply
          /\ nstats'[i].max_supply = nstats[i].max_supply
          /\ nstats'[i].issuer = nstats[i].issuer
    /\ accounts' = accounts
    /\ notaries' \subseteq Users /\ creators' \subseteq Users

LEMMA DescribeKeeps == ASSUME NtokenInv, OnlyDescribes PROVE NtokenInv'
<1> USE DEF OnlyDescribes
<1>1. Rows(nstats')
  BY DEF NtokenInv, Rows, IsTable
<1>2. \A i \in DOMAIN nstats' : nstats'[i].supply = Total(accounts', nstats'[i].symbol)
  BY DEF NtokenInv, Books
<1>3. \A k \in DOMAIN accounts' : Names(k[2])'
  BY DEF NtokenInv, Names, is_valid
<1>4. Book(accounts')
  BY DEF NtokenInv
<1> QED BY <1>1, <1>2, <1>3, <1>4 DEF NtokenInv, Rows, Book, Books, Total, In

\* Changing the rows' other fields only.
LEMMA EditDescribes ==
    ASSUME NtokenInv, NEW i \in DOMAIN nstats, NEW row,
           row \in NstatRow, row.symbol = nstats[i].symbol, row.supply = nstats[i].supply,
           row.max_supply = nstats[i].max_supply, row.issuer = nstats[i].issuer,
           nstats' = [nstats EXCEPT ![i] = row], UNCHANGED <<notaries, creators, accounts>>
    PROVE  OnlyDescribes
BY DEF OnlyDescribes, NtokenInv, Rows, IsTable

LEMMA RegisterDescribes == ASSUME NtokenInv, Register PROVE OnlyDescribes
<1>0. \A i \in DOMAIN nstats : nstats[i] \in NstatRow
  BY DEF NtokenInv, Rows, IsTable
<1>1. ASSUME NEW i \in TokenIds, NEW u \in IpOwners, setipowner(i, u) PROVE OnlyDescribes
  <2> DEFINE row == [nstats[i] EXCEPT !.ipowner = u]
  <2>1. /\ i \in DOMAIN nstats /\ nstats[i] \in NstatRow
        /\ nstats' = [nstats EXCEPT ![i] = row] /\ u \in Users \cup {Nobody}
    BY <1>0, <1>1, NtokenAccounts DEF setipowner
  <2>2. /\ row \in NstatRow /\ row.symbol = nstats[i].symbol
        /\ row.supply = nstats[i].supply /\ row.max_supply = nstats[i].max_supply
        /\ row.issuer = nstats[i].issuer
    BY <2>1 DEF NstatRow
  <2> HIDE DEF row
  <2> QED BY <1>1, <2>1, <2>2, EditDescribes DEF setipowner
<1>2. ASSUME NEW i \in TokenIds, NEW w \in NewUris, settokenuri(i, w) PROVE OnlyDescribes
  <2> DEFINE row == [nstats[i] EXCEPT !.token_uri = w]
  <2>1. /\ i \in DOMAIN nstats /\ nstats[i] \in NstatRow
        /\ nstats' = [nstats EXCEPT ![i] = row] /\ w \in Uris
    BY <1>0, <1>2, NtokenInputs DEF settokenuri
  <2>2. /\ row \in NstatRow /\ row.symbol = nstats[i].symbol
        /\ row.supply = nstats[i].supply /\ row.max_supply = nstats[i].max_supply
        /\ row.issuer = nstats[i].issuer
    BY <2>1 DEF NstatRow
  <2> HIDE DEF row
  <2> QED BY <1>2, <2>1, <2>2, EditDescribes DEF settokenuri
<1>3. ASSUME NEW u \in Notaries, NEW a \in BOOLEAN, setnotary(u, a) PROVE OnlyDescribes
  BY <1>0, <1>3, NtokenAccounts DEF OnlyDescribes, setnotary, NtokenInv
<1>4. ASSUME NEW u \in Notaries, NEW i \in TokenIds, notarize(u, i) PROVE OnlyDescribes
  <2> DEFINE row == [nstats[i] EXCEPT !.notary = u]
  <2>1. /\ i \in DOMAIN nstats /\ nstats[i] \in NstatRow
        /\ nstats' = [nstats EXCEPT ![i] = row] /\ u \in Users \cup {Nobody}
    BY <1>0, <1>4, NtokenAccounts DEF notarize
  <2>2. /\ row \in NstatRow /\ row.symbol = nstats[i].symbol
        /\ row.supply = nstats[i].supply /\ row.max_supply = nstats[i].max_supply
        /\ row.issuer = nstats[i].issuer
    BY <2>1 DEF NstatRow
  <2> HIDE DEF row
  <2> QED BY <1>4, <2>1, <2>2, EditDescribes DEF notarize
<1>5. ASSUME NEW u \in Makers, NEW a \in BOOLEAN, setcreator(u, a) PROVE OnlyDescribes
  BY <1>0, <1>5, NtokenAccounts DEF OnlyDescribes, setcreator, NtokenInv
<1> QED BY <1>1, <1>2, <1>3, <1>4, <1>5 DEF Register

LEMMA RegisterKeeps == ASSUME NtokenInv, Register PROVE NtokenInv'
BY RegisterDescribes, DescribeKeeps

\* What create does: a row for symbol t, of an id that had none.
Created(u, k, t) ==
    /\ t \in TokenSymbols /\ t.id \in TokenIds /\ t.id \notin DOMAIN nstats
    /\ DOMAIN nstats' = DOMAIN nstats \cup {t.id}
    /\ nstats'[t.id] \in NstatRow
    /\ nstats'[t.id].symbol = t /\ nstats'[t.id].issuer = u
    /\ nstats'[t.id].supply = 0 /\ nstats'[t.id].max_supply = k
    /\ \A i \in DOMAIN nstats : nstats'[i] = nstats[i]
    /\ k \in MaxSupplies /\ UNCHANGED <<notaries, creators, accounts>>

LEMMA CreateAdds ==
    ASSUME NtokenInv, NEW u \in Makers, NEW k \in MaxSupplies, NEW n \in Symbols,
           NEW w \in Uris, NEW o \in IpOwners, create(u, k, n, w, o)
    PROVE  \E t \in TokenSymbols : Created(u, k, t)
<1> DEFINE id  == IF n.id = 0 THEN NewTokenId ELSE n.id
           t   == [n EXCEPT !.id = id]
           row == [symbol |-> t, supply |-> 0, max_supply |-> k, token_uri |-> w,
                   ipowner |-> o, notary |-> Nobody, issuer |-> u]
<1>1. /\ id \in TokenIds /\ nstats' = Emplace(nstats, id, row) /\ n.id \notin DOMAIN nstats
      /\ UNCHANGED <<notaries, creators, accounts>>
  BY DEF create
<1>2. id \notin DOMAIN nstats
  <2>1. DOMAIN nstats = {} \/ NewTokenId \notin DOMAIN nstats
    BY NewIdIsNew DEF NtokenInv, Rows
  <2> QED BY <1>1, <2>1
<1> HIDE DEF id
<1>3. t \in TokenSymbols /\ t.id = id
  <2>1. n \in [id : 0 .. MaxId, parent_id : Nat]
    BY NtokenInputs
  <2>2. t = [id |-> id, parent_id |-> n.parent_id]
    BY <2>1
  <2> QED BY <1>1, <2>2 DEF TokenSymbols
<1> HIDE DEF t
<1>4. /\ row \in NstatRow /\ row.symbol = t /\ row.supply = 0 /\ row.max_supply = k
      /\ row.issuer = u
  <2>1. u \in Users /\ o \in Users \cup {Nobody} /\ k \in Nat \ {0}
    BY NtokenAccounts, NtokenInputs
  <2> QED BY <1>3, <2>1 DEF NstatRow
<1> HIDE DEF row
<1>5. /\ DOMAIN nstats' = DOMAIN nstats \cup {id} /\ nstats'[id] = row
      /\ \A i \in DOMAIN nstats : nstats'[i] = nstats[i]
  BY <1>1, <1>2 DEF Emplace
<1>6. Created(u, k, t)
  BY <1>1, <1>2, <1>3, <1>4, <1>5 DEF Created
<1> QED BY <1>3, <1>6

\* A new token is one that nobody has anything of.
LEMMA CreateKeeps ==
    ASSUME NtokenInv, NEW u, NEW k, NEW t, Created(u, k, t)
    PROVE  NtokenInv'
<1>1. /\ t \in TokenSymbols /\ t.id \in TokenIds /\ t.id \notin DOMAIN nstats
      /\ DOMAIN nstats' = DOMAIN nstats \cup {t.id}
      /\ nstats'[t.id] \in NstatRow /\ nstats'[t.id].symbol = t
      /\ nstats'[t.id].supply = 0 /\ nstats'[t.id].max_supply = k
      /\ \A i \in DOMAIN nstats : nstats'[i] = nstats[i]
      /\ k \in MaxSupplies /\ UNCHANGED <<notaries, creators, accounts>>
  BY DEF Created
<1>2. Rows(nstats')
  <2>1. \A i \in DOMAIN nstats' :
          /\ i \in TokenIds /\ nstats'[i] \in NstatRow
          /\ nstats'[i].symbol.id = i /\ nstats'[i].supply <= nstats'[i].max_supply
    BY <1>1, NtokenInputs DEF NtokenInv, Rows, IsTable
  <2> QED BY <2>1 DEF Rows, IsTable
<1>3. Total(accounts, t) = 0
  <2> DEFINE v == [x \in Users |-> In(accounts, x, t)]
  <2>1. \A x \in Users : v[x] = 0
    <3> SUFFICES ASSUME NEW x \in Users, <<x, t>> \in DOMAIN accounts PROVE FALSE
      BY DEF In
    <3> DEFINE j == <<x, t>>
    <3>1. Names(j[2])
      BY DEF NtokenInv
    <3> QED BY <1>1, <3>1 DEF Names
  <2>2. Total(accounts, t) = Sum(v, Users) /\ IsFiniteSet(Users)
    BY TotalIsSum, NtokenAccounts DEF NtokenInv
  <2> HIDE DEF v
  <2> QED BY <2>1, <2>2, SumZero
<1>4. \A i \in DOMAIN nstats' : nstats'[i].supply = Total(accounts', nstats'[i].symbol)
  BY <1>1, <1>3 DEF NtokenInv, Books
<1>5. \A j \in DOMAIN accounts' : Names(j[2])'
  BY <1>1 DEF NtokenInv, Names, is_valid
<1>6. Book(accounts')
  BY <1>1 DEF NtokenInv
<1> QED BY <1>1, <1>2, <1>4, <1>5, <1>6 DEF NtokenInv, Rows, Book, Books, Total, In
------------------------------------------------------------------------------
(* Supply *)

\* A token whose supply changes by d together with a balance of its issuer.
Supplied(n, d) ==
    /\ Names(n) /\ d \in Int
    /\ nstats[n.id].supply + d <= nstats[n.id].max_supply
    /\ nstats' = [nstats EXCEPT ![n.id].supply = @ + d]
    /\ DOMAIN accounts' = DOMAIN accounts \cup {<<nstats[n.id].issuer, n>>}
    /\ Differ(accounts, accounts', nstats[n.id].issuer, n, d)
    /\ In(accounts', nstats[n.id].issuer, n) \in Nat
    /\ UNCHANGED <<notaries, creators>>

LEMMA SuppliedKeeps ==
    ASSUME NtokenInv, NEW n, NEW d, Supplied(n, d)
    PROVE  NtokenInv'
<1> DEFINE u == nstats[n.id].issuer
           new == nstats[n.id].supply + d
<1>1. /\ n \in TokenSymbols /\ n.id \in DOMAIN nstats /\ n.id \in TokenIds
      /\ nstats[n.id] \in NstatRow /\ u \in Users
      /\ nstats[n.id].supply = Total(accounts, n) /\ nstats[n.id].symbol = n
  <2>1. Names(n)
    BY DEF Supplied
  <2> QED BY <2>1, NamedIsSymbol DEF Names
<1>2. Book(accounts')
  <2>1. \A v, m : (v = u /\ m = n) \/ In(accounts', v, m) = In(accounts, v, m)
    BY DEF Supplied, Differ
  <2>2. \A v, m : In(accounts, v, m) \in Nat
    BY BalanceIsNat DEF NtokenInv
  <2>3. \A v, m : In(accounts', v, m) \in Nat
    BY <2>1, <2>2 DEF Supplied
  <2>4. DOMAIN accounts' \subseteq Users \X TokenSymbols
    BY <1>1 DEF Supplied, NtokenInv, Book, IsTable
  <2>5. ASSUME NEW k \in DOMAIN accounts' PROVE accounts'[k] \in Nat
    <3>1. PICK v \in Users, m \in TokenSymbols : k = <<v, m>>
      BY <2>4
    <3> QED BY <2>3, <3>1 DEF In
  <2> QED BY <2>4, <2>5 DEF Book, IsTable
<1>3. \A m : Total(accounts', m) = Total(accounts, m) + (IF m = n THEN d ELSE 0)
  BY DifferShifts DEF Supplied
<1>4. new = Total(accounts', n) /\ new \in Nat /\ new <= nstats[n.id].max_supply
  <2>1. new = Total(accounts', n)
    BY <1>1, <1>3
  <2>2. Total(accounts', n) \in Nat
    BY <1>2, TotalIsSum
  <2> QED BY <2>1, <2>2 DEF Supplied
<1>5. /\ DOMAIN nstats' = DOMAIN nstats
      /\ nstats'[n.id] = [nstats[n.id] EXCEPT !.supply = new]
      /\ \A i \in DOMAIN nstats : i # n.id => nstats'[i] = nstats[i]
  BY <1>1 DEF Supplied
<1> HIDE DEF new
<1>6. /\ nstats'[n.id] \in NstatRow /\ nstats'[n.id].symbol = n
      /\ nstats'[n.id].supply = new /\ nstats'[n.id].max_supply = nstats[n.id].max_supply
  BY <1>1, <1>4, <1>5 DEF NstatRow
<1>7. Rows(nstats')
  <2> SUFFICES ASSUME NEW i \in DOMAIN nstats'
               PROVE  /\ i \in TokenIds /\ nstats'[i] \in NstatRow /\ nstats'[i].symbol.id = i
                      /\ nstats'[i].supply <= nstats'[i].max_supply
    BY DEF Rows, IsTable
  <2>1. CASE i = n.id
    BY <1>1, <1>4, <1>6, <2>1
  <2>2. CASE i # n.id
    BY <1>5, <2>2 DEF NtokenInv, Rows, IsTable
  <2> QED BY <2>1, <2>2
<1>8. \A i \in DOMAIN nstats' : nstats'[i].supply = Total(accounts', nstats'[i].symbol)
  <2> SUFFICES ASSUME NEW i \in DOMAIN nstats'
               PROVE  nstats'[i].supply = Total(accounts', nstats'[i].symbol)
    OBVIOUS
  <2>1. CASE i = n.id
    BY <1>4, <1>6, <2>1
  <2>2. CASE i # n.id
    <3>1. /\ nstats'[i] = nstats[i] /\ nstats[i].symbol.id = i
          /\ nstats[i].supply = Total(accounts, nstats[i].symbol)
      BY <1>5, <2>2 DEF NtokenInv, Rows, Books
    <3>2. nstats[i].symbol # n
      BY <2>2, <3>1
    <3>3. Total(accounts, nstats[i].symbol) \in Nat
      BY TotalIsSum DEF NtokenInv
    <3>4. Total(accounts', nstats[i].symbol) = Total(accounts, nstats[i].symbol)
      BY <1>3, <3>2, <3>3
    <3> QED BY <3>1, <3>4
  <2> QED BY <2>1, <2>2
<1>9. \A m : Names(m) => Names(m)'
  BY <1>1, <1>5, <1>6 DEF Names, is_valid
<1>10. \A k \in DOMAIN accounts' : Names(k[2])'
  BY <1>9 DEF NtokenInv, Supplied
<1>11. notaries' \subseteq Users /\ creators' \subseteq Users
  BY DEF NtokenInv, Supplied
<1> QED BY <1>2, <1>7, <1>8, <1>10, <1>11 DEF NtokenInv, Rows, Book, Books, Total, In

LEMMA IssueSupplies ==
    ASSUME NtokenInv, NEW n \in TokenSymbols, NEW q \in Amounts, issue(n, q)
    PROVE  Supplied(n, q)
<1> DEFINE u == nstats[n.id].issuer
<1>1. /\ Names(n) /\ q <= nstats[n.id].max_supply - nstats[n.id].supply
      /\ nstats' = [nstats EXCEPT ![n.id].supply = @ + q]
      /\ accounts' = Emplace(accounts, <<u, n>>, BalanceOf(u, n) + q)
      /\ UNCHANGED <<notaries, creators>>
  BY DEF issue, WithinMax
<1>2. u \in Users /\ q \in Nat /\ nstats[n.id] \in NstatRow /\ Book(accounts)
  BY <1>1, NamedIsSymbol, NtokenInputs DEF NtokenInv
<1>3. nstats[n.id].supply + q <= nstats[n.id].max_supply
  BY <1>1, <1>2 DEF NstatRow
<1> HIDE DEF u
<1>4. In(accounts, u, n) \in Nat /\ BalanceOf(u, n) = In(accounts, u, n)
  BY <1>2, BalanceIsNat, BalanceIsIn
<1>5. DOMAIN accounts' = DOMAIN accounts \cup {<<u, n>>}
  BY <1>1 DEF Emplace
<1>6. Differ(accounts, accounts', u, n, q) /\ In(accounts', u, n) \in Nat
  <2>1. In(accounts', u, n) = In(accounts, u, n) + q
    BY <1>1, <1>4 DEF Emplace, In
  <2>2. ASSUME NEW v, NEW m, <<v, m>> # <<u, n>> PROVE In(accounts', v, m) = In(accounts, v, m)
    BY <1>1, <2>2 DEF Emplace, In
  <2>3. \A v, m : (v = u /\ m = n) \/ In(accounts', v, m) = In(accounts, v, m)
    BY <2>2
  <2> QED BY <1>2, <1>4, <2>1, <2>3 DEF Differ
<1> QED BY <1>1, <1>2, <1>3, <1>5, <1>6 DEF Supplied, u

LEMMA RetireSupplies ==
    ASSUME NtokenInv, NEW n \in TokenSymbols, NEW q \in Amounts, retire(n, q)
    PROVE  Supplied(n, 0 - q) /\ q <= In(accounts, nstats[n.id].issuer, n)
<1> DEFINE u == nstats[n.id].issuer
           k == <<u, n>>
<1>1. /\ Names(n) /\ q <= BalanceOf(u, n)
      /\ accounts' = [accounts EXCEPT ![k] = @ - q]
      /\ nstats' = [nstats EXCEPT ![n.id] = Retired(nstats[n.id], q)]
      /\ UNCHANGED <<notaries, creators>>
  BY DEF retire
<1>2. /\ u \in Users /\ q \in Nat /\ q > 0 /\ nstats[n.id] \in NstatRow /\ Book(accounts)
      /\ nstats[n.id].supply <= nstats[n.id].max_supply
  BY <1>1, NamedIsSymbol, NtokenInputs DEF NtokenInv
<1>3. /\ nstats' = [nstats EXCEPT ![n.id].supply = @ + (0 - q)]
      /\ nstats[n.id].supply + (0 - q) <= nstats[n.id].max_supply
  <2>1. nstats[n.id].supply \in Nat /\ nstats[n.id].max_supply \in Nat
    BY <1>2 DEF NstatRow
  <2>2. nstats[n.id].supply - q = nstats[n.id].supply + (0 - q)
    BY <1>2, <2>1
  <2>3. Retired(nstats[n.id], q) = [nstats[n.id] EXCEPT !.supply = nstats[n.id].supply + (0 - q)]
    BY <2>2 DEF Retired
  <2>4. nstats' = [nstats EXCEPT ![n.id].supply = @ + (0 - q)]
    BY <1>1, <2>3
  <2>5. nstats[n.id].supply + (0 - q) <= nstats[n.id].max_supply
    BY <1>2, <2>1
  <2> QED BY <2>4, <2>5
<1>4. In(accounts, u, n) \in Nat /\ BalanceOf(u, n) = In(accounts, u, n)
  BY <1>2, BalanceIsNat, BalanceIsIn
<1>5. k \in DOMAIN accounts
  BY <1>1, <1>2 DEF BalanceOf
<1>6. accounts[k] = In(accounts, u, n)
  BY <1>5 DEF In
<1> HIDE DEF u
<1>7. In(accounts', u, n) = In(accounts, u, n) + (0 - q) /\ In(accounts', u, n) \in Nat
  <2>1. In(accounts', u, n) = accounts[k] - q
    BY <1>1, <1>5 DEF In
  <2> HIDE DEF k
  <2> QED BY <1>1, <1>2, <1>4, <1>6, <2>1
<1>8. DOMAIN accounts' = DOMAIN accounts \cup {k}
  BY <1>1, <1>5
<1>9. Differ(accounts, accounts', u, n, 0 - q)
  <2>2. ASSUME NEW v, NEW m, <<v, m>> # k PROVE In(accounts', v, m) = In(accounts, v, m)
    BY <1>1, <2>2 DEF In
  <2>3. \A v, m : (v = u /\ m = n) \/ In(accounts', v, m) = In(accounts, v, m)
    BY <2>2
  <2> QED BY <1>2, <1>7, <2>3 DEF Differ
<1>10. Supplied(n, 0 - q)
  <2>1. 0 - q \in Int
    BY <1>2
  <2> DEFINE d == 0 - q
  <2> HIDE DEF d
  <2>2. Supplied(n, d)
    BY <1>1, <1>3, <1>7, <1>8, <1>9, <2>1 DEF Supplied, u, d
  <2> QED BY <2>2 DEF d
<1> QED BY <1>1, <1>4, <1>10 DEF u
------------------------------------------------------------------------------
(* Transfers *)

\* What a transfer adds to a balance.
Change(from, to, s, u, n) ==
    IF n \notin DOMAIN s THEN 0 ELSE IF u = to THEN s[n] ELSE IF u = from THEN 0 - s[n] ELSE 0

\* The balances after a transfer.
Moved(from, to, s) ==
    /\ \A u, n : In(accounts', u, n) = In(accounts, u, n) + Change(from, to, s, u, n)
    /\ \A u, n : In(accounts', u, n) \in Nat
    /\ from # to /\ \A n \in DOMAIN s : Names(n) /\ s[n] \in Nat /\ s[n] > 0
    /\ DOMAIN accounts' = DOMAIN accounts \cup {<<to, n>> : n \in DOMAIN s}
    /\ UNCHANGED <<notaries, creators, nstats>>

LEMMA MovesChange ==
    ASSUME NtokenInv, NEW from \in Users, NEW to \in Users, NEW s \in Batches, Moves(from, to, s)
    PROVE  Moved(from, to, s)
<1> DEFINE D == DOMAIN accounts \cup {<<to, n>> : n \in DOMAIN s}
<1>1. /\ from # to /\ \A n \in DOMAIN s : Names(n) /\ s[n] <= BalanceOf(from, n)
      /\ UNCHANGED <<notaries, creators, nstats>>
  BY DEF Moves
<1>2. \A n \in DOMAIN s : s[n] \in Nat /\ s[n] > 0
  BY NtokenInputs
<1>3. DOMAIN accounts' = D
  BY DEF Moves
<1>4. \A u, n : In(accounts, u, n) \in Nat
  BY BalanceIsNat DEF NtokenInv
<1>5. \A n \in DOMAIN s : s[n] <= In(accounts, from, n)
  BY <1>1, BalanceIsIn
<1>6. ASSUME NEW u, NEW n
      PROVE  In(accounts', u, n) = In(accounts, u, n) + Change(from, to, s, u, n)
  <2> DEFINE k == <<u, n>>
  <2>1. CASE k \in D
    <3>1. accounts'[k] = BalanceOf(u, n)
             + (IF n \notin DOMAIN s THEN 0
                ELSE IF u = to THEN s[n] ELSE IF u = from THEN -s[n] ELSE 0)
      BY <2>1 DEF Moves
    <3>2. n \in DOMAIN s => -s[n] = 0 - s[n]
      BY <1>2
    <3>3. accounts'[k] = BalanceOf(u, n) + Change(from, to, s, u, n)
      BY <3>1, <3>2 DEF Change
    <3>4. In(accounts', u, n) = accounts'[k]
      BY <1>3, <2>1 DEF In
    <3> QED BY <3>3, <3>4, BalanceIsIn
  <2>2. CASE k \notin D
    <3>1. In(accounts', u, n) = 0 /\ In(accounts, u, n) = 0
      BY <1>3, <2>2 DEF In
    <3>2. n \in DOMAIN s => u # to
      BY <2>2
    <3>3. n \in DOMAIN s => u # from
      <4> SUFFICES ASSUME n \in DOMAIN s, u = from PROVE FALSE
        OBVIOUS
      <4> QED BY <1>2, <1>5, <3>1
    <3>4. Change(from, to, s, u, n) = 0
      BY <3>2, <3>3 DEF Change
    <3> QED BY <3>1, <3>4
  <2> QED BY <2>1, <2>2
<1>7. ASSUME NEW u, NEW n PROVE In(accounts', u, n) \in Nat
  <2>1. In(accounts', u, n) = In(accounts, u, n) + Change(from, to, s, u, n)
    BY <1>6
  <2>2. CASE n \notin DOMAIN s
    BY <1>4, <2>1, <2>2 DEF Change
  <2>3. CASE n \in DOMAIN s
    <3>1. CASE u = to
      BY <1>2, <1>4, <2>1, <2>3, <3>1 DEF Change
    <3>2. CASE u # to /\ u = from
      BY <1>2, <1>4, <1>5, <2>1, <2>3, <3>2 DEF Change
    <3>3. CASE u # to /\ u # from
      BY <1>4, <2>1, <2>3, <3>3 DEF Change
    <3> QED BY <3>1, <3>2, <3>3
  <2> QED BY <2>2, <2>3
<1> QED BY <1>1, <1>2, <1>3, <1>6, <1>7 DEF Moved

LEMMA MovesKeep ==
    ASSUME NtokenInv, NEW from \in Users, NEW to \in Users, NEW s \in Batches, Moves(from, to, s)
    PROVE  NtokenInv'
<1>1. /\ \A u, n : In(accounts', u, n) = In(accounts, u, n) + Change(from, to, s, u, n)
      /\ \A u, n : In(accounts', u, n) \in Nat
      /\ from # to /\ \A n \in DOMAIN s : Names(n) /\ s[n] \in Nat /\ s[n] > 0
      /\ DOMAIN accounts' = DOMAIN accounts \cup {<<to, n>> : n \in DOMAIN s}
      /\ UNCHANGED <<notaries, creators, nstats>>
  BY MovesChange DEF Moved
<1>2. Book(accounts')
  <2>1. \A n \in DOMAIN s : n \in TokenSymbols
    BY <1>1, NamedIsSymbol
  <2>2. DOMAIN accounts' \subseteq Users \X TokenSymbols
    BY <1>1, <2>1 DEF NtokenInv, Book, IsTable
  <2>3. ASSUME NEW k \in DOMAIN accounts' PROVE accounts'[k] \in Nat
    <3>1. PICK v \in Users, m \in TokenSymbols : k = <<v, m>>
      BY <2>2
    <3> QED BY <1>1, <3>1 DEF In
  <2> QED BY <2>2, <2>3 DEF Book, IsTable
<1>3. ASSUME NEW n PROVE Total(accounts', n) = Total(accounts, n)
  <2> DEFINE w == [u \in Users |-> In(accounts, u, n)]
             v == [u \in Users |-> In(accounts', u, n)]
  <2>1. Total(accounts, n) = Sum(w, Users) /\ Total(accounts', n) = Sum(v, Users)
    BY <1>2, TotalIsSum DEF NtokenInv
  <2>2. \A u \in Users : w[u] \in Int /\ v[u] \in Int
    BY <1>1, BalanceIsNat DEF NtokenInv
  <2>3. \A u \in Users : v[u] = w[u] + Change(from, to, s, u, n)
    BY <1>1
  <2> HIDE DEF w, v
  <2>4. v[from] + v[to] = w[from] + w[to]
    <3>1. CASE n \in DOMAIN s
      <4>1. v[from] = w[from] + (0 - s[n]) /\ v[to] = w[to] + s[n] /\ s[n] \in Nat
        BY <1>1, <2>3, <3>1 DEF Change
      <4> QED BY <2>2, <4>1
    <3>2. CASE n \notin DOMAIN s
      BY <2>2, <2>3, <3>2 DEF Change
    <3> QED BY <3>1, <3>2
  <2>5. \A u \in Users \ {from, to} : v[u] = w[u]
    BY <2>2, <2>3 DEF Change
  <2>6. IsFiniteSet(Users)
    BY NtokenAccounts
  <2> QED BY <1>1, <2>1, <2>2, <2>4, <2>5, <2>6, SumMove
<1>4. \A i \in DOMAIN nstats' : nstats'[i].supply = Total(accounts', nstats'[i].symbol)
  BY <1>1, <1>3 DEF NtokenInv, Books
<1>5. \A k \in DOMAIN accounts' : Names(k[2])'
  <2>1. \A k \in DOMAIN accounts' : Names(k[2])
    BY <1>1 DEF NtokenInv
  <2> QED BY <1>1, <2>1 DEF Names, is_valid
<1>6. Rows(nstats') /\ notaries' \subseteq Users /\ creators' \subseteq Users
  BY <1>1 DEF NtokenInv
<1> QED BY <1>2, <1>4, <1>5, <1>6 DEF NtokenInv, Rows, Book, Books, Total, In

\* Whatever both contracts do keeps the invariant.
LEMMA CommonKeeps ==
    ASSUME NtokenInv, NEW A, Create(A) \/ Register \/ Supply
    PROVE  NtokenInv'
<1>1. CASE Create(A)
  BY <1>1, CreateAdds, CreateKeeps DEF Create
<1>2. CASE Register
  BY <1>2, RegisterKeeps
<1>3. CASE Supply
  BY <1>3, IssueSupplies, RetireSupplies, SuppliedKeeps DEF Supply
<1> QED BY <1>1, <1>2, <1>3
------------------------------------------------------------------------------
(* nftone.ntoken *)

\* A lock that is still needed has its row.
LocksKept == \A n \in DOMAIN windows : n \in DOMAIN locknsymbols \/ now > windows[n][2]

NftoneInv == NtokenInv /\ TypeOK_nftone /\ LocksKept

LEMMA NftoneInvInit == ASSUME Init_nftone PROVE NftoneInv
<1>1. DOMAIN tswhitelist = {} /\ DOMAIN locknsymbols = {} /\ DOMAIN windows = {} /\ now = 0
  BY DEF Init_nftone, EmptyTable
<1>2. NtokenInv
  BY NtokenInvInit DEF Init_nftone
<1> QED BY <1>1, <1>2 DEF NftoneInv, TypeOK_nftone, LocksKept, IsTable

LEMMA LockKeeps ==
    ASSUME NftoneInv, NEW n \in TokenSymbols, NEW b \in Nat, NEW e \in Nat, setlocktime(n, b, e)
    PROVE  NftoneInv'
<1> DEFINE x == <<b, e>>
<1>1. /\ locknsymbols' = Emplace(locknsymbols, n, x) /\ windows' = Emplace(windows, n, x)
      /\ UNCHANGED <<ntokenvars, tswhitelist, now>> /\ x \in Nat \X Nat
  BY DEF setlocktime
<1> HIDE DEF x
<1>2. NtokenInv'
  BY <1>1, NtokenInvStays DEF NftoneInv
<1>3. IsTable(windows', TokenSymbols, Nat \X Nat)
  BY <1>1, EmplaceTable DEF NftoneInv, TypeOK_nftone
<1>4. IsTable(locknsymbols', DOMAIN windows', Nat \X Nat)
  <2>1. DOMAIN windows' = DOMAIN windows \cup {n}
    BY <1>1, EmplaceRows
  <2>2. DOMAIN windows \subseteq DOMAIN windows' /\ n \in DOMAIN windows'
    BY <2>1
  <2> QED BY <1>1, <2>2, EmplaceTable DEF NftoneInv, TypeOK_nftone
<1>5. \A m \in DOMAIN locknsymbols' : locknsymbols'[m] = windows'[m]
  BY <1>1 DEF NftoneInv, TypeOK_nftone, Emplace, IsTable
<1>6. \A m \in DOMAIN windows' : m \in DOMAIN locknsymbols' \/ now' > windows'[m][2]
  BY <1>1 DEF NftoneInv, LocksKept, Emplace
<1>7. IsTable(tswhitelist', Users \X TokenSymbols, [allow_send : BOOLEAN, allow_recv : BOOLEAN])
  BY <1>1 DEF NftoneInv, TypeOK_nftone
<1>8. now' \in Nat
  BY <1>1 DEF NftoneInv, TypeOK_nftone
<1> QED BY <1>2, <1>3, <1>4, <1>5, <1>6, <1>7, <1>8 DEF NftoneInv, TypeOK_nftone, LocksKept

LEMMA PermitKeeps == ASSUME NftoneInv, Permit PROVE NftoneInv'
<1>1. ASSUME NEW l \in Locks, setlocktime(l[1], l[2], l[3]) PROVE NftoneInv'
  <2>1. l[1] \in TokenSymbols /\ l[2] \in Nat /\ l[3] \in Nat
    BY NftoneInputs
  <2> QED BY <1>1, <2>1, LockKeeps
<1>2. ASSUME NEW k \in Permits, NEW s \in BOOLEAN, NEW r \in BOOLEAN,
             setacctperms(k[1], k[2], s, r)
      PROVE  NftoneInv'
  <2> DEFINE row == [allow_send |-> s, allow_recv |-> r]
             j   == <<k[1], k[2]>>
  <2>1. /\ tswhitelist' = Emplace(tswhitelist, j, row)
        /\ UNCHANGED <<ntokenvars, locknsymbols, now, windows>>
        /\ row \in [allow_send : BOOLEAN, allow_recv : BOOLEAN] /\ j \in Users \X TokenSymbols
    BY <1>2, NftoneInputs DEF setacctperms
  <2> HIDE DEF row, j
  <2>2. IsTable(tswhitelist', Users \X TokenSymbols, [allow_send : BOOLEAN, allow_recv : BOOLEAN])
    BY <2>1, EmplaceTable DEF NftoneInv, TypeOK_nftone
  <2>3. NtokenInv'
    BY <2>1, NtokenInvStays DEF NftoneInv
  <2> QED BY <2>1, <2>2, <2>3 DEF NftoneInv, TypeOK_nftone, LocksKept
<1> QED BY <1>1, <1>2 DEF Permit

\* A transfer erases the rows of locks that are over only.
LEMMA TransferKeeps ==
    ASSUME NftoneInv, NEW u \in Users, NEW v \in Users, NEW s \in Batches, transfer(u, v, s)
    PROVE  NftoneInv'
<1> DEFINE S == {n \in LocksOn(u, v, s) : IsOver(n)}
<1>1. /\ Moves(u, v, s) /\ locknsymbols' = Erase(locknsymbols, S)
      /\ UNCHANGED <<tswhitelist, now, windows>>
  BY DEF transfer
<1>2. \A n \in S : now > locknsymbols[n][2]
  BY DEF IsOver
<1> HIDE DEF S
<1>3. NtokenInv'
  BY <1>1, MovesKeep DEF NftoneInv
<1>4. /\ IsTable(locknsymbols', DOMAIN windows, Nat \X Nat)
      /\ DOMAIN locknsymbols' = DOMAIN locknsymbols \ S
      /\ \A n \in DOMAIN locknsymbols' : locknsymbols'[n] = locknsymbols[n]
  <2>1. IsTable(locknsymbols, DOMAIN windows, Nat \X Nat)
    BY DEF NftoneInv, TypeOK_nftone
  <2>2. DOMAIN locknsymbols' = DOMAIN locknsymbols \ S
    BY <1>1 DEF Erase
  <2>3. \A n \in DOMAIN locknsymbols' : locknsymbols'[n] = locknsymbols[n]
    BY <1>1 DEF Erase
  <2> QED BY <2>1, <2>2, <2>3 DEF IsTable
<1>5. \A n \in DOMAIN windows' : n \in DOMAIN locknsymbols' \/ now' > windows'[n][2]
  BY <1>1, <1>2, <1>4 DEF NftoneInv, TypeOK_nftone, LocksKept
<1> QED BY <1>1, <1>3, <1>4, <1>5 DEF NftoneInv, TypeOK_nftone, LocksKept

LEMMA NftoneInvNext == ASSUME NftoneInv, [Next_nftone]_vars_nftone PROVE NftoneInv'
<1>1. CASE Common_nftone
  <2>1. NtokenInv'
    BY <1>1, CommonKeeps DEF Common_nftone, NftoneInv
  <2> QED BY <1>1, <2>1 DEF Common_nftone, nftonevars, NftoneInv, TypeOK_nftone, LocksKept
<1>2. CASE Permit
  BY <1>2, PermitKeeps
<1>3. CASE Send
  BY <1>3, TransferKeeps DEF Send
<1>4. CASE Tick
  <2>1. NtokenInv'
    BY <1>4, NtokenInvStays DEF Tick, NftoneInv
  <2>2. now \in Nat /\ now' = now + 1 /\ UNCHANGED <<tswhitelist, locknsymbols, windows>>
    BY <1>4 DEF Tick, NftoneInv, TypeOK_nftone
  <2>3. \A n \in DOMAIN windows : n \in DOMAIN locknsymbols \/ now' > windows[n][2]
    <3>1. \A n \in DOMAIN windows : windows[n][2] \in Nat
      BY DEF NftoneInv, TypeOK_nftone, IsTable
    <3> QED BY <2>2, <3>1 DEF NftoneInv, LocksKept
  <2> QED BY <2>1, <2>2, <2>3 DEF NftoneInv, TypeOK_nftone, LocksKept
<1>5. CASE UNCHANGED vars_nftone
  <2>1. NtokenInv'
    BY <1>5, NtokenInvStays DEF vars_nftone, NftoneInv
  <2> QED BY <1>5, <2>1 DEF vars_nftone, nftonevars, NftoneInv, TypeOK_nftone, LocksKept
<1> QED BY <1>1, <1>2, <1>3, <1>4, <1>5 DEF Next_nftone

\* The invariant of nftone.ntoken: every balance is of a token by its own symbol, the
\* supplies are what is held, and a lock whose window is not over has its row, although
\* transfers erase rows (nftone.ntoken.cpp:288-316).
THEOREM NftoneInvariant == Spec_nftone => []NftoneInv
BY NftoneInvInit, NftoneInvNext, PTL DEF Spec_nftone

\* The tables keep their types, and no token ever has more than its maximum supply
\* (nftone.ntoken.cpp:32-65, :114-222).
THEOREM NftoneTypeCorrect == Spec_nftone => [](TypeOK /\ TypeOK_nftone)
<1>1. NftoneInv => TypeOK /\ TypeOK_nftone
  BY InvHasTypes DEF NftoneInv
<1> QED BY <1>1, NftoneInvariant, PTL

\* The supply of an NFT of nftone.ntoken is what its holders have: no issue, retirement
\* or transfer of any batch gains or loses one (nftone.ntoken.cpp:114-222).
THEOREM NftoneSupplyIsHeld == Spec_nftone => []SupplyIsHeld
<1>1. NftoneInv => SupplyIsHeld
  BY InvHasSupply DEF NftoneInv
<1> QED BY <1>1, NftoneInvariant, PTL

\* What makes a balance fall.
LEMMA WhoLoses ==
    ASSUME NftoneInv, [Next_nftone]_vars_nftone, NEW u \in Users, NEW n,
           BalanceOf(u, n)' < BalanceOf(u, n)
    PROVE  \/ u = nstats[n.id].issuer
           \/ \E v \in Users, s \in Batches : transfer(u, v, s) /\ n \in DOMAIN s
<1>0. /\ BalanceOf(u, n) = In(accounts, u, n) /\ BalanceOf(u, n)' = In(accounts', u, n)
      /\ In(accounts, u, n) \in Nat
  <2>1. In(accounts, u, n) \in Nat
    BY BalanceIsNat DEF NftoneInv, NtokenInv
  <2> QED BY <2>1, BalanceIsIn
<1>1. accounts' # accounts
  BY <1>0
<1>2. ASSUME NEW m \in TokenSymbols, NEW q \in Amounts, issue(m, q) PROVE FALSE
  <2> DEFINE w == nstats[m.id].issuer
  <2>1. accounts' = Emplace(accounts, <<w, m>>, BalanceOf(w, m) + q)
    BY <1>2 DEF issue
  <2>2. BalanceOf(w, m) = In(accounts, w, m) /\ In(accounts, w, m) \in Nat /\ q \in Nat
    BY BalanceIsIn, BalanceIsNat, NtokenInputs DEF NftoneInv, NtokenInv
  <2> HIDE DEF w
  <2>3. CASE <<u, n>> = <<w, m>>
    <3>1. In(accounts', u, n) = In(accounts, u, n) + q
      BY <2>1, <2>2, <2>3 DEF In, Emplace
    <3> QED BY <1>0, <2>2, <3>1
  <2>4. CASE <<u, n>> # <<w, m>>
    <3>1. In(accounts', u, n) = In(accounts, u, n)
      BY <2>1, <2>4 DEF In, Emplace
    <3> QED BY <1>0, <3>1
  <2> QED BY <2>3, <2>4
<1>3. ASSUME NEW m \in TokenSymbols, NEW q \in Amounts, retire(m, q)
      PROVE  u = nstats[n.id].issuer
  <2> DEFINE k == <<nstats[m.id].issuer, m>>
  <2>1. accounts' = [accounts EXCEPT ![k] = @ - q]
    BY <1>3 DEF retire
  <2>2. <<u, n>> = k
    <3> SUFFICES ASSUME <<u, n>> # k PROVE FALSE
      OBVIOUS
    <3>1. In(accounts', u, n) = In(accounts, u, n)
      BY <2>1 DEF In
    <3> QED BY <1>0, <3>1
  <2> QED BY <2>2
<1>4. ASSUME NEW f \in Users, NEW v \in Users, NEW s \in Batches, transfer(f, v, s)
      PROVE  u = f /\ n \in DOMAIN s
  <2>1. /\ In(accounts', u, n) = In(accounts, u, n) + Change(f, v, s, u, n)
        /\ \A m \in DOMAIN s : s[m] \in Nat
    <3>1. Moved(f, v, s)
      BY <1>4, MovesChange DEF transfer, NftoneInv
    <3> QED BY <3>1 DEF Moved
  <2>2. Change(f, v, s, u, n) # 0
    BY <1>0, <2>1
  <2>3. n \in DOMAIN s
    BY <2>2 DEF Change
  <2>4. u # v
    BY <1>0, <2>1, <2>3 DEF Change
  <2> QED BY <2>2, <2>3, <2>4 DEF Change
<1>5. CASE Common_nftone
  BY <1>1, <1>2, <1>3, <1>5
     DEF Common_nftone, Create, create, Register, setipowner, settokenuri, setnotary, notarize,
         setcreator, Supply
<1>6. CASE Send
  BY <1>4, <1>6 DEF Send
<1>7. CASE Permit \/ Tick \/ UNCHANGED vars_nftone
  BY <1>1, <1>7 DEF Permit, setlocktime, setacctperms, Tick, vars_nftone, ntokenvars
<1> QED BY <1>5, <1>6, <1>7 DEF Next_nftone

\* Locked tokens stay: within the window its issuer set last, nobody but the issuer parts
\* with an NFT unless sender or receiver is permitted, whatever rows of locks the transfers
\* before erased (nftone.ntoken.cpp:165-196, :247-316).
THEOREM LockedTokensStay == Spec_nftone => LockedStay
<1>1. ASSUME NftoneInv, [Next_nftone]_vars_nftone, NEW u \in Users, NEW n \in DOMAIN windows,
             BalanceOf(u, n)' < BalanceOf(u, n)
      PROVE  \/ u = nstats[n.id].issuer
             \/ now \notin windows[n][1] .. windows[n][2]
             \/ \E v \in Users : Gains(v, n) /\ Permitted(u, v, n)
  <2> SUFFICES ASSUME u # nstats[n.id].issuer, now \in windows[n][1] .. windows[n][2]
               PROVE  \E v \in Users : Gains(v, n) /\ Permitted(u, v, n)
    OBVIOUS
  <2>1. PICK v \in Users, s \in Batches : transfer(u, v, s) /\ n \in DOMAIN s
    BY <1>1, WhoLoses
  <2>2. Gains(v, n)
    <3>1. /\ In(accounts', v, n) = In(accounts, v, n) + Change(u, v, s, v, n)
          /\ s[n] \in Nat /\ s[n] > 0
      <4>1. Moved(u, v, s)
        BY <1>1, <2>1, MovesChange DEF transfer, NftoneInv
      <4> QED BY <2>1, <4>1 DEF Moved
    <3>2. In(accounts, v, n) \in Nat /\ Change(u, v, s, v, n) = s[n]
      BY <1>1, <2>1, BalanceIsNat DEF Change, NftoneInv, NtokenInv
    <3>3. In(accounts', v, n) > In(accounts, v, n)
      BY <3>1, <3>2
    <3> QED BY <3>3, BalanceIsIn DEF Gains
  <2>3. n \in DOMAIN locknsymbols /\ locknsymbols[n] = windows[n]
    <3>1. windows[n][1] \in Nat /\ windows[n][2] \in Nat /\ now \in Nat
      BY <1>1 DEF NftoneInv, TypeOK_nftone, IsTable
    <3>2. ~ (now > windows[n][2])
      BY <3>1
    <3>3. n \in DOMAIN locknsymbols
      BY <1>1, <3>2 DEF NftoneInv, LocksKept
    <3> QED BY <1>1, <3>3 DEF NftoneInv, TypeOK_nftone
  <2>4. IsLocked(n)
    BY <2>3 DEF IsLocked
  <2>5. n \notin LocksOn(u, v, s)
    BY <2>1, <2>4 DEF transfer
  <2>6. Permitted(u, v, n)
    BY <2>1, <2>3, <2>5 DEF LocksOn
  <2> QED BY <2>2, <2>6
<1>2. NftoneInv /\ [Next_nftone]_vars_nftone =>
        [\A u \in Users, n \in DOMAIN windows :
            BalanceOf(u, n)' < BalanceOf(u, n) =>
                \/ u = nstats[n.id].issuer
                \/ now \notin windows[n][1] .. windows[n][2]
                \/ \E v \in Users : Gains(v, n) /\ Permitted(u, v, n)]_vars_nftone
  BY <1>1
<1> QED BY <1>2, NftoneInvariant, PTL DEF Spec_nftone, LockedStay
\* All that a transfer asks for.
MaySend(from, to, s) ==
    /\ from # to
    /\ \A n \in DOMAIN s : Names(n) /\ s[n] <= BalanceOf(from, n)
    /\ \A n \in LocksOn(from, to, s) : ~ IsLocked(n)

\* The rest of it says what every variable is afterwards.
LEMMA TransferAsksThis ==
    \A from, to, s :
        transfer(from, to, s) <=>
            /\ MaySend(from, to, s)
            /\ accounts' = [k \in DOMAIN accounts \cup {<<to, n>> : n \in DOMAIN s} |->
                   BalanceOf(k[1], k[2])
                   + (IF k[2] \notin DOMAIN s THEN 0
                      ELSE IF k[1] = to THEN s[k[2]] ELSE IF k[1] = from THEN -s[k[2]] ELSE 0)]
            /\ notaries' = notaries /\ creators' = creators /\ nstats' = nstats
            /\ locknsymbols' = Erase(locknsymbols, {n \in LocksOn(from, to, s) : IsOver(n)})
            /\ tswhitelist' = tswhitelist /\ now' = now /\ windows' = windows
BY DEF transfer, Moves, MaySend

HoldersMaySend ==
    \A u, v \in Users, n \in TokenSymbols :
        BalanceOf(u, n) > 0 /\ u # v
        /\ (n \in DOMAIN windows => now \notin windows[n][1] .. windows[n][2])
            => MaySend(u, v, [m \in {n} |-> 1])

\* Nobody's NFTs are stuck: outside the window of its lock nothing that transfer asks for
\* is missing, so a holder can send an NFT to every other account.  HoldersCanSend says it
\* with ENABLED (nftone.ntoken.cpp:165-196, :288-316).
THEOREM NobodyIsStuck == Spec_nftone => []HoldersMaySend
<1>1. ASSUME NftoneInv, NEW u \in Users, NEW v \in Users, NEW n \in TokenSymbols,
             BalanceOf(u, n) > 0, u # v,
             n \in DOMAIN windows => now \notin windows[n][1] .. windows[n][2]
      PROVE  MaySend(u, v, [m \in {n} |-> 1])
  <2> DEFINE s == [m \in {n} |-> 1]
  <2>1. DOMAIN s = {n} /\ s[n] = 1
    OBVIOUS
  <2>2. BalanceOf(u, n) \in Nat
    BY <1>1, BalanceIsIn, BalanceIsNat DEF NftoneInv, NtokenInv
  <2>3. Names(n)
    <3> DEFINE k == <<u, n>>
    <3>1. k \in DOMAIN accounts
      BY <1>1 DEF BalanceOf
    <3>2. Names(k[2])
      BY <1>1, <3>1 DEF NftoneInv, NtokenInv
    <3> QED BY <3>2
  <2> HIDE DEF s
  <2>4. ASSUME NEW m \in LocksOn(u, v, s) PROVE ~ IsLocked(m)
    <3>1. m = n /\ n \in DOMAIN locknsymbols
      BY <2>1 DEF LocksOn
    <3>2. n \in DOMAIN windows /\ locknsymbols[n] = windows[n]
      BY <1>1, <3>1 DEF NftoneInv, TypeOK_nftone, IsTable
    <3> QED BY <1>1, <3>1, <3>2 DEF IsLocked
  <2>5. MaySend(u, v, s)
    BY <1>1, <2>1, <2>2, <2>3, <2>4 DEF MaySend
  <2> QED BY <2>5 DEF s
<1>2. NftoneInv => HoldersMaySend
  BY <1>1 DEF HoldersMaySend
<1> QED BY <1>2, NftoneInvariant, PTL
------------------------------------------------------------------------------
(* amax.ntoken *)

\* What was granted and taken is known of every allowance there is.
Known(k, q) ==
    LET t == <<k[1], k[2], q>>
    IN  /\ t \in DOMAIN granted /\ t \in DOMAIN taken
        /\ granted[t] \in Nat /\ taken[t] \in Nat
        /\ allowances[k][q] + taken[t] = granted[t]

AmaxInv ==
    /\ NtokenInv /\ TypeOK_amax
    /\ \A k \in DOMAIN allowances : \A q \in DOMAIN allowances[k] : Known(k, q)

LEMMA AmaxInvInit == ASSUME Init_amax PROVE AmaxInv
<1>1. DOMAIN allowances = {} /\ check_creator \in BOOLEAN
  BY DEF Init_amax, EmptyTable
<1>2. NtokenInv
  BY NtokenInvInit DEF Init_amax
<1> QED BY <1>1, <1>2 DEF AmaxInv, TypeOK_amax

LEMMA AmaxRestStays ==
    ASSUME AmaxInv, NtokenInv', UNCHANGED <<allowances, granted, taken>>, check_creator' \in BOOLEAN
    PROVE  AmaxInv'
BY DEF AmaxInv, TypeOK_amax, Known

\* What a batch takes of one parent's NFTs is a natural number.
LEMMA TakenIsNat ==
    ASSUME NEW s \in Batches, NEW pid
    PROVE  TakenOf(s, pid) \in Nat
<1> DEFINE D == {m \in DOMAIN s : m.parent_id = pid}
           w == [n \in D |-> s[n]]
<1>1. IsFiniteSet(D) /\ \A n \in D : s[n] \in Nat
  <2>1. D \subseteq DOMAIN s /\ IsFiniteSet(DOMAIN s)
    BY NtokenInputs
  <2> HIDE DEF D
  <2> QED BY <2>1, NtokenInputs, FS_Subset
<1>2. TakenOf(s, pid) = SumFunction(w)
  BY DEF TakenOf
<1>3. DOMAIN w = D /\ \A n \in D : w[n] \in Nat
  BY <1>1
<1> HIDE DEF w, D
<1>4. TakenOf(s, pid) = Sum(w, D)
  BY <1>2, <1>3, SumFunctionIsSum
<1> QED BY <1>1, <1>3, <1>4, SumNat

LEMMA ApproveKeeps ==
    ASSUME AmaxInv, NEW owner \in Users, NEW spender \in Users, NEW pid \in Pids,
           NEW amount \in Nat, approve(owner, spender, pid, amount)
    PROVE  AmaxInv'
<1> DEFINE own == <<owner, owner>> \in DOMAIN allowances
           y   == IF own THEN owner ELSE spender
           k   == <<owner, y>>
           row == IF own THEN Emplace(allowances[k], pid, amount) ELSE [q \in {pid} |-> amount]
           t   == <<owner, y, pid>>
<1>1. /\ own \/ k \notin DOMAIN allowances
      /\ allowances' = Emplace(allowances, k, row)
      /\ granted' = Emplace(granted, t, amount) /\ taken' = Emplace(taken, t, 0)
      /\ UNCHANGED <<ntokenvars, check_creator>>
  BY DEF approve
<1>2. y \in Users /\ (own => k \in DOMAIN allowances)
  OBVIOUS
<1>3. IsTable(row, Pids, Nat) /\ pid \in DOMAIN row /\ row[pid] = amount
  BY <1>2 DEF Emplace, IsTable, AmaxInv, TypeOK_amax
<1>4. \A q \in DOMAIN row \ {pid} :
        k \in DOMAIN allowances /\ q \in DOMAIN allowances[k] /\ row[q] = allowances[k][q]
  BY <1>2 DEF Emplace
<1> HIDE DEF own, y, row
<1>5. NtokenInv'
  BY <1>1, NtokenInvStays DEF AmaxInv
<1>6. /\ DOMAIN allowances' = DOMAIN allowances \cup {k} /\ allowances'[k] = row
      /\ \A j \in DOMAIN allowances : j # k => allowances'[j] = allowances[j]
  BY <1>1 DEF Emplace
<1>7. TypeOK_amax'
  BY <1>1, <1>2, <1>3, <1>6 DEF AmaxInv, TypeOK_amax
<1>8. ASSUME NEW j, NEW q, <<j[1], j[2], q>> # t, j \in DOMAIN allowances,
             q \in DOMAIN allowances[j], allowances'[j][q] = allowances[j][q]
      PROVE  Known(j, q)'
  <2> DEFINE x == <<j[1], j[2], q>>
  <2>1. /\ x \in DOMAIN granted /\ x \in DOMAIN taken /\ granted[x] \in Nat /\ taken[x] \in Nat
        /\ allowances[j][q] + taken[x] = granted[x]
    BY <1>8 DEF AmaxInv, Known
  <2> HIDE DEF t
  <2>2. /\ x \in DOMAIN granted' /\ x \in DOMAIN taken'
        /\ granted'[x] = granted[x] /\ taken'[x] = taken[x]
    BY <1>1, <1>8, <2>1 DEF Emplace
  <2> QED BY <1>8, <2>1, <2>2 DEF Known
<1>9. ASSUME NEW j \in DOMAIN allowances', NEW q \in DOMAIN allowances'[j] PROVE Known(j, q)'
  <2>0. PICK a \in Users, b \in Users : j = <<a, b>>
    BY <1>7 DEF TypeOK_amax
  <2>1. CASE j = k /\ q = pid
    <3>1. <<j[1], j[2], q>> = t
      BY <2>1
    <3>2. allowances'[j][q] = amount
      BY <1>3, <1>6, <2>1
    <3> HIDE DEF t
    <3>3. t \in DOMAIN granted' /\ t \in DOMAIN taken' /\ granted'[t] = amount /\ taken'[t] = 0
      BY <1>1 DEF Emplace
    <3> QED BY <3>1, <3>2, <3>3 DEF Known
  <2>2. CASE j = k /\ q # pid
    <3>1. <<j[1], j[2], q>> # t
      BY <2>2
    <3>2. /\ j \in DOMAIN allowances /\ q \in DOMAIN allowances[j]
          /\ allowances'[j][q] = allowances[j][q]
      BY <1>4, <1>6, <2>2
    <3> QED BY <1>8, <3>1, <3>2
  <2>3. CASE j # k
    <3>1. <<j[1], j[2], q>> # t
      BY <2>0, <2>3
    <3>2. /\ j \in DOMAIN allowances /\ q \in DOMAIN allowances[j]
          /\ allowances'[j][q] = allowances[j][q]
      BY <1>6, <2>3
    <3> QED BY <1>8, <3>1, <3>2
  <2> QED BY <2>1, <2>2, <2>3
<1> QED BY <1>5, <1>7, <1>9 DEF AmaxInv

\* A transfer on an allowance takes from it, and from no other, what it moves.
LEMMA TransferFromKeeps ==
    ASSUME AmaxInv, NEW owner \in Users, NEW from \in Users, NEW to \in Users, NEW s \in Batches,
           transferfrom(owner, from, to, s)
    PROVE  AmaxInv'
<1> DEFINE k == <<owner, from>>
<1>1. /\ k \in DOMAIN allowances
      /\ \A q \in DOMAIN allowances[k] : TakenOf(s, q) <= allowances[k][q]
      /\ Moves(from, to, s)
      /\ allowances' = [allowances EXCEPT ![k] = LeftOf(allowances[k], s)]
      /\ taken' = [t \in DOMAIN taken |->
             taken[t] + (IF <<t[1], t[2]>> = k THEN TakenOf(s, t[3]) ELSE 0)]
      /\ UNCHANGED <<check_creator, granted>>
  BY DEF transferfrom
<1>2. NtokenInv'
  BY <1>1, MovesKeep DEF AmaxInv
<1>3. IsTable(allowances[k], Pids, Nat)
  BY <1>1 DEF AmaxInv, TypeOK_amax
<1>4. /\ DOMAIN allowances' = DOMAIN allowances /\ allowances'[k] = LeftOf(allowances[k], s)
      /\ \A j \in DOMAIN allowances : j # k => allowances'[j] = allowances[j]
  BY <1>1
<1>5. /\ DOMAIN LeftOf(allowances[k], s) = DOMAIN allowances[k]
      /\ \A q \in DOMAIN allowances[k] :
            LeftOf(allowances[k], s)[q] = allowances[k][q] - TakenOf(s, q)
  BY DEF LeftOf
<1>6. \A q \in DOMAIN allowances[k] : /\ allowances[k][q] \in Nat /\ TakenOf(s, q) \in Nat
                                     /\ allowances[k][q] - TakenOf(s, q) \in Nat
  <2> SUFFICES ASSUME NEW q \in DOMAIN allowances[k]
               PROVE  /\ allowances[k][q] \in Nat /\ TakenOf(s, q) \in Nat
                      /\ allowances[k][q] - TakenOf(s, q) \in Nat
    OBVIOUS
  <2>1. allowances[k][q] \in Nat /\ TakenOf(s, q) \in Nat /\ TakenOf(s, q) <= allowances[k][q]
    BY <1>1, <1>3, TakenIsNat DEF IsTable
  <2> QED BY <2>1
<1>7. IsTable(LeftOf(allowances[k], s), Pids, Nat)
  BY <1>3, <1>5, <1>6 DEF IsTable
<1>8. TypeOK_amax'
  BY <1>1, <1>4, <1>7 DEF AmaxInv, TypeOK_amax
<1>9. ASSUME NEW j \in DOMAIN allowances', NEW q \in DOMAIN allowances'[j] PROVE Known(j, q)'
  <2> DEFINE x == <<j[1], j[2], q>>
             d == IF <<x[1], x[2]>> = k THEN TakenOf(s, x[3]) ELSE 0
  <2>0. PICK a \in Users, b \in Users : j = <<a, b>>
    BY <1>8 DEF TypeOK_amax
  <2>1. <<x[1], x[2]>> = j /\ x[3] = q
    BY <2>0
  <2>2. j \in DOMAIN allowances /\ q \in DOMAIN allowances[j]
    BY <1>4, <1>5
  <2>3. /\ x \in DOMAIN granted /\ x \in DOMAIN taken /\ granted[x] \in Nat /\ taken[x] \in Nat
        /\ allowances[j][q] \in Nat
        /\ allowances[j][q] + taken[x] = granted[x]
    BY <2>2 DEF AmaxInv, Known, TypeOK_amax, IsTable
  <2>4. /\ x \in DOMAIN granted' /\ x \in DOMAIN taken' /\ granted'[x] = granted[x]
        /\ taken'[x] = taken[x] + d
    BY <1>1, <2>3
  <2>5. d = IF j = k THEN TakenOf(s, q) ELSE 0
    BY <2>1
  <2> HIDE DEF d
  <2>6. d \in Nat /\ allowances'[j][q] = allowances[j][q] - d
    <3>1. CASE j = k
      BY <1>4, <1>5, <1>6, <2>2, <2>5, <3>1
    <3>2. CASE j # k
      BY <1>4, <2>2, <2>3, <2>5, <3>2
    <3> QED BY <3>1, <3>2
  <2>7. taken'[x] \in Nat /\ allowances'[j][q] + taken'[x] = granted'[x]
    BY <2>3, <2>4, <2>6
  <2> QED BY <2>3, <2>4, <2>7 DEF Known
<1> QED BY <1>2, <1>8, <1>9 DEF AmaxInv

LEMMA AmaxInvNext == ASSUME AmaxInv, [Next_amax]_vars_amax PROVE AmaxInv'
<1>0. check_creator \in BOOLEAN
  BY DEF AmaxInv, TypeOK_amax
<1>1. CASE Common_amax
  <2>1. NtokenInv'
    BY <1>1, CommonKeeps DEF Common_amax, AmaxInv
  <2> QED BY <1>0, <1>1, <2>1, AmaxRestStays DEF Common_amax, amaxvars
<1>2. CASE Allow
  <2>1. ASSUME NEW b \in BOOLEAN, setcheck(b) PROVE AmaxInv'
    <3>1. NtokenInv'
      BY <2>1, NtokenInvStays DEF setcheck, AmaxInv
    <3> QED BY <2>1, <3>1, AmaxRestStays DEF setcheck
  <2>2. ASSUME NEW u \in Owners, NEW v \in Users, NEW q \in Pids, NEW a \in Allowances,
               approve(u, v, q, a)
        PROVE  AmaxInv'
    <3>1. u \in Users /\ a \in Nat
      BY AmaxInputs
    <3> QED BY <2>2, <3>1, ApproveKeeps
  <2> QED BY <1>2, <2>1, <2>2 DEF Allow
<1>3. CASE Send_amax
  <2>1. ASSUME NEW u \in Users, NEW v \in Users, NEW s \in Batches, transfer_amax(u, v, s)
        PROVE  AmaxInv'
    <3>1. NtokenInv'
      BY <2>1, MovesKeep DEF transfer_amax, AmaxInv
    <3> QED BY <1>0, <2>1, <3>1, AmaxRestStays DEF transfer_amax, amaxvars
  <2>2. ASSUME NEW o \in Owners, NEW u \in Users, NEW v \in Users, NEW s \in Batches,
               transferfrom(o, u, v, s)
        PROVE  AmaxInv'
    BY <2>2, AmaxInputs, TransferFromKeeps
  <2> QED BY <1>3, <2>1, <2>2 DEF Send_amax
<1>4. CASE UNCHANGED vars_amax
  <2>1. NtokenInv'
    BY <1>4, NtokenInvStays DEF vars_amax, AmaxInv
  <2> QED BY <1>0, <1>4, <2>1, AmaxRestStays DEF vars_amax, amaxvars
<1> QED BY <1>1, <1>2, <1>3, <1>4 DEF Next_amax

\* The invariant of amax.ntoken: the books of the NFTs, and an account of every allowance
\* (amax.ntoken.cpp:88-246).
THEOREM AmaxInvariant == Spec_amax => []AmaxInv
BY AmaxInvInit, AmaxInvNext, PTL DEF Spec_amax

\* The tables keep their types, no token ever has more than its maximum supply and no
\* allowance is overdrawn (amax.ntoken.cpp:6-38, :88-104, :186-219).
THEOREM AmaxTypeCorrect == Spec_amax => [](TypeOK /\ TypeOK_amax)
<1>1. AmaxInv => TypeOK /\ TypeOK_amax
  BY InvHasTypes DEF AmaxInv
<1> QED BY <1>1, AmaxInvariant, PTL

\* The supply of an NFT of amax.ntoken is what its holders have, transfers on an
\* allowance included (amax.ntoken.cpp:107-246).
THEOREM AmaxSupplyIsHeld == Spec_amax => []SupplyIsHeld
<1>1. AmaxInv => SupplyIsHeld
  BY InvHasSupply DEF AmaxInv
<1> QED BY <1>1, AmaxInvariant, PTL

\* Allowances add up: an allowance is what was approved last less all that transferfrom
\* took since, however many assets of one parent a batch has (amax.ntoken.cpp:88-104, :186-219).
THEOREM AmaxAllowancesAddUp == Spec_amax => []AllowancesAddUp
<1>1. AmaxInv => AllowancesAddUp
  BY DEF AmaxInv, Known, AllowancesAddUp
<1> QED BY <1>1, AmaxInvariant, PTL
------------------------------------------------------------------------------
(* The books as a ledger *)

LEMMA SameHeld == ASSUME UNCHANGED accounts PROVE UNCHANGED heldBar
BY DEF heldBar, BalanceOf

\* The tokens keep their names, issuers, maximums and supplies.
SameTokens ==
    /\ DOMAIN nstats' = DOMAIN nstats
    /\ \A i \in DOMAIN nstats :
          /\ nstats'[i].symbol = nstats[i].symbol /\ nstats'[i].issuer = nstats[i].issuer
          /\ nstats'[i].max_supply = nstats[i].max_supply

LEMMA SameTerms ==
    ASSUME SameTokens
    PROVE  UNCHANGED termsBar /\ \A n : Names(n)' <=> Names(n)
<1>1. ASSUME NEW n PROVE Names(n)' <=> Names(n)
  BY DEF SameTokens, Names, is_valid
<1>2. ASSUME NEW n, Names(n) PROVE n.id \in DOMAIN nstats
  BY <1>2 DEF Names
<1>3. UNCHANGED termsBar
  BY <1>1, <1>2 DEF SameTokens, termsBar
<1> QED BY <1>1, <1>3

LEMMA LedgerStays ==
    ASSUME SameTokens, \A i \in DOMAIN nstats : nstats'[i].supply = nstats[i].supply,
           UNCHANGED accounts
    PROVE  UNCHANGED NftLedger!ledgervars
<1>1. UNCHANGED supplyBar
  <2>1. \A n : (Names(n)' <=> Names(n)) /\ (Names(n) => n.id \in DOMAIN nstats)
    BY SameTerms DEF Names
  <2> QED BY <2>1 DEF supplyBar
<1> QED BY <1>1, SameTerms, SameHeld DEF NftLedger!ledgervars


LEMMA RegisterIsNothing ==
    ASSUME NtokenInv, Register
    PROVE  UNCHANGED NftLedger!ledgervars
<1>1. OnlyDescribes
  BY RegisterDescribes
<1> QED BY <1>1, LedgerStays DEF OnlyDescribes, SameTokens

\* A new token opens an asset, unless its symbol is not valid.
LEMMA CreateOpens ==
    ASSUME NtokenInv, NEW u \in Users, NEW k, NEW t, Created(u, k, t)
    PROVE  NftLedger!Next
<1>1. /\ t \in TokenSymbols /\ t.id \notin DOMAIN nstats
      /\ DOMAIN nstats' = DOMAIN nstats \cup {t.id}
      /\ nstats'[t.id].symbol = t /\ nstats'[t.id].issuer = u
      /\ nstats'[t.id].supply = 0 /\ nstats'[t.id].max_supply = k
      /\ \A i \in DOMAIN nstats : nstats'[i] = nstats[i]
      /\ k \in MaxSupplies /\ UNCHANGED accounts
  BY DEF Created
<1>2. ASSUME NEW n, n # t
      PROVE  (Names(n)' <=> Names(n)) /\ (Names(n) => nstats'[n.id] = nstats[n.id])
  BY <1>1, <1>2 DEF Names, is_valid
<1>3. ~ Names(t) /\ (Names(t)' <=> is_valid(t))
  BY <1>1 DEF Names, is_valid
<1>4. UNCHANGED supplyBar
  BY <1>1, <1>2, <1>3 DEF supplyBar
<1>5. \A n \in TokenSymbols : n # t => termsBar'[n] = termsBar[n]
  BY <1>2 DEF termsBar
<1>6. termsBar[t] = {}
  BY <1>1, <1>3 DEF termsBar
<1>7. CASE is_valid(t)
  <2> DEFINE x == {[issuer |-> u, cap |-> k]}
  <2>1. termsBar'[t] = x
    BY <1>1, <1>3, <1>7 DEF termsBar
  <2> HIDE DEF x
  <2>2. termsBar' = [termsBar EXCEPT ![t] = x]
    <3>1. DOMAIN termsBar = TokenSymbols /\ DOMAIN termsBar' = TokenSymbols
      BY DEF termsBar
    <3>2. termsBar' = [n \in TokenSymbols |-> termsBar'[n]]
      BY DEF termsBar
    <3> HIDE DEF termsBar
    <3> QED BY <1>1, <1>5, <2>1, <3>1, <3>2
  <2>3. NftLedger!Open(u, t, k)
    BY <1>1, <1>4, <1>6, <2>2, SameHeld DEF NftLedger!Open, x
  <2> QED BY <1>1, <2>3 DEF NftLedger!Next, NftLedger!Step
<1>8. CASE ~ is_valid(t)
  <2>1. termsBar'[t] = {}
    BY <1>1, <1>3, <1>8 DEF termsBar
  <2>2. UNCHANGED termsBar
    BY <1>5, <1>6, <2>1 DEF termsBar
  <2> QED BY <1>1, <1>4, <2>2, SameHeld DEF NftLedger!Next, NftLedger!ledgervars
<1> QED BY <1>7, <1>8

\* More or less of a token is a change by its issuer.
LEMMA SuppliedChanges ==
    ASSUME NtokenInv, NEW n, NEW d, Supplied(n, d)
    PROVE  /\ n \in TokenSymbols
           /\ termsBar[n] = {[issuer |-> nstats[n.id].issuer, cap |-> nstats[n.id].max_supply]}
           /\ supplyBar[n] = nstats[n.id].supply
           /\ NftLedger!Change(nstats[n.id].issuer, n, d)
<1> DEFINE u == nstats[n.id].issuer
           new == nstats[n.id].supply + d
<1>1. /\ Names(n) /\ nstats' = [nstats EXCEPT ![n.id].supply = @ + d]
      /\ In(accounts', u, n) = In(accounts, u, n) + d
      /\ \A v, m : (v = u /\ m = n) \/ In(accounts', v, m) = In(accounts, v, m)
  BY DEF Supplied, Differ
<1>2. /\ n \in TokenSymbols /\ n.id \in DOMAIN nstats /\ nstats[n.id] \in NstatRow /\ u \in Users
  BY <1>1, NamedIsSymbol
<1>3. /\ nstats'[n.id] = [nstats[n.id] EXCEPT !.supply = new]
      /\ DOMAIN nstats' = DOMAIN nstats
      /\ \A i \in DOMAIN nstats : i # n.id => nstats'[i] = nstats[i]
  BY <1>1, <1>2
<1> HIDE DEF new
<1>4. /\ nstats'[n.id].supply = new /\ nstats'[n.id].issuer = u
      /\ nstats'[n.id].symbol = nstats[n.id].symbol
      /\ nstats'[n.id].max_supply = nstats[n.id].max_supply
  BY <1>2, <1>3 DEF NstatRow
<1>5. SameTokens
  BY <1>3, <1>4 DEF SameTokens
<1>6. UNCHANGED termsBar /\ \A m : Names(m)' <=> Names(m)
  BY <1>5, SameTerms
<1>7. \A m : Names(m) /\ m # n => m.id \in DOMAIN nstats /\ m.id # n.id
  BY <1>1 DEF Names
<1>8. supplyBar' = [supplyBar EXCEPT ![n] = @ + d]
  <2>1. supplyBar[n] = nstats[n.id].supply /\ supplyBar'[n] = new
    BY <1>1, <1>2, <1>4, <1>6 DEF supplyBar
  <2>2. \A m \in TokenSymbols : m # n => supplyBar'[m] = supplyBar[m]
    BY <1>3, <1>6, <1>7 DEF supplyBar
  <2>3. supplyBar'[n] = supplyBar[n] + d
    BY <2>1 DEF new
  <2> QED BY <1>2, <2>2, <2>3 DEF supplyBar
<1>9. heldBar' = [heldBar EXCEPT ![u][n] = @ + d]
  <2>1. \A v \in Users, m \in TokenSymbols :
          heldBar[v][m] = In(accounts, v, m) /\ heldBar'[v][m] = In(accounts', v, m)
    BY BalanceIsIn DEF heldBar
  <2>2. heldBar' = [v \in Users |-> [m \in TokenSymbols |->
           IF v = u /\ m = n THEN heldBar[v][m] + d ELSE heldBar[v][m]]]
    BY <1>1, <2>1 DEF heldBar
  <2>3. [heldBar EXCEPT ![u][n] = @ + d] = [v \in Users |-> [m \in TokenSymbols |->
           IF v = u /\ m = n THEN heldBar[v][m] + d ELSE heldBar[v][m]]]
    BY <1>2 DEF heldBar
  <2> QED BY <2>2, <2>3
<1>10. NftLedger!Change(u, n, d)
  BY <1>6, <1>8, <1>9 DEF NftLedger!Change
<1> QED BY <1>1, <1>2, <1>10 DEF termsBar, supplyBar

\* An issue makes tokens, a retirement destroys them.
LEMMA SupplySteps == ASSUME NtokenInv, Supply PROVE NftLedger!Next
<1>1. ASSUME NEW n \in TokenSymbols, NEW q \in Amounts, issue(n, q) PROVE NftLedger!Next
  <2> DEFINE t == [issuer |-> nstats[n.id].issuer, cap |-> nstats[n.id].max_supply]
  <2>1. Supplied(n, q)
    BY <1>1, IssueSupplies
  <2>2. /\ termsBar[n] = {t} /\ supplyBar[n] = nstats[n.id].supply
        /\ NftLedger!Change(nstats[n.id].issuer, n, q)
    BY <2>1, SuppliedChanges
  <2>3. t.issuer = nstats[n.id].issuer /\ t.cap = nstats[n.id].max_supply
    OBVIOUS
  <2>4. q \in 1 .. nstats[n.id].max_supply - nstats[n.id].supply
    <3>1. /\ q \in Nat /\ q > 0
          /\ nstats[n.id].supply \in Nat /\ nstats[n.id].max_supply \in Nat
      BY <1>1, NamedIsSymbol, NtokenInputs DEF issue, NstatRow
    <3>2. q <= nstats[n.id].max_supply - nstats[n.id].supply
      BY <1>1 DEF issue, WithinMax
    <3> QED BY <3>1, <3>2
  <2> HIDE DEF t
  <2>5. NftLedger!Make(n)
    BY <2>2, <2>3, <2>4 DEF NftLedger!Make
  <2> QED BY <2>5 DEF NftLedger!Next, NftLedger!Step
<1>2. ASSUME NEW n \in TokenSymbols, NEW q \in Amounts, retire(n, q) PROVE NftLedger!Next
  <2> DEFINE t == [issuer |-> nstats[n.id].issuer, cap |-> nstats[n.id].max_supply]
             u == nstats[n.id].issuer
  <2>1. Supplied(n, 0 - q) /\ q <= In(accounts, u, n)
    BY <1>2, RetireSupplies
  <2>2. termsBar[n] = {t} /\ NftLedger!Change(u, n, 0 - q)
    <3> DEFINE d == 0 - q
    <3> HIDE DEF d
    <3>1. Supplied(n, d)
      BY <2>1 DEF d
    <3>2. termsBar[n] = {t} /\ NftLedger!Change(u, n, d)
      BY <3>1, SuppliedChanges
    <3> QED BY <3>2 DEF d
  <2>3. t.issuer = u
    OBVIOUS
  <2>4. q \in 1 .. heldBar[u][n]
    <3>1. u \in Users /\ q \in Nat /\ q > 0
      BY <1>2, NamedIsSymbol, NtokenInputs DEF retire
    <3> HIDE DEF u
    <3>2. heldBar[u][n] = In(accounts, u, n) /\ In(accounts, u, n) \in Nat
      BY <3>1, BalanceIsIn, BalanceIsNat DEF heldBar, NtokenInv
    <3> QED BY <2>1, <3>1, <3>2
  <2> HIDE DEF t, u
  <2>5. NftLedger!Destroy(n)
    BY <2>2, <2>3, <2>4 DEF NftLedger!Destroy
  <2> QED BY <2>5 DEF NftLedger!Next, NftLedger!Step
<1> QED BY <1>1, <1>2 DEF Supply

\* A transfer is a payment.
LEMMA MovesPay ==
    ASSUME NtokenInv, NEW from \in Users, NEW to \in Users, NEW s \in Batches, Moves(from, to, s)
    PROVE  NftLedger!Next
<1>1. /\ \A u, n : In(accounts', u, n) = In(accounts, u, n) + Change(from, to, s, u, n)
      /\ \A u, n : In(accounts', u, n) \in Nat
      /\ from # to /\ \A n \in DOMAIN s : Names(n) /\ s[n] \in Nat /\ s[n] > 0
      /\ UNCHANGED nstats
  BY MovesChange DEF Moved
<1>2. \A u, n : In(accounts, u, n) \in Nat
  BY BalanceIsNat DEF NtokenInv
<1>3. UNCHANGED <<termsBar, supplyBar>> /\ \A n : Names(n)' <=> Names(n)
  BY <1>1 DEF termsBar, supplyBar, Names, is_valid
<1>4. \A u \in Users, n \in TokenSymbols :
        heldBar[u][n] = In(accounts, u, n) /\ heldBar'[u][n] = In(accounts', u, n)
  BY BalanceIsIn DEF heldBar
<1> DEFINE p == [n \in TokenSymbols |-> heldBar[from][n] - heldBar'[from][n]]
<1>5. \A n \in TokenSymbols :
        /\ p[n] = IF n \in DOMAIN s THEN s[n] ELSE 0
        /\ p[n] \in Nat /\ p[n] <= heldBar[from][n]
        /\ heldBar'[from][n] = heldBar[from][n] - p[n]
        /\ heldBar'[to][n] = heldBar[to][n] + p[n]
  <2> SUFFICES ASSUME NEW n \in TokenSymbols
               PROVE /\ p[n] = IF n \in DOMAIN s THEN s[n] ELSE 0
                     /\ p[n] \in Nat /\ p[n] <= heldBar[from][n]
                     /\ heldBar'[from][n] = heldBar[from][n] - p[n]
                     /\ heldBar'[to][n] = heldBar[to][n] + p[n]
    OBVIOUS
  <2>1. /\ p[n] = In(accounts, from, n) - In(accounts', from, n)
        /\ heldBar[from][n] = In(accounts, from, n) /\ heldBar'[from][n] = In(accounts', from, n)
        /\ heldBar[to][n] = In(accounts, to, n) /\ heldBar'[to][n] = In(accounts', to, n)
    BY <1>4
  <2> HIDE DEF p
  <2>2. CASE n \in DOMAIN s
    <3>1. /\ In(accounts', from, n) = In(accounts, from, n) + (0 - s[n]) /\ s[n] \in Nat
          /\ In(accounts', to, n) = In(accounts, to, n) + s[n]
      BY <1>1, <2>2 DEF Change
    <3> QED BY <1>1, <1>2, <2>1, <2>2, <3>1
  <2>3. CASE n \notin DOMAIN s
    <3>1. /\ In(accounts', from, n) = In(accounts, from, n)
          /\ In(accounts', to, n) = In(accounts, to, n)
      BY <1>1, <1>2, <2>3 DEF Change
    <3> QED BY <1>2, <2>1, <2>3, <3>1
  <2> QED BY <2>2, <2>3
<1>6. \A n \in TokenSymbols : p[n] \in 0 .. heldBar[from][n] /\ (p[n] > 0 => termsBar[n] # {})
  <2> SUFFICES ASSUME NEW n \in TokenSymbols
               PROVE p[n] \in 0 .. heldBar[from][n] /\ (p[n] > 0 => termsBar[n] # {})
    OBVIOUS
  <2> HIDE DEF p
  <2>1. p[n] \in 0 .. heldBar[from][n]
    <3>1. heldBar[from][n] \in Nat
      BY <1>2, <1>4
    <3> QED BY <1>5, <3>1
  <2>2. ASSUME p[n] > 0 PROVE termsBar[n] # {}
    <3>1. Names(n)
      BY <1>1, <1>5, <2>2
    <3> QED BY <3>1 DEF termsBar
  <2> QED BY <2>1, <2>2
<1>7. \A u \in Users \ {from, to}, n \in TokenSymbols : heldBar'[u][n] = heldBar[u][n]
  BY <1>1, <1>2, <1>4 DEF Change
<1>8. heldBar' = [heldBar EXCEPT ![from] = [n \in TokenSymbols |-> heldBar[from][n] - p[n]],
                                 ![to] = [n \in TokenSymbols |-> heldBar[to][n] + p[n]]]
  <2> DEFINE f == [n \in TokenSymbols |-> heldBar[from][n] - p[n]]
             g == [n \in TokenSymbols |-> heldBar[to][n] + p[n]]
  <2>1. /\ f = [n \in TokenSymbols |-> heldBar'[from][n]]
        /\ g = [n \in TokenSymbols |-> heldBar'[to][n]]
    BY <1>5
  <2>2. /\ DOMAIN heldBar = Users /\ heldBar' = [u \in Users |-> heldBar'[u]]
        /\ \A u \in Users : /\ heldBar'[u] = [n \in TokenSymbols |-> heldBar'[u][n]]
                            /\ heldBar[u] = [n \in TokenSymbols |-> heldBar[u][n]]
    BY DEF heldBar
  <2>3. \A u \in Users \ {from, to} : heldBar'[u] = heldBar[u]
    BY <1>7, <2>2
  <2>4. heldBar'[from] = f /\ heldBar'[to] = g
    BY <2>1, <2>2
  <2> HIDE DEF f, g
  <2>5. heldBar' = [heldBar EXCEPT ![from] = f, ![to] = g]
    BY <1>1, <2>2, <2>3, <2>4
  <2> QED BY <2>5 DEF f, g
<1>9. NftLedger!Pay(from, to)
  <2> HIDE DEF p
  <2>1. p = [n \in TokenSymbols |-> heldBar[from][n] - heldBar'[from][n]]
    BY DEF p
  <2> QED BY <1>1, <1>3, <1>6, <1>8, <2>1 DEF NftLedger!Pay
<1> QED BY <1>9 DEF NftLedger!Next, NftLedger!Step

\* What leaves the tables alone leaves the ledger alone.
LEMMA LedgerUnchanged == ASSUME UNCHANGED ntokenvars PROVE NftLedger!Next
<1>1. UNCHANGED <<termsBar, supplyBar, heldBar>>
  BY DEF ntokenvars, termsBar, supplyBar, heldBar, Names, is_valid, BalanceOf
<1> QED BY <1>1 DEF NftLedger!Next, NftLedger!ledgervars

LEMMA CommonSteps ==
    ASSUME NtokenInv, NEW A, Create(A) \/ Register \/ Supply
    PROVE  NftLedger!Next
<1>1. CASE Create(A)
  <2>1. PICK u \in Makers \cap A, k \in MaxSupplies, n \in Symbols, w \in Uris, o \in IpOwners :
          create(u, k, n, w, o)
    BY <1>1 DEF Create
  <2>2. u \in Makers /\ u \in Users
    BY NtokenAccounts
  <2> QED BY <2>1, <2>2, CreateAdds, CreateOpens
<1>2. CASE Register
  BY <1>2, RegisterIsNothing DEF NftLedger!Next
<1>3. CASE Supply
  BY <1>3, SupplySteps
<1> QED BY <1>1, <1>2, <1>3

LEMMA LedgerInit ==
    ASSUME Init
    PROVE  /\ termsBar = [n \in TokenSymbols |-> {}]
           /\ supplyBar = [n \in TokenSymbols |-> 0]
           /\ heldBar = [u \in Users |-> [n \in TokenSymbols |-> 0]]
<1>1. DOMAIN nstats = {} /\ DOMAIN accounts = {}
  BY DEF Init, EmptyTable
<1>2. \A n : ~ Names(n)
  BY <1>1 DEF Names
<1>3. \A u, n : BalanceOf(u, n) = 0
  BY <1>1 DEF BalanceOf
<1> QED BY <1>2, <1>3 DEF termsBar, supplyBar, heldBar

LEMMA NftoneSteps == ASSUME NtokenInv, [Next_nftone]_vars_nftone PROVE NftLedger!Next
<1>1. CASE Common_nftone
  BY <1>1, CommonSteps DEF Common_nftone
<1>2. CASE Permit
  BY <1>2, LedgerUnchanged DEF Permit, setlocktime, setacctperms, ntokenvars
<1>3. CASE Send
  BY <1>3, MovesPay DEF Send, transfer
<1>4. CASE Tick \/ UNCHANGED vars_nftone
  BY <1>4, LedgerUnchanged DEF Tick, vars_nftone
<1> QED BY <1>1, <1>2, <1>3, <1>4 DEF Next_nftone

LEMMA AmaxSteps == ASSUME NtokenInv, [Next_amax]_vars_amax PROVE NftLedger!Next
<1>1. CASE Common_amax
  BY <1>1, CommonSteps DEF Common_amax
<1>2. CASE Allow
  BY <1>2, LedgerUnchanged DEF Allow, setcheck, approve
<1>3. CASE Send_amax
  BY <1>3, MovesPay DEF Send_amax, transfer_amax, transferfrom
<1>4. CASE UNCHANGED vars_amax
  BY <1>4, LedgerUnchanged DEF vars_amax
<1> QED BY <1>1, <1>2, <1>3, <1>4 DEF Next_amax

\* nftone.ntoken is a ledger: its locks and permissions only ever refuse a payment, and
\* nothing but its issuer's own issue and retirement changes how much there is of an NFT
\* (nftone.ntoken.cpp:32-222, :247-316).
THEOREM NftoneImplementsLedger == Spec_nftone => ImplementsLedger
<1>1. NtokenInv /\ [Next_nftone]_vars_nftone => [NftLedger!Next]_NftLedger!ledgervars
  BY NftoneSteps
<1>2. NftoneInv => NtokenInv
  BY DEF NftoneInv
<1>3. Init_nftone => Init
  BY DEF Init_nftone
<1>4. Init => /\ termsBar = [n \in TokenSymbols |-> {}]
              /\ supplyBar = [n \in TokenSymbols |-> 0]
              /\ heldBar = [u \in Users |-> [n \in TokenSymbols |-> 0]]
  BY LedgerInit
<1> QED BY <1>1, <1>2, <1>3, <1>4, NftoneInvariant, PTL
        DEF Spec_nftone, ImplementsLedger, NftLedger!Spec

\* amax.ntoken is the same ledger: an allowance moves NFTs from the account it is for to
\* one other, and makes none (amax.ntoken.cpp:6-246).
THEOREM AmaxImplementsLedger == Spec_amax => ImplementsLedger
<1>1. NtokenInv /\ [Next_amax]_vars_amax => [NftLedger!Next]_NftLedger!ledgervars
  BY AmaxSteps
<1>2. AmaxInv => NtokenInv
  BY DEF AmaxInv
<1>3. Init_amax => Init
  BY DEF Init_amax
<1>4. Init => /\ termsBar = [n \in TokenSymbols |-> {}]
              /\ supplyBar = [n \in TokenSymbols |-> 0]
              /\ heldBar = [u \in Users |-> [n \in TokenSymbols |-> 0]]
  BY LedgerInit
<1> QED BY <1>1, <1>2, <1>3, <1>4, AmaxInvariant, PTL
        DEF Spec_amax, ImplementsLedger, NftLedger!Spec
=============================================================================
