------------------------------- MODULE Ntoken -------------------------------
(***************************************************************************)
(* What the two NFT contracts, nftone.ntoken and amax.ntoken, have in      *)
(* common: tokens are created by their issuer, issued up to a maximum,     *)
(* retired, and sent from account to account.  An nsymbol is a token id    *)
(* with the id of its parent; a row is found by the id alone, a balance by *)
(* the whole symbol.                                                       *)
(*                                                                         *)
(* The operations speak of the tables below only; NftoneNtoken and         *)
(* AmaxNtoken add what is theirs and decide who may create and send.       *)
(***************************************************************************)
EXTENDS Tables

CONSTANTS
    Users, Nobody,      \* accounts, and the empty name
    Symbols,            \* nsymbols [id, parent_id] that the actions name
    Uris, NewUris,      \* of create, and of settokenuri
    MaxSupplies, Amounts,
    Batches,            \* vectors of assets: [symbols -> amounts]
    Makers,             \* users that create and setcreator name,
    Notaries, IpOwners, \* that setnotary names, and create and setipowner
    MaxId               \* bound on token ids

ASSUME NtokenAccounts ==
    /\ IsFiniteSet(Users) /\ Nobody \notin Users
    /\ Makers \cup Notaries \subseteq Users /\ IpOwners \subseteq Users \cup {Nobody}
ASSUME NtokenInputs ==
    /\ MaxId \in Nat
    /\ Symbols \subseteq [id : 0 .. MaxId, parent_id : Nat]
    /\ MaxSupplies \subseteq Nat \ {0} /\ Amounts \subseteq Nat \ {0}
    /\ NewUris \subseteq Uris
    /\ \A s \in Batches : IsFiniteSet(DOMAIN s) /\ \A n \in DOMAIN s : s[n] \in Nat \ {0}

VARIABLES
    notaries,   \* of global
    creators,   \* whitecreator
    nstats,     \* tokenstats: token id -> row
    accounts    \* <<owner, symbol>> -> balance

ntokenvars == <<notaries, creators, nstats, accounts>>

TokenIds == 0 .. MaxId
is_valid(n) == n.id > n.parent_id

\* Every symbol a token may get.
TokenSymbols == Symbols \cup [id : TokenIds, parent_id : {n.parent_id : n \in Symbols}]

BalanceOf(u, n) == IF <<u, n>> \in DOMAIN accounts THEN accounts[<<u, n>>] ELSE 0

BugAnyParent(n) == is_valid(n) /\ n.id \in DOMAIN nstats

\* The token that the asset of an action names: its row has the whole symbol.
Names(n) == is_valid(n) /\ n.id \in DOMAIN nstats /\ nstats[n.id].symbol = n

------------------------------------------------------------------------------
(* Tokens *)

\* available_primary_key.
NewTokenId == IF nstats = EmptyTable THEN 0 ELSE Max(DOMAIN nstats) + 1

\* The id 0 asks for a new one; the row of the id asked for must not exist yet.
create(issuer, maximum_supply, symbol, token_uri, ipowner) ==
    LET id == IF symbol.id = 0 THEN NewTokenId ELSE symbol.id
    IN  /\ \A i \in DOMAIN nstats : nstats[i].token_uri # token_uri
        /\ symbol.id \notin DOMAIN nstats
        /\ symbol.id # 0 => symbol.id # symbol.parent_id
        /\ id \in TokenIds
        /\ nstats' = Emplace(nstats, id,
               [symbol |-> [symbol EXCEPT !.id = id], supply |-> 0,
                max_supply |-> maximum_supply, token_uri |-> token_uri,
                ipowner |-> ipowner, notary |-> Nobody, issuer |-> issuer])
        /\ UNCHANGED <<notaries, creators, accounts>>

setipowner(id, ip_owner) ==
    /\ id \in DOMAIN nstats
    /\ nstats' = [nstats EXCEPT ![id].ipowner = ip_owner]
    /\ UNCHANGED <<notaries, creators, accounts>>

\* Whether another token has the uri is not looked up.
settokenuri(id, url) ==
    /\ id \in DOMAIN nstats
    /\ nstats' = [nstats EXCEPT ![id].token_uri = url]
    /\ UNCHANGED <<notaries, creators, accounts>>

setnotary(notary, to_add) ==
    /\ notaries' = IF to_add THEN notaries \cup {notary} ELSE notaries \ {notary}
    /\ UNCHANGED <<creators, nstats, accounts>>

notarize(notary, id) ==
    /\ notary \in notaries
    /\ id \in DOMAIN nstats
    /\ nstats' = [nstats EXCEPT ![id].notary = notary]
    /\ UNCHANGED <<notaries, creators, accounts>>

setcreator(creator, to_add) ==
    /\ to_add <=> creator \notin creators
    /\ creators' = IF to_add THEN creators \cup {creator} ELSE creators \ {creator}
    /\ UNCHANGED <<notaries, nstats, accounts>>

------------------------------------------------------------------------------
(* Balances *)

\* Mutant: the supply may pass its maximum.
BugNoCap(row, amount) == TRUE

WithinMax(row, amount) == amount <= row.max_supply - row.supply

\* By the issuer, to itself.
issue(n, amount) ==
    /\ Names(n)
    /\ WithinMax(nstats[n.id], amount)
    /\ nstats' = [nstats EXCEPT ![n.id].supply = @ + amount]
    /\ LET u == nstats[n.id].issuer
       IN  accounts' = Emplace(accounts, <<u, n>>, BalanceOf(u, n) + amount)
    /\ UNCHANGED <<notaries, creators>>

\* Mutant: the supply is not lowered.
BugRetireBalance(row, amount) == row

Retired(row, amount) == [row EXCEPT !.supply = @ - amount]

\* By the issuer, out of its own balance.
retire(n, amount) ==
    /\ Names(n)
    /\ LET u == nstats[n.id].issuer
       IN  /\ amount <= BalanceOf(u, n)
           /\ accounts' = [accounts EXCEPT ![<<u, n>>] = @ - amount]
    /\ nstats' = [nstats EXCEPT ![n.id] = Retired(nstats[n.id], amount)]
    /\ UNCHANGED <<notaries, creators>>

\* sub_balance and add_balance for every asset of a vector.
Moves(from, to, s) ==
    /\ from # to
    /\ \A n \in DOMAIN s : Names(n) /\ s[n] <= BalanceOf(from, n)
    /\ accounts' = [k \in DOMAIN accounts \cup {<<to, n>> : n \in DOMAIN s} |->
           BalanceOf(k[1], k[2])
           + (IF k[2] \notin DOMAIN s THEN 0
              ELSE IF k[1] = to THEN s[k[2]] ELSE IF k[1] = from THEN -s[k[2]] ELSE 0)]
    /\ UNCHANGED <<notaries, creators, nstats>>

------------------------------------------------------------------------------
(* What both contracts let anybody with the authority do *)

Init ==
    /\ notaries = {}
    /\ creators = {}
    /\ nstats = EmptyTable
    /\ accounts = EmptyTable

Register ==
    \/ \E i \in TokenIds, u \in IpOwners : setipowner(i, u)
    \/ \E i \in TokenIds, w \in NewUris : settokenuri(i, w)
    \/ \E u \in Notaries, a \in BOOLEAN : setnotary(u, a)
    \/ \E u \in Notaries, i \in TokenIds : notarize(u, i)
    \/ \E u \in Makers, a \in BOOLEAN : setcreator(u, a)

Supply ==
    \/ \E n \in TokenSymbols, k \in Amounts : issue(n, k)
    \/ \E n \in TokenSymbols, k \in Amounts : retire(n, k)

\* By one of the accounts of Allowed.
Create(Allowed) ==
    \E u \in Makers \cap Allowed, k \in MaxSupplies, n \in Symbols, w \in Uris, o \in IpOwners :
        create(u, k, n, w, o)
------------------------------------------------------------------------------
(* Properties *)

NstatRow == [symbol : TokenSymbols, supply : Nat, max_supply : Nat \ {0}, token_uri : Uris,
             ipowner : Users \cup {Nobody}, notary : Users \cup {Nobody}, issuer : Users]

\* Every variable has its type: a row has the id of its symbol and never more supply
\* than its maximum, and no balance is negative.
TypeOK ==
    /\ notaries \subseteq Users /\ creators \subseteq Users
    /\ IsTable(nstats, TokenIds, NstatRow)
    /\ \A i \in DOMAIN nstats : nstats[i].symbol.id = i /\ nstats[i].supply <= nstats[i].max_supply
    /\ IsTable(accounts, Users \X TokenSymbols, Nat)

\* The supply of a token is what its holders have, all of it of the token's own symbol,
\* although the supply is found by id and a balance by id and parent.
SupplyIsHeld ==
    /\ \A i \in DOMAIN nstats :
          nstats[i].supply = SumFunction([u \in Users |-> BalanceOf(u, nstats[i].symbol)])
    /\ \A k \in DOMAIN accounts : Names(k[2])
=============================================================================
