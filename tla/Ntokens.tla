------------------------------ MODULE Ntokens ------------------------------
(***************************************************************************)
(* One account that runs the code of one of the three token contracts, and *)
(* what holds of it whichever that is.                                     *)
(***************************************************************************)
EXTENDS NftoneNtoken, AmaxNtoken, AmaxNtt

VARIABLE code

Init_one ==
    /\ code \in {"nftone.ntoken", "amax.ntoken", "amax.ntt"}
    /\ Init_nftone
    /\ Init_amax
    /\ Init_ntt

Next_one ==
    \/ code = "nftone.ntoken" /\ Next_nftone /\ UNCHANGED <<code, amaxvars, nttvars>>
    \/ code = "amax.ntoken" /\ Next_amax /\ UNCHANGED <<code, nftonevars, nttvars>>
    \/ code = "amax.ntt" /\ Next_ntt /\ UNCHANGED <<code, vars_nftone, amaxvars>>

Spec_one == Init_one /\ [][Next_one]_<<code, vars_nftone, amaxvars, nttvars>>

\* The types of whichever contract runs.
TypesOK == TypeOK /\ TypeOK_nftone /\ TypeOK_amax /\ TypeOK_ntt

\* The supply of every token, fungible or not, is what its holders have.
SuppliesHeld == SupplyIsHeld /\ SupplyIsHeld_ntt
------------------------------------------------------------------------------
(* Refinement *)

\* The books of the NFT contracts, by whole symbols: the asset of a row that another
\* symbol has the id of is not open.
termsBar  == [n \in TokenSymbols |->
    IF Names(n) THEN {[issuer |-> nstats[n.id].issuer, cap |-> nstats[n.id].max_supply]} ELSE {}]
supplyBar == [n \in TokenSymbols |-> IF Names(n) THEN nstats[n.id].supply ELSE 0]
heldBar   == [u \in Users |-> [n \in TokenSymbols |-> BalanceOf(u, n)]]

NftLedger == INSTANCE Ledger WITH
    Accounts <- Users, Assets <- TokenSymbols, Caps <- MaxSupplies, Perishable <- {},
    terms <- termsBar, supply <- supplyBar, held <- heldBar

\* Both NFT contracts are ledgers whose assets do not perish: whatever ids, parents,
\* locks and allowances do, no NFT is made but by its issuer, and none leaves its holder
\* but for one other account.
ImplementsLedger == NftLedger!Spec

\* The books of amax.ntt, by symbols: a balance in another precision is of another asset.
termsBar_ntt  == [s \in Tokens |->
    IF Exists(s) THEN {[issuer |-> stat[s.code].issuer, cap |-> stat[s.code].max_supply]} ELSE {}]
supplyBar_ntt == [s \in Tokens |-> IF Exists(s) THEN stat[s.code].supply ELSE 0]
heldBar_ntt   == [u \in Holders |-> [s \in Tokens |->
    IF <<u, s.code>> \in DOMAIN holdings /\ holdings[<<u, s.code>>].symbol = s
    THEN HeldBy(u, s.code) ELSE 0]]

NttLedger == INSTANCE Ledger WITH
    Accounts <- Holders, Assets <- Tokens, Caps <- Supplies, Perishable <- Tokens,
    terms <- termsBar_ntt, supply <- supplyBar_ntt, held <- heldBar_ntt

\* amax.ntt is a ledger whose assets perish: a burn pays no more than it takes.
ImplementsLedger_ntt == NttLedger!Spec

\* Whichever contract the account runs, its issues, transfers, burns, allowances and locks
\* are steps of the ledger of its kind.
ImplementsLedgers == ImplementsLedger /\ ImplementsLedger_ntt
=============================================================================
