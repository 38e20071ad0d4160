---------------------------- MODULE MCNftoneMart ----------------------------
(***************************************************************************)
(* The market on small instances, for TLC.                                 *)
(***************************************************************************)
EXTENDS NftoneMart, TLC

CONSTANTS u1, u2, mart, split, none

\* Token contracts and symbols: one symbol of two contracts, and another symbol.
Musdt  == [bank |-> "amax.mtoken", symbol |-> "MUSDT"]
Musdt2 == [bank |-> "amax.token", symbol |-> "MUSDT"]
Amax   == [bank |-> "amax.token", symbol |-> "AMAX"]
Banks  == {"amax.mtoken", "amax.token"}

\* One token id of two NFT contracts: their orders share a scope.
Art  == [bank |-> "amax.ntoken", id |-> 1]
Pass == [bank |-> "nftone.ntoken", id |-> 1]

Purse(rich, r, p) ==
    [a \in Accounts |-> [c \in Currencies |->
        IF a = rich THEN r ELSE IF a \in Users THEN p ELSE 0]]
Stock(k) == [a \in Accounts |-> [n \in Nfts |-> IF a = u1 THEN k ELSE 0]]

\* core: two token contracts with one symbol, every bid refunded at a close
CoreNfts       == {Art}
CoreCurrencies == {Musdt, Musdt2}
CoreIpOwner    == [n \in Nfts |-> none]
CoreRates      == {<<1, 1>>}
CoreMoney      == Purse(u2, 5, 0)
CoreStock      == Stock(2)

\* limit: closes leave bids behind; two NFT contracts, an IP owner
LimitNfts       == {Art, Pass}
LimitCurrencies == {Musdt, Amax}
LimitIpOwner    == [n \in Nfts |-> IF n = Art THEN u2 ELSE none]
LimitMoney      == Purse(u2, 6, 0)
LimitStock      == Stock(1)
=============================================================================
