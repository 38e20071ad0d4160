---------------------------- MODULE MCRndnftMart ----------------------------
(***************************************************************************)
(* The random sale on small instances, for TLC.                            *)
(***************************************************************************)
EXTENDS RndnftMart, TLC

CONSTANTS u1, u2, mart, split

Cat    == [id |-> 1, parent_id |-> 0]
Dog    == [id |-> 2, parent_id |-> 0]
Kitten == [id |-> 3, parent_id |-> 1]
Bird   == [id |-> 4, parent_id |-> 0]

TwoKinds == {Cat, Dog}
\* Each of these is less than the other.
Clashing == {Kitten, Bird}

Amax  == [bank |-> "amax.token", symbol |-> "AMAX"]
Musdt == [bank |-> "amax.mtoken", symbol |-> "MUSDT"]
OneCurrency == {Musdt}

Only(n, k) == [m \in {n} |-> k]
Litters == {Only(Cat, 1), [m \in TwoKinds |-> 1]}
Nests   == {Only(Kitten, 1), Only(Bird, 1)}

\* A price of 2 is rewarded with 2.5 apples, rounded to 3: all that the lease has.
Digits     == [c \in Currencies |-> 400]

Purse(k)   == [a \in Accounts |-> [c \in Currencies |-> IF a = u2 THEN k ELSE 0]]
SalePurse  == Purse(4)
NestPurse  == Purse(1)
Stock(k)   == [a \in Accounts |-> [b \in NftBanks |-> [n \in Symbols |->
                  IF a = u1 /\ b = "amax.ntoken" THEN k ELSE 0]]]
SaleStock  == [a \in Accounts |-> [b \in NftBanks |-> [n \in Symbols |->
                  IF a # u1 \/ b # "amax.ntoken" THEN 0 ELSE IF n = Cat THEN 2 ELSE 1]]]
NestStock  == Stock(2)

SaleTimes == {<<0, 1>>}
NoTimes   == {}
=============================================================================
