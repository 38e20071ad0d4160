---------------------------- MODULE MCRndnftSwap ----------------------------
(***************************************************************************)
(* The random swap on a small instance, for TLC.                           *)
(***************************************************************************)
EXTENDS RndnftSwap, TLC

CONSTANTS u1, u2, swap, nobody

\* Two NFTs of one contract, each of which a booth takes: blind boxes are swapped for
\* cats, cats for blind boxes, and both can lie in the boxes of both booths.
Blind == [bank |-> "amax.ntoken", id |-> 1]
Cat   == [bank |-> "amax.ntoken", id |-> 2]
Zoo   == {Blind, Cat}

Tickets == {Blind, Cat}
OneDay == {<<1, 2>>}

Counters(n) == [sum |-> 0, num |-> n, boxsum |-> 0, boxnum |-> n]
Memories == {Counters(0), Counters(1)}

\* u1 has two cats and a blind box, u2 four blind boxes.
FirstZoo == [a \in Accounts |-> [n \in Nfts |->
                IF a = u1 /\ n = Cat THEN 2 ELSE IF a = u1 /\ n = Blind THEN 1
                ELSE IF a = u2 /\ n = Blind THEN 4 ELSE 0]]
=============================================================================
