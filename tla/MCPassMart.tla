----------------------------- MODULE MCPassMart -----------------------------
(***************************************************************************)
(* The mart and its custody on a small instance, for TLC.                  *)
(***************************************************************************)
EXTENDS PassMart, TLC

CONSTANTS u1, u2, custody, mine, mart, split

\* u1 owns k passes of every kind and n MIDs; u2 owns c MUSDT.
StockPasses == [x \in Accounts |-> [a \in Assets |-> IF x = u1 THEN 2 ELSE 0]]
StockMids   == [x \in Accounts |-> [m \in Mids |-> IF x = u1 THEN 2 ELSE 0]]
BuyersMoney == [x \in Users \cup {Split} |-> IF x = u2 THEN 4 ELSE 0]

FirstDay  == {<<0, 1>>}
NoWindow  == {}
=============================================================================
