----------------------------- MODULE MCNtokens -----------------------------
(***************************************************************************)
(* The three token contracts on a small instance, for TLC.                 *)
(***************************************************************************)
EXTENDS Ntokens, TLC

CONSTANTS u1, u2, nobody

\* A request for a new id; a token of no parent, one of parent 1.
Auto  == [id |-> 0, parent_id |-> 0]
Whole == [id |-> 1, parent_id |-> 0]
Part  == [id |-> 2, parent_id |-> 1]
SomeSymbols == {Auto, Whole, Part}

Twin  == [id |-> 2, parent_id |-> 0]

Loads     == {[m \in {Part} |-> 1], [m \in {Whole, Twin} |-> 1]}
OnWhole   == {<<u2, Whole>>}
\* One token in its own precision and in another; the reward on 10 is 1.
Coin  == [code |-> "NTT", precision |-> 6]
Cents == [code |-> "NTT", precision |-> 2]
Coins == {Coin, Cents}

OneWindow == {<<Whole, 1, 2>>}
=============================================================================
