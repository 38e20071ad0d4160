--------------------------- MODULE MCPassCustody ---------------------------
(***************************************************************************)
(* The custody on small instances, for TLC.                                *)
(***************************************************************************)
EXTENDS PassCustody, TLC

CONSTANTS u1, u2, custody, mine

\* u1 owns k passes of every kind, u2 owns n MIDs.
Passes(k) == [x \in Accounts |-> [a \in Assets |-> IF x = u1 THEN k ELSE 0]]
MidsOf(n) == [x \in Accounts |-> [m \in Mids |-> IF x = u2 THEN n ELSE 0]]

ThreePasses == Passes(3)
FourPasses  == Passes(4)
FivePasses  == Passes(5)
SixPasses   == Passes(6)
NoMids     == MidsOf(0)
TwoMids    == MidsOf(2)

NoWindow  == {}
OneWindow == {<<1, 2>>}
=============================================================================
