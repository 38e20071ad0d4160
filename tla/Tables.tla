------------------------------- MODULE Tables -------------------------------
(***************************************************************************)
(* The contracts keep their state in eosio::multi_index tables: rows under *)
(* a unique primary key.  A table is a function from the keys present to   *)
(* their rows; an account book is a function from accounts to amounts.     *)
(***************************************************************************)
EXTENDS Integers, FiniteSets, FiniteSetsExt, Functions

\* Every row of table t has a key of Keys and a value of Rows.
IsTable(t, Keys, Rows) ==
    /\ DOMAIN t \subseteq Keys
    /\ \A k \in DOMAIN t : t[k] \in Rows

\* multi_index::emplace, under a key the table does not hold yet.
Emplace(t, k, row) == [x \in DOMAIN t \cup {k} |-> IF x = k THEN row ELSE t[x]]

\* multi_index::erase of every key of K.
Erase(t, K) == [x \in DOMAIN t \ K |-> t[x]]

EmptyTable == [x \in {} |-> x]

\* What a batch of inline transfers pays: nothing, one amount to one account,
\* and two batches together.
NoPay(Accounts) == [a \in Accounts |-> 0]
PayOne(Accounts, to, amount) == [a \in Accounts |-> IF a = to THEN amount ELSE 0]
PayBoth(p, q) == [a \in DOMAIN p |-> p[a] + q[a]]
=============================================================================
