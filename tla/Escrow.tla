------------------------------- MODULE Escrow -------------------------------
(***************************************************************************)
(* What the custody promises about passes and MIDs, with no plans, days or *)
(* status in sight.  A pass deposited stays in its deposit until it goes   *)
(* to the receiver of the deposit, back to its locker, which ends the      *)
(* deposit, or to the one account that collects deposits.  A receiver may  *)
(* pass on a part, as a deposit of its own, for as many MIDs as there are  *)
(* passes in it.  No other pass or MID moves, and no deposit comes back.   *)
(***************************************************************************)
EXTENDS Integers, Functions

CONSTANTS
    Users, Collector,       \* accounts that own passes, and the one that collects
    Assets, Mids,
    Keys                    \* of deposits

VARIABLES
    used,                   \* keys of the deposits made so far
    terms,                  \* key -> the parties and the asset of a deposit, or nothing
    held,                   \* key -> what is in the deposit
    purse, mids             \* what every account owns

escrowvars == <<used, terms, held, purse, mids>>

Parties == Users \cup {Collector}
Gives(a, b, amount) == IF a = b THEN amount ELSE 0

Deposit(u, v, a, n, k) ==
    /\ k \notin used /\ used' = used \cup {k}
    /\ n <= purse[u][a] /\ purse' = [purse EXCEPT ![u][a] = @ - n]
    /\ terms' = [terms EXCEPT ![k] = {[locker |-> u, receiver |-> v, asset |-> a]}]
    /\ held' = [held EXCEPT ![k] = n]
    /\ UNCHANGED mids

\* Passes sent in without terms are nobody's.
Forfeit(u, a, n) ==
    /\ n <= purse[u][a] /\ purse' = [purse EXCEPT ![u][a] = @ - n]
    /\ UNCHANGED <<used, terms, held, mids>>

\* A deposit of nothing is none.
LessOf(k, n) == IF n = held[k] THEN {} ELSE terms[k]

\* The receiver gets n, and the locker all the rest or nothing.
Release(k, n, rest) ==
    \E t \in terms[k] :
        /\ rest > 0 => n + rest = held[k]
        /\ terms' = [terms EXCEPT ![k] = LessOf(k, n + rest)]
        /\ held' = [held EXCEPT ![k] = @ - (n + rest)]
        /\ purse' = [x \in Parties |-> [purse[x] EXCEPT
               ![t.asset] = @ + Gives(x, t.receiver, n) + Gives(x, t.locker, rest)]]
        /\ UNCHANGED <<used, mids>>

PassOn(k, v, m, n, j) ==
    \E t \in terms[k] :
        /\ j \notin used /\ used' = used \cup {j}
        /\ terms' = [terms EXCEPT ![k] = LessOf(k, n), ![j] = {[t EXCEPT !.receiver = v]}]
        /\ held' = [held EXCEPT ![k] = held[k] - n, ![j] = n]
        /\ n <= mids[t.receiver][m]
        /\ mids' = [x \in Parties |-> [mids[x] EXCEPT
               ![m] = @ - Gives(x, t.receiver, n) + Gives(x, v, n)]]
        /\ UNCHANGED purse

\* Deposits of one asset, whole.
Collect(K, a) ==
    /\ \A k \in K : \E t \in terms[k] : t.asset = a
    /\ terms' = [k \in Keys |-> IF k \in K THEN {} ELSE terms[k]]
    /\ held' = [k \in Keys |-> IF k \in K THEN 0 ELSE held[k]]
    /\ purse' = [purse EXCEPT ![Collector][a] = @ + SumFunction([k \in K |-> held[k]])]
    /\ UNCHANGED <<used, mids>>

Step ==
    \/ \E u, v \in Users, a \in Assets : \E n \in 1 .. purse[u][a] :
           Forfeit(u, a, n) \/ \E k \in Keys : Deposit(u, v, a, n, k)
    \/ \E k \in Keys : \E n \in 0 .. held[k] : \E rest \in 0 .. held[k] - n : Release(k, n, rest)
    \/ \E k, j \in Keys, v \in Users, m \in Mids : \E n \in 1 .. held[k] : PassOn(k, v, m, n, j)
    \/ \E K \in SUBSET Keys, a \in Assets : Collect(K, a)

\* Whether anything changes at all is looked at first.
Next == UNCHANGED escrowvars \/ Step

Spec ==
    /\ used = {}
    /\ terms = [k \in Keys |-> {}]
    /\ held = [k \in Keys |-> 0]
    /\ purse \in [Parties -> [Assets -> Nat]]
    /\ mids \in [Parties -> [Mids -> Nat]]
    /\ [][Next]_escrowvars
=============================================================================
