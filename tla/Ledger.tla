------------------------------- MODULE Ledger -------------------------------
(***************************************************************************)
(* What a token contract promises the holders of its assets, with no       *)
(* tables, locks, permissions or allowances in sight: an asset is opened   *)
(* once, with one issuer and one maximum that never change; only its       *)
(* issuer makes more of it, for itself and up to the maximum, and only its *)
(* issuer takes out of the world what is its own; a payment moves exactly  *)
(* what it takes from one account to one other.  The holders of a          *)
(* perishable asset may lose theirs, for a reward no greater than the loss *)
(* to whoever collects it; those of the others never do.                   *)
(***************************************************************************)
EXTENDS Integers

CONSTANTS
    Accounts, Assets,
    Caps,           \* maximums that an asset may be opened with
    Perishable      \* assets that holders may lose

VARIABLES
    terms,          \* asset -> its issuer and its maximum, or nothing
    supply,         \* asset -> amount
    held            \* account -> asset -> amount

ledgervars == <<terms, supply, held>>

Open(u, n, k) ==
    /\ terms[n] = {}
    /\ terms' = [terms EXCEPT ![n] = {[issuer |-> u, cap |-> k]}]
    /\ UNCHANGED <<supply, held>>

\* The supply changes by d together with what u has.
Change(u, n, d) ==
    /\ supply' = [supply EXCEPT ![n] = @ + d]
    /\ held' = [held EXCEPT ![u][n] = @ + d]
    /\ UNCHANGED terms

Make(n) ==
    \E t \in terms[n] : \E k \in 1 .. t.cap - supply[n] : Change(t.issuer, n, k)

Destroy(n) ==
    \E t \in terms[n] : \E k \in 1 .. held[t.issuer][n] : Change(t.issuer, n, 0 - k)

\* Account v collects what u loses, and keeps r of it; both may be the same account.
Perish(u, v, n, k, r) ==
    /\ terms[n] # {}
    /\ supply' = [supply EXCEPT ![n] = @ - (k - r)]
    /\ held' = [w \in Accounts |-> [held[w] EXCEPT
           ![n] = @ - (IF w = u THEN k ELSE 0) + (IF w = v THEN r ELSE 0)]]
    /\ UNCHANGED terms

\* Of every asset, what the payer no longer has.
Pay(u, v) ==
    LET s == [n \in Assets |-> held[u][n] - held'[u][n]]
    IN  /\ u # v
        /\ \A n \in Assets : s[n] \in 0 .. held[u][n] /\ (s[n] > 0 => terms[n] # {})
        /\ held' = [held EXCEPT ![u] = [n \in Assets |-> held[u][n] - s[n]],
                                ![v] = [n \in Assets |-> held[v][n] + s[n]]]
        /\ UNCHANGED <<terms, supply>>

Step ==
    \/ \E u \in Accounts, n \in Assets, k \in Caps : Open(u, n, k)
    \/ \E n \in Assets : Make(n) \/ Destroy(n)
    \/ \E u, v \in Accounts, n \in Perishable : \E k \in 1 .. held[u][n] : \E r \in 0 .. k :
           Perish(u, v, n, k, r)
    \/ \E u, v \in Accounts : Pay(u, v)

\* Whether anything changes at all is looked at first.
Next == UNCHANGED ledgervars \/ Step

\* At first no asset is open and nobody has anything.
Spec ==
    /\ terms = [n \in Assets |-> {}]
    /\ supply = [n \in Assets |-> 0]
    /\ held = [u \in Accounts |-> [n \in Assets |-> 0]]
    /\ [][Next]_ledgervars
=============================================================================
