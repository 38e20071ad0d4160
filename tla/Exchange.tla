------------------------------ MODULE Exchange ------------------------------
(***************************************************************************)
(* What a market promises its users, with no order book in sight: each     *)
(* account has a worth in every currency and a holding of every NFT, and   *)
(* the only thing that ever happens is a trade.  In a trade the buyer gives *)
(* one price per NFT; the seller gets it, less a developer fee and an IP   *)
(* owner fee, which go to the accounts they are meant for.                 *)
(***************************************************************************)
EXTENDS Integers

CONSTANTS
    Users, Fund,            \* traders, and the account of the developer fee
    Nfts, Currencies,
    Prices,                 \* prices a trade may have
    IpOwner                 \* whom the IP owner fee of an NFT goes to

VARIABLES worth, holding

Gives(a, b, amount) == IF a = b THEN amount ELSE 0

Trade(seller, buyer, n, c, count, price, devfee, ipfee) ==
    LET gross == count * price
    IN  /\ devfee + ipfee <= gross
        /\ gross <= worth[buyer][c]
        /\ holding' = [u \in Users |->
               [holding[u] EXCEPT ![n] =
                   @ + Gives(u, buyer, count) - Gives(u, seller, count)]]
        /\ worth' = [a \in Users \cup {Fund} |->
               [worth[a] EXCEPT ![c] =
                   @ - Gives(a, buyer, gross)
                     + Gives(a, seller, gross - devfee - ipfee)
                     + Gives(a, Fund, devfee) + Gives(a, IpOwner[n], ipfee)]]

\* Nobody sells more than it holds, nor buys for more than it is worth.
Next ==
    \E seller, buyer \in Users, n \in Nfts, c \in Currencies, p \in Prices :
        \E k \in 1 .. holding[seller][n] :
            \E devfee, ipfee \in 0 .. k * p :
                /\ IpOwner[n] \in Users \/ ipfee = 0
                /\ Trade(seller, buyer, n, c, k, p, devfee, ipfee)

\* Nobody has a negative worth or holding at first, and only trades change them.
Spec ==
    /\ \A u \in Users : \A n \in Nfts : holding[u][n] >= 0
    /\ \A a \in Users \cup {Fund} : \A c \in Currencies : worth[a][c] >= 0
    /\ [][Next]_<<worth, holding>>
=============================================================================
