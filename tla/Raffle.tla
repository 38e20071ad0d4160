------------------------------- MODULE Raffle -------------------------------
(***************************************************************************)
(* What the two random sales promise, with no boxes, counters, indices or  *)
(* opening times in sight.  A booth sells at one price in one coin, both   *)
(* fixed when it is opened.  Its stock comes from its owner; it goes to    *)
(* buyers, each of whom pays the price for every good drawn, all of which  *)
(* reaches the till; and when the booth is closed, all of it goes back to  *)
(* the owner or none does.  Nothing else moves, and no booth comes back.   *)
(* Nothing is promised any more once somebody has set a stock by hand.     *)
(***************************************************************************)
EXTENDS Integers, Functions

CONSTANTS
    Users,
    Goods, Coins,   \* assets that are sold, and assets that are paid with
    Prices,
    Keys            \* of booths

VARIABLES
    edited,         \* whether a stock was set by hand
    used,           \* keys of the booths opened so far
    terms,          \* key -> the owner, the coin and the price of a booth, or nothing
    stock,          \* key -> good -> amount
    till,           \* coin -> what buyers have paid
    purse           \* user -> asset -> amount

promised == <<used, terms, stock, till, purse>>
vars == <<edited, promised>>

NoGoods == [g \in Goods |-> 0]
Of(bag, a) == IF a \in DOMAIN bag THEN bag[a] ELSE 0

Open(u, c, p, k) ==
    /\ k \notin used /\ used' = used \cup {k}
    /\ terms' = [terms EXCEPT ![k] = {[owner |-> u, coin |-> c, price |-> p]}]
    /\ UNCHANGED <<stock, till, purse>>

\* Of every good, what the stock has gained, out of the owner's purse.
Fill(k) ==
    \E t \in terms[k] :
        LET bag == [g \in Goods |-> stock'[k][g] - stock[k][g]]
        IN  /\ \A g \in Goods : bag[g] \in 0 .. purse[t.owner][g]
            /\ stock' = [stock EXCEPT ![k] = stock'[k]]
            /\ purse' = [purse EXCEPT ![t.owner] =
                             [a \in Goods \cup Coins |-> purse[t.owner][a] - Of(bag, a)]]
            /\ UNCHANGED <<used, terms, till>>

\* Of every good, what the stock no longer has: the buyer gets it, for its price.
Draw(u, k) ==
    \E t \in terms[k] :
        LET bag  == [g \in Goods |-> stock[k][g] - stock'[k][g]]
            cost == t.price * SumFunction(bag)
        IN  /\ \A g \in Goods : bag[g] \in 0 .. stock[k][g]
            /\ cost \in 1 .. purse[u][t.coin]
            /\ stock' = [stock EXCEPT ![k] = stock'[k]]
            /\ till' = [till EXCEPT ![t.coin] = @ + cost]
            /\ purse' = [purse EXCEPT ![u] =
                             [a \in Goods \cup Coins |->
                                 purse[u][a] - (IF a = t.coin THEN cost ELSE 0) + Of(bag, a)]]
            /\ UNCHANGED <<used, terms>>

Close(k) ==
    \E t \in terms[k] : \E back \in {stock[k], NoGoods} :
        /\ terms' = [terms EXCEPT ![k] = {}]
        /\ stock' = [stock EXCEPT ![k] = NoGoods]
        /\ purse' = [purse EXCEPT ![t.owner] =
                         [a \in Goods \cup Coins |-> purse[t.owner][a] + Of(back, a)]]
        /\ UNCHANGED <<used, till>>

Step ==
    \E k \in Keys :
        \/ \E u \in Users, c \in Coins, p \in Prices : Open(u, c, p, k)
        \/ Fill(k)
        \/ \E u \in Users : Draw(u, k)
        \/ Close(k)

\* Whether anything changes at all is looked at first.
Next == edited' \/ (~edited /\ (UNCHANGED promised \/ Step))

Spec ==
    /\ ~edited
    /\ used = {}
    /\ terms = [k \in Keys |-> {}]
    /\ stock = [k \in Keys |-> NoGoods]
    /\ till \in [Coins -> Nat]
    /\ purse \in [Users -> [Goods \cup Coins -> Nat]]
    /\ [][Next]_vars
=============================================================================
