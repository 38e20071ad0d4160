------------------------------ MODULE PassMart ------------------------------
(***************************************************************************)
(* pass.mart: the sale of passes with a MID as a gift.  The owner of a     *)
(* product refuels it with passes and with MIDs; a buyer pays MUSDT, gets  *)
(* the MIDs at once and the passes as a lock in pass.custody, and the      *)
(* price goes to a split plan of amax.split.                               *)
(*                                                                         *)
(* The module composes the mart with the custody of PassCustody: a sale is *)
(* one transaction over both, and whatever the custody does is limited by  *)
(* the mart's handlers, which refuse every transfer but a refuel.  Names   *)
(* that PassCustody has too carry the suffix _mart.                        *)
(***************************************************************************)
EXTENDS PassCustody

CONSTANTS
    Mart, Split,     \* the contract, and amax.split
    Owners,          \* users that own products
    Buyers,          \* users with the 1 AMAX a buyer must have
    Prices, SellTimes, EndTimes, \* prices, <<started_at, ended_at>>, new end times
    RefuelAmounts, BuyAmounts, Payments,
    Wirings,         \* accounts init may name for sold passes to be sent to
    FirstMoney,      \* what the users own of MUSDT at first
    MaxPasses        \* bound: products

ASSUME MartAccounts ==
    /\ Mart \in Users \ (Lockers \cup Receivers)
    /\ Split \notin Accounts
    /\ Owners \cup Buyers \subseteq Users \ {Mart}
    /\ Wirings \subseteq Accounts \ {Mart}
ASSUME MartInputs ==
    /\ Prices \subseteq Nat \ {0} /\ EndTimes \subseteq Nat /\ SellTimes \subseteq Nat \X Nat
    /\ RefuelAmounts \subseteq Nat \ {0} /\ BuyAmounts \subseteq Nat /\ Payments \subseteq Nat
    /\ FirstMoney \in [Users \cup {Split} -> Nat]
    /\ MaxPasses \in Nat
ASSUME MartStartsEmpty ==
    (\A a \in Assets : FirstPass[Mart][a] = 0) /\ (\A m \in Mids : FirstMid[Mart][m] = 0)

VARIABLES
    mstate,   \* global: last_pass_id, last_order_id, whether init has named the NFT
              \* contracts the mart hears from, and the custody_contract it named
    passes,   \* product id -> row
    money,    \* MUSDT of the users and amax.split, in amax.mtoken
    elsewhere \* history: passes sold to another account than the custody, by plan

custodyvars == vars
martvars == <<mstate, passes, money, elsewhere>>
allvars == <<custodyvars, martvars>>

PassIds == 1 .. MaxPasses

------------------------------------------------------------------------------
(* Products *)

\* init: by the contract, at any time.
init_mart(custody_contract) ==
    /\ mstate' = [mstate EXCEPT !.contracts = TRUE,
                                !.custody_contract = custody_contract]
    /\ UNCHANGED <<passes, money, elsewhere, custodyvars>>

\* By the contract or its admin, for a custody plan of the same asset.
addpass(owner, a, gift, price, started_at, ended_at, custody_plan_id) ==
    LET id == mstate.last_pass_id + 1
    IN  /\ mstate.contracts /\ mstate.custody_contract = Custody
        /\ ended_at > started_at
        /\ custody_plan_id \in DOMAIN plans
        /\ plans[custody_plan_id].asset_symbol = a
        /\ id \in PassIds
        /\ passes' = Emplace(passes, id,
               [owner |-> owner, nft |-> a, nft_total |-> 0, nft_available |-> 0,
                gift |-> gift, gift_nft_total |-> 0, gift_nft_available |-> 0,
                price |-> price, custody_plan_id |-> custody_plan_id,
                status |-> "processing",
                sell_started_at |-> started_at, sell_ended_at |-> ended_at])
        /\ mstate' = [mstate EXCEPT !.last_pass_id = id]
        /\ UNCHANGED <<money, elsewhere, custodyvars>>

\* By the contract, its admin or the owner.  What is unsold stays with the mart.
closepass(id) ==
    /\ id \in DOMAIN passes
    /\ passes[id].status = "open"
    /\ passes' = [passes EXCEPT ![id].status = "closed", ![id].sell_ended_at = now]
    /\ UNCHANGED <<mstate, money, elsewhere, custodyvars>>

setendtime(id, sell_ended_at) ==
    /\ id \in DOMAIN passes
    /\ passes' = [passes EXCEPT ![id].sell_ended_at = sell_ended_at]
    /\ UNCHANGED <<mstate, money, elsewhere, custodyvars>>

setowner(id, owner) ==
    /\ id \in DOMAIN passes
    /\ passes' = [passes EXCEPT ![id].owner = owner]
    /\ UNCHANGED <<mstate, money, elsewhere, custodyvars>>

------------------------------------------------------------------------------
(* Refuels *)

MidMoves(m, from, to, n) ==
    /\ mid[from][m] >= n
    /\ mid' = [x \in Accounts |->
                  [mid[x] EXCEPT ![m] = @ - (IF x = from THEN n ELSE 0)
                                          + (IF x = to THEN n ELSE 0)]]

\* verso_transfer: MIDs for the gifts, whatever the product's status.
verso_transfer(from, m, quantity, id) ==
    /\ id \in DOMAIN passes
    /\ mstate.contracts
    /\ passes[id].owner = from /\ passes[id].gift = m
    /\ MidMoves(m, from, Mart, quantity)
    /\ passes' = [passes EXCEPT ![id].gift_nft_available = @ + quantity,
                                ![id].gift_nft_total = @ + quantity]
    /\ UNCHANGED <<mstate, money, elsewhere, config, plans, locks, pass, now, stray>>

\* nft_transfer: passes to sell.  This opens the product, a closed one too.
nft_transfer(from, a, quantity, id) ==
    /\ id \in DOMAIN passes
    /\ mstate.contracts
    /\ passes[id].owner = from /\ passes[id].nft = a
    /\ PassMoves(a, from, PayOne(Accounts, Mart, quantity))
    /\ passes' = [passes EXCEPT ![id].nft_available = @ + quantity,
                                ![id].nft_total = @ + quantity,
                                ![id].status = "open"]
    /\ UNCHANGED <<mstate, money, elsewhere, config, plans, locks, mid, now, stray>>

------------------------------------------------------------------------------
(* Sales *)

\* Mutant: the gifts sold are not taken off those available.
BugGiftsStay(product, amount) == [product EXCEPT !.nft_available = @ - amount]

SoldFrom(product, amount) ==
    [product EXCEPT !.nft_available = @ - amount, !.gift_nft_available = @ - amount]

\* Mutant: the split plan gets the price of one pass.
BugPriceOfOne(product, amount) == product.price

Cost(product, amount) == product.price * amount

\* Mutant: only the stock of passes is checked.
BugOnlyPasses(product, amount) == amount <= product.nft_available

StockCovers(product, amount) ==
    amount <= product.nft_available /\ amount <= product.gift_nft_available

\* The passes go to the account init named last with a lock memo for the buyer.  Only
\* the custody of the plan acts on it; any other account just has the passes.
PassesGo(product, amount, buyer) ==
    LET plan == product.custody_plan_id
    IN  IF mstate.custody_contract = Custody
        THEN LockFor(Mart, product.nft, amount, buyer, plan, 0) /\ UNCHANGED elsewhere
        ELSE /\ PassMoves(product.nft, Mart, PayOne(Accounts, mstate.custody_contract, amount))
             /\ elsewhere' = [elsewhere EXCEPT ![plan] = @ + amount]
             /\ UNCHANGED <<config, plans, locks, now, stray>>

\* mtoken_transfer: MUSDT with the memo "buy:id:amount".
mtoken_transfer(from, quantity, id, amount) ==
    LET product == passes[id]
    IN  /\ mstate.contracts
        /\ quantity \in 1 .. money[from]
        /\ id \in DOMAIN passes
        /\ product.status = "open"
        /\ now \in product.sell_started_at .. product.sell_ended_at
        /\ Cost(product, amount) = quantity
        /\ StockCovers(product, amount)
        /\ passes' = [passes EXCEPT ![id] = SoldFrom(product, amount)]
        /\ mstate' = [mstate EXCEPT !.last_order_id = @ + 1]
        /\ MidMoves(product.gift, Mart, from, amount)
        /\ PassesGo(product, amount, from)
        /\ money' = [money EXCEPT ![from] = @ - quantity, ![Split] = @ + quantity]

------------------------------------------------------------------------------
(* The specification *)

\* Mutant: the mart ignores what it does not recognise, as the custody does.
BugMartKeeps == TRUE

\* The mart's handlers abort a transfer without a refuel memo: a refund or a release
\* from the custody, or MIDs it passes on.
MartRefuses == pass'[Mart] = pass[Mart] /\ mid'[Mart] = mid[Mart]

CustodyStep == Next /\ MartRefuses /\ UNCHANGED martvars

Init_mart ==
    /\ Init
    /\ mstate = [last_pass_id |-> 0, last_order_id |-> 0,
                 contracts |-> FALSE, custody_contract |-> Custody]
    /\ passes = EmptyTable
    /\ money = FirstMoney
    /\ elsewhere = [p \in PlanIds |-> 0]

Product ==
    \/ \E a \in Wirings : init_mart(a)
    \/ \E u \in Owners, a \in Assets, m \in Mids, c \in Prices, t \in SellTimes, p \in PlanIds :
           addpass(u, a, m, c, t[1], t[2], p)
    \/ \E id \in PassIds : closepass(id)
    \/ \E id \in PassIds, t \in EndTimes : setendtime(id, t)
    \/ \E id \in PassIds, u \in Owners : setowner(id, u)

Trade ==
    \/ \E u \in Owners, m \in Mids, n \in RefuelAmounts, id \in PassIds :
           verso_transfer(u, m, n, id)
    \/ \E u \in Owners, a \in Assets, n \in RefuelAmounts, id \in PassIds :
           nft_transfer(u, a, n, id)
    \/ \E u \in Buyers, q \in Payments, n \in BuyAmounts, id \in PassIds :
           mtoken_transfer(u, q, id, n)

Next_mart == CustodyStep \/ Product \/ Trade

Spec_mart == Init_mart /\ [][Next_mart]_allvars
------------------------------------------------------------------------------
(* Rows *)

PassRow == [owner : Owners, nft : Assets, nft_total : Nat, nft_available : Nat,
            gift : Mids, gift_nft_total : Nat, gift_nft_available : Nat,
            price : Prices, custody_plan_id : Nat,
            status : {"processing", "open", "closed"},
            sell_started_at : Nat, sell_ended_at : Nat]

Sold(id) == passes[id].nft_total - passes[id].nft_available
SoldUnder(p) ==
    SumFunction([id \in {i \in DOMAIN passes : passes[i].custody_plan_id = p} |-> Sold(id)])
PassesOf(a) ==
    SumFunction([id \in {i \in DOMAIN passes : passes[i].nft = a} |-> passes[id].nft_available])
GiftsOf(m) ==
    SumFunction([id \in {i \in DOMAIN passes : passes[i].gift = m} |->
                    passes[id].gift_nft_available])

------------------------------------------------------------------------------
(* Properties *)

\* Every variable of the mart has its type, and a product names a plan that exists.
TypeOK_mart ==
    /\ mstate \in [last_pass_id : Nat, last_order_id : Nat,
                   contracts : BOOLEAN, custody_contract : Accounts]
    /\ IsTable(passes, 1 .. mstate.last_pass_id, PassRow)
    /\ \A id \in DOMAIN passes : passes[id].custody_plan_id \in DOMAIN plans
    /\ money \in [Users \cup {Split} -> Nat]
    /\ elsewhere \in [PlanIds -> Nat]

\* The mart holds exactly the passes and the MIDs its products have available,
\* through refuels, sales and whatever the custody sends or tries to send.
StockHeld ==
    /\ \A a \in Assets : pass[Mart][a] = PassesOf(a)
    /\ \A m \in Mids : mid[Mart][m] = GiftsOf(m)

\* Every pass sold went with one MID, and its price reached the split plan.
SalesSettle ==
    /\ \A id \in DOMAIN passes :
          Sold(id) = passes[id].gift_nft_total - passes[id].gift_nft_available
    /\ money[Split] - FirstMoney[Split] =
          SumFunction([id \in DOMAIN passes |-> passes[id].price * Sold(id)])

\* A buyer's passes are never taken back: what a plan refunded is at most what was
\* locked under it by others than the mart, since a refund to the mart aborts.  Passes
\* sold after init named another account are not under the plan.
SoldNeverRefunded ==
    \A p \in DOMAIN plans :
        plans[p].total_refunded + SoldUnder(p) - elsewhere[p] <= plans[p].total_issued
=============================================================================
