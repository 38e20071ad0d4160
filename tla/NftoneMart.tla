----------------------------- MODULE NftoneMart -----------------------------
(***************************************************************************)
(* nftone.mart: the NFT market.  Makers send NFTs in and get a sell order; *)
(* a payment either buys from the order or rests as a buyer bid, which the *)
(* maker may take.  The contract holds the NFTs of every open order and    *)
(* the money of every resting bid.                                         *)
(*                                                                         *)
(* A transaction is atomic: the notified handler, the inline transfers it  *)
(* sends and their effects happen together or, when a check fails or a     *)
(* balance is short, not at all.  So one action is one transaction.        *)
(*                                                                         *)
(* sellorders and odextension are scoped by token id; order ids come from  *)
(* one counter of the whole contract, so a key here is the order id alone, *)
(* and the row keeps the token id of its scope.                            *)
(***************************************************************************)
EXTENDS Tables

CONSTANTS
    Users,              \* accounts that trade
    Managers,           \* accounts that init and setfeecollec may name
    Mart,               \* the contract's own account
    SPLIT_CONTRACT,     \* amax.split, which receives the developer fee
    Nfts,               \* [bank, id]: a token id of one NFT contract
    Currencies,         \* [bank, symbol]: an extended symbol of one token contract
    PayBanks,           \* the token contracts whose transfers the market handles
    MUSDT_BANK, NTOKEN_BANK, MUSDT,
    IpOwner,            \* [Nfts -> Users \cup {NoOwner}], nstats.ipowner
    NoOwner,
    MIN_PRICE_PRECISION,
    MAX_REFUND_COUNT,
    IntMax,             \* largest int64_t
    FeeScale,           \* a rate r stands for the double r / FeeScale
    Rates,              \* <<devfeerate, ipfeerate>> that init may be called with
    Prices, Payments,   \* amounts that transfers and memos carry
    MaxOrders, MaxBids, \* bounds on the two id counters
    FirstMoney, FirstNfts \* what the accounts own at first

Accounts == Users \cup {Mart, SPLIT_CONTRACT}
NftBanks == {n.bank : n \in Nfts}

ASSUME AccountsDistinct ==
    /\ Mart \notin Users /\ SPLIT_CONTRACT \notin Users /\ Mart # SPLIT_CONTRACT
    /\ NoOwner \notin Accounts /\ Managers \subseteq Users
    /\ IsFiniteSet(Users)
ASSUME KeysArePairs ==
    /\ \A n \in Nfts : n = [bank |-> n.bank, id |-> n.id]
    /\ \A c \in Currencies : c = [bank |-> c.bank, symbol |-> c.symbol]
ASSUME BoundsAreNaturals ==
    /\ MIN_PRICE_PRECISION \in Nat \ {0}
    /\ MAX_REFUND_COUNT \in Nat \ {0}
    /\ IntMax \in Nat /\ FeeScale \in Nat \ {0}
    /\ MaxOrders \in Nat /\ MaxBids \in Nat
ASSUME InputsAreNaturals ==
    /\ Prices \subseteq Nat \ {0} /\ Payments \subseteq Nat \ {0}
    /\ Rates \subseteq Nat \X Nat
    /\ IpOwner \in [Nfts -> Users \cup {NoOwner}]
    /\ FirstMoney \in [Accounts -> [Currencies -> Nat]]
    /\ FirstNfts \in [Accounts -> [Nfts -> Nat]]
ASSUME MarketStartsEmpty ==
    /\ \A c \in Currencies : FirstMoney[Mart][c] = 0
    /\ \A n \in Nfts : FirstNfts[Mart][n] = 0

VARIABLES
    gstate,         \* global: admin, dev_fee_collector, fee rates, both id counters
    gstate1,        \* global1: farm_scales' keys and nft_contract_whitelist
    sellorders,     \* order id -> row
    odextension,    \* order id -> the NFT contract and the token contract of the order
    buyerbids,      \* bid id -> row
    money,          \* balances in the token contracts
    nft,            \* balances in the NFT contracts
    paidIn          \* history: bid id -> the currency the bid was paid in

tables == <<sellorders, odextension, buyerbids, paidIn>>
vars == <<gstate, gstate1, sellorders, odextension, buyerbids, money, nft, paidIn>>

------------------------------------------------------------------------------
(* Arithmetic and lookups *)

\* The product of two int64_t, as the wasm build computes it.
Int64(n) == IF n \in -IntMax - 1 .. IntMax
            THEN n
            ELSE ((n + IntMax + 1) % (2 * (IntMax + 1))) - (IntMax + 1)

Positive(n) == IF n > 0 THEN n ELSE 0

\* amount * rate, a double, truncated to int64_t.
Fee(amount, rate) == (amount * rate) \div FeeScale

Currency(bank, symbol) == [bank |-> bank, symbol |-> symbol]

OrderIds == 1 .. MaxOrders
BidIds == 1 .. MaxBids

_get_order_extension(oid) ==
    IF oid \in DOMAIN odextension
    THEN odextension[oid]
    ELSE [nft_contract |-> NTOKEN_BANK, asset_contract |-> MUSDT_BANK]

BidsOn(oid) == {b \in DOMAIN buyerbids : buyerbids[b].sell_order_id = oid}

\* Mutant: the bid being taken is refunded with the others.
BugRefundTakenBid(oid, taken) ==
    {b \in BidsOn(oid) : Cardinality({a \in BidsOn(oid) : a < b}) < MAX_REFUND_COUNT}

\* Mutant: the newest bids go first.
BugRefundNewest(oid, taken) ==
    LET waiting == BidsOn(oid) \ {taken}
    IN  {b \in waiting : Cardinality({a \in waiting : a > b}) < MAX_REFUND_COUNT}

\* The bids _refund_buyer_bid pays back and erases: the oldest MAX_REFUND_COUNT
\* of the order's bids, the taken one aside (taken = 0: none is).
_refund_buyer_bid(oid, taken) ==
    LET waiting == BidsOn(oid) \ {taken}
    IN  {b \in waiting : Cardinality({a \in waiting : a < b}) < MAX_REFUND_COUNT}

\* Mutant: a refund pays one price instead of all that is frozen.
BugRefundOnePrice(B) ==
    [a \in Accounts |->
        SumFunction([b \in {x \in B : buyerbids[x].buyer = a} |-> buyerbids[b].price])]

RefundPay(B) ==
    [a \in Accounts |->
        SumFunction([b \in {x \in B : buyerbids[x].buyer = a} |-> buyerbids[b].frozen])]

------------------------------------------------------------------------------
(* Transfers *)

\* `from` sends the market `quant` of c, and the market pays out p of c.  The token
\* contract moves only positive amounts, and no more than the sender has.
MoneyMoves(c, from, quant, p) ==
    LET out == SumFunction(p)
    IN  /\ c \in Currencies
        /\ money[from][c] >= quant
        /\ p \in [Accounts -> Nat]
        /\ out \in 0 .. money[Mart][c] + quant
        /\ money' = [a \in Accounts |->
                        [money[a] EXCEPT ![c] =
                            @ + p[a] + (IF a = Mart THEN quant - out ELSE 0)
                                     - (IF a = from THEN quant ELSE 0)]]

NftMoves(n, from, to, count) ==
    /\ n \in Nfts
    /\ nft[from][n] >= count
    /\ nft' = [a \in Accounts |->
                  [nft[a] EXCEPT ![n] = @ + (IF a = to THEN count ELSE 0)
                                          - (IF a = from THEN count ELSE 0)]]

\* Mutant: the IP owner's fee is taken off where no owner is there to receive it.
BugFeeToNobody(maker, ipowner, earned) ==
    LET gross  == Positive(earned)
        devfee == Fee(gross, gstate.dev_fee_rate)
        ipfee  == Fee(gross, gstate.ipowner_fee_rate)
    IN  PayBoth(PayOne(Accounts, SPLIT_CONTRACT, devfee),
                PayOne(Accounts, maker, gross - devfee - ipfee))

\* What _settle_maker pays: the developer's fee, the IP owner's, the rest to the maker.
_settle_maker(maker, ipowner, earned) ==
    LET gross  == Positive(earned)
        devfee == Fee(gross, gstate.dev_fee_rate)
        ipfee  == IF ipowner = NoOwner THEN 0 ELSE Fee(gross, gstate.ipowner_fee_rate)
    IN  PayBoth(PayOne(Accounts, SPLIT_CONTRACT, devfee),
                PayBoth(PayOne(Accounts, ipowner, ipfee),
                        PayOne(Accounts, maker, gross - devfee - ipfee)))

------------------------------------------------------------------------------
(* Configuration *)

init(admin, collector, rates) ==
    /\ rates[1] > 0 /\ rates[2] > 0 /\ rates[1] + rates[2] < FeeScale
    /\ gstate' = [gstate EXCEPT !.admin = admin, !.dev_fee_collector = collector,
                                !.dev_fee_rate = rates[1], !.ipowner_fee_rate = rates[2]]
    /\ UNCHANGED <<gstate1, tables, money, nft>>

setfeecollec(collector) ==
    /\ gstate' = [gstate EXCEPT !.dev_fee_collector = collector]
    /\ UNCHANGED <<gstate1, tables, money, nft>>

\* By the contract or the admin; the farm reward of the currency is not modelled.
addcoinconf(c, to_add) ==
    /\ gstate1' = [gstate1 EXCEPT !.farm_scales =
                       IF to_add THEN @ \cup {c} ELSE @ \ {c}]
    /\ UNCHANGED <<gstate, tables, money, nft>>

\* Both branches insert.
addnftconf(nbank, to_add) ==
    /\ gstate1' = [gstate1 EXCEPT !.nft_contract_whitelist = @ \cup {nbank}]
    /\ UNCHANGED <<gstate, tables, money, nft>>

------------------------------------------------------------------------------
(* Selling: an NFT transfer to the market places an order *)

\* Without a currency in the memo it is MUSDT; a named one must be configured.
AskCurrency(c) == c = Currency(MUSDT_BANK, MUSDT) \/ c \in gstate1.farm_scales

\* Mutant: ids are counted from the rows present and come back after a close.
BugIdFromRows == Cardinality(DOMAIN sellorders) + 1

NextOrderId == gstate.last_buy_order_idx + 1

_sell_transfer(from, n, count, price, c) ==
    LET oid == NextOrderId
    IN  /\ n.bank \in gstate1.nft_contract_whitelist
        /\ AskCurrency(c)
        /\ price >= MIN_PRICE_PRECISION
        /\ count > 0
        /\ oid <= MaxOrders
        /\ NftMoves(n, from, Mart, count)
        /\ gstate' = [gstate EXCEPT !.last_buy_order_idx = oid]
        /\ sellorders' = Emplace(sellorders, oid,
               [token |-> n.id, price |-> price, symbol |-> c.symbol,
                frozen |-> count, maker |-> from])
        /\ odextension' = Emplace(odextension, oid,
               [nft_contract |-> n.bank, asset_contract |-> c.bank])
        /\ UNCHANGED <<gstate1, buyerbids, paidIn, money>>

------------------------------------------------------------------------------
(* The end of an order: its rows and the refunded bids leave the tables *)

OrderNft(oid) ==
    [bank |-> _get_order_extension(oid).nft_contract, id |-> sellorders[oid].token]

OrderCurrency(oid) ==
    Currency(_get_order_extension(oid).asset_contract, sellorders[oid].symbol)

\* Mutant: an order bought out leaves its extension row behind.
BugKeepExtension(oid, sold, gone) ==
    /\ IF sold = sellorders[oid].frozen
       THEN sellorders' = Erase(sellorders, {oid})
       ELSE sellorders' = [sellorders EXCEPT ![oid].frozen = @ - sold]
    /\ odextension' = odextension
    /\ buyerbids' = Erase(buyerbids, gone)
    /\ paidIn' = Erase(paidIn, gone)

\* Mutant: an order sold to the last NFT stays in the table.
BugNeverErase(oid, sold, gone) ==
    /\ sellorders' = [sellorders EXCEPT ![oid].frozen = @ - sold]
    /\ odextension' = odextension
    /\ buyerbids' = Erase(buyerbids, gone)
    /\ paidIn' = Erase(paidIn, gone)

\* Mutant: a partial sale is not written back to the order.
BugForgetSold(oid, sold, gone) ==
    /\ IF sold = sellorders[oid].frozen
       THEN /\ sellorders' = Erase(sellorders, {oid})
            /\ odextension' = Erase(odextension, {oid})
       ELSE UNCHANGED <<sellorders, odextension>>
    /\ buyerbids' = Erase(buyerbids, gone)
    /\ paidIn' = Erase(paidIn, gone)

\* `sold` NFTs leave order oid, and the bids of `gone` leave the table.
TakeFromOrder(oid, sold, gone) ==
    /\ IF sold = sellorders[oid].frozen
       THEN /\ sellorders' = Erase(sellorders, {oid})
            /\ odextension' = Erase(odextension, {oid})
       ELSE /\ sellorders' = [sellorders EXCEPT ![oid].frozen = @ - sold]
            /\ UNCHANGED odextension
    /\ buyerbids' = Erase(buyerbids, gone)
    /\ paidIn' = Erase(paidIn, gone)

------------------------------------------------------------------------------
(* Buying: a payment buys from the order or rests as a bid *)

\* Mutant: only the symbol of a payment is compared, not the contract it comes from.
BugAnyBank(oid, c, quant, price) ==
    /\ oid \in DOMAIN sellorders
    /\ c.bank \in PayBanks
    /\ c.symbol = sellorders[oid].symbol
    /\ quant >= price

\* The checks a payment passes: the order is there, the currency is the order's.
PaymentFits(oid, c, quant, price) ==
    /\ oid \in DOMAIN sellorders
    /\ c.bank \in PayBanks
    /\ c = OrderCurrency(oid)
    /\ quant >= price

\* What a payment buys from order o, and what the maker earns.
process_single_buy_order(o, quant) ==
    LET offer_cost == Int64(o.frozen * o.price)
        count == quant \div o.price
    IN  IF offer_cost >= quant
        THEN [bought |-> count, earned |-> count * o.price]
        ELSE [bought |-> o.frozen, earned |-> offer_cost]

\* _buy_transfer, the bid price reaching the order's: a deal at the order's price.
BuyNow(buyer, c, quant, oid, price) ==
    LET o    == sellorders[oid]
        deal == process_single_buy_order(o, quant)
        gone == IF deal.bought = o.frozen THEN _refund_buyer_bid(oid, 0) ELSE {}
        left == Positive(Int64(quant - deal.earned))
    IN  /\ PaymentFits(oid, c, quant, price)
        /\ o.price <= price
        /\ TakeFromOrder(oid, deal.bought, gone)
        /\ NftMoves(OrderNft(oid), Mart, buyer, deal.bought)
        /\ MoneyMoves(c, buyer, quant,
               PayBoth(_settle_maker(o.maker, IpOwner[OrderNft(oid)], deal.earned),
                       PayBoth(RefundPay(gone), PayOne(Accounts, buyer, left))))
        /\ UNCHANGED <<gstate, gstate1>>

\* Mutant: the whole payment is recorded as frozen though the rest is sent back.
BugFreezeAll(quant, price) == quant

\* What a resting bid freezes: as many whole prices as the payment holds.
BidFrozen(quant, price) == (quant \div price) * price

\* _buy_transfer, the bid price below the order's: the payment rests as a bid.
PlaceBid(buyer, c, quant, oid, price) ==
    LET bid    == gstate.last_deal_idx + 1
        frozen == BidFrozen(quant, price)
    IN  /\ PaymentFits(oid, c, quant, price)
        /\ price < sellorders[oid].price
        /\ bid <= MaxBids
        /\ gstate' = [gstate EXCEPT !.last_deal_idx = bid]
        /\ buyerbids' = Emplace(buyerbids, bid,
               [sell_order_id |-> oid, price |-> price, symbol |-> c.symbol,
                frozen |-> frozen, buyer |-> buyer])
        /\ paidIn' = Emplace(paidIn, bid, c)
        /\ MoneyMoves(c, buyer, quant,
               PayOne(Accounts, buyer, quant - (quant \div price) * price))
        /\ UNCHANGED <<gstate1, sellorders, odextension, nft>>

------------------------------------------------------------------------------
(* Bids and orders taken and cancelled *)

\* takebuybid: the maker sells to a resting bid, at the bid's price.
takebuybid(seller, bid) ==
    LET row  == buyerbids[bid]
        oid  == row.sell_order_id
        o    == sellorders[oid]
        bid_count == row.frozen \div row.price
        sold == IF bid_count < o.frozen THEN bid_count ELSE o.frozen
        gone == IF bid_count < o.frozen THEN {} ELSE _refund_buyer_bid(oid, bid)
        left == (bid_count - sold) * row.price
    IN  /\ bid \in DOMAIN buyerbids
        /\ oid \in DOMAIN sellorders
        /\ seller = o.maker
        /\ TakeFromOrder(oid, sold, gone \cup {bid})
        /\ NftMoves(OrderNft(oid), Mart, row.buyer, sold)
        /\ MoneyMoves(OrderCurrency(oid), Mart, 0,
               PayBoth(_settle_maker(o.maker, IpOwner[OrderNft(oid)], sold * row.price),
                       PayBoth(RefundPay(gone), PayOne(Accounts, row.buyer, left))))
        /\ UNCHANGED <<gstate, gstate1>>

\* cancelbid: the money comes from the contract the extension names.
cancelbid(buyer, bid) ==
    LET row == buyerbids[bid]
    IN  /\ bid \in DOMAIN buyerbids
        /\ buyer = row.buyer
        /\ MoneyMoves(
               Currency(_get_order_extension(row.sell_order_id).asset_contract, row.symbol),
               Mart, 0, PayOne(Accounts, buyer, row.frozen))
        /\ buyerbids' = Erase(buyerbids, {bid})
        /\ paidIn' = Erase(paidIn, {bid})
        /\ UNCHANGED <<gstate, gstate1, sellorders, odextension, nft>>

\* cancelorder of one order.
cancelorder(maker, oid) ==
    LET o    == sellorders[oid]
        gone == _refund_buyer_bid(oid, 0)
    IN  /\ oid \in DOMAIN sellorders
        /\ maker = o.maker
        /\ TakeFromOrder(oid, o.frozen, gone)
        /\ NftMoves(OrderNft(oid), Mart, maker, o.frozen)
        /\ MoneyMoves(OrderCurrency(oid), Mart, 0, RefundPay(gone))
        /\ UNCHANGED <<gstate, gstate1>>

\* cancelorder with order id 0 loops over the token's orders, but advances an
\* iterator whose row it has just erased: it only completes when there is none.
cancelorder_all(maker, token) ==
    /\ \A oid \in DOMAIN sellorders : sellorders[oid].token # token
    /\ UNCHANGED vars

------------------------------------------------------------------------------
(* The specification *)

Init ==
    /\ gstate = [admin |-> NoOwner, dev_fee_collector |-> NoOwner,
                 dev_fee_rate |-> 0, ipowner_fee_rate |-> 0,
                 last_buy_order_idx |-> 0, last_deal_idx |-> 0]
    /\ gstate1 = [farm_scales |-> {}, nft_contract_whitelist |-> {}]
    /\ sellorders = EmptyTable
    /\ odextension = EmptyTable
    /\ buyerbids = EmptyTable
    /\ paidIn = EmptyTable
    /\ money = FirstMoney
    /\ nft = FirstNfts

Configure ==
    \/ \E u, v \in Managers, r \in Rates : init(u, v, r)
    \/ \E v \in Managers : setfeecollec(v)
    \/ \E c \in Currencies, b \in BOOLEAN : addcoinconf(c, b)
    \/ \E nb \in NftBanks, b \in BOOLEAN : addnftconf(nb, b)

Sell ==
    \E u \in Users, n \in Nfts, p \in Prices, c \in Currencies :
        \E k \in 1 .. nft[u][n] : _sell_transfer(u, n, k, p, c)

_buy_transfer(buyer, c, quant, oid, price) ==
    \/ BuyNow(buyer, c, quant, oid, price)
    \/ PlaceBid(buyer, c, quant, oid, price)

Buy ==
    \E u \in Users, c \in Currencies, q \in Payments, p \in Prices :
        \E oid \in DOMAIN sellorders : _buy_transfer(u, c, q, oid, p)

Close ==
    \/ \E u \in Users, b \in BidIds : takebuybid(u, b)
    \/ \E u \in Users, b \in BidIds : cancelbid(u, b)
    \/ \E u \in Users, o \in OrderIds : cancelorder(u, o)
    \/ \E u \in Users, n \in Nfts : cancelorder_all(u, n.id)

Next == Configure \/ Sell \/ Buy \/ Close

Spec == Init /\ [][Next]_vars

------------------------------------------------------------------------------
(* What the market owes and what its users are worth *)

OrderRow == [token : {n.id : n \in Nfts}, price : Nat \ {0},
             symbol : {c.symbol : c \in Currencies}, frozen : Nat \ {0}, maker : Users]
ExtensionRow == [nft_contract : NftBanks, asset_contract : {c.bank : c \in Currencies}]
BidRow == [sell_order_id : Nat \ {0}, price : Nat \ {0},
           symbol : {c.symbol : c \in Currencies}, frozen : Nat \ {0}, buyer : Users]

OrdersOf(n) == {oid \in DOMAIN sellorders : OrderNft(oid) = n}
Listed(O) == SumFunction([oid \in O |-> sellorders[oid].frozen])
Frozen(B) == SumFunction([b \in B |-> buyerbids[b].frozen])
BidsIn(c) == {b \in DOMAIN buyerbids : paidIn[b] = c}

\* An account's own balance and what the market holds for it.
Worth(a, c) == money[a][c] + Frozen({b \in BidsIn(c) : buyerbids[b].buyer = a})
Holding(u, n) == nft[u][n] + Listed({oid \in OrdersOf(n) : sellorders[oid].maker = u})

------------------------------------------------------------------------------
(* Properties *)

GlobalsOK ==
    /\ gstate \in [admin : Users \cup {NoOwner}, dev_fee_collector : Users \cup {NoOwner},
                   dev_fee_rate : Nat, ipowner_fee_rate : Nat,
                   last_buy_order_idx : Nat, last_deal_idx : Nat]
    /\ gstate1 \in [farm_scales : SUBSET Currencies,
                    nft_contract_whitelist : SUBSET NftBanks]

TablesOK ==
    /\ IsTable(sellorders, 1 .. gstate.last_buy_order_idx, OrderRow)
    /\ IsTable(odextension, 1 .. gstate.last_buy_order_idx, ExtensionRow)
    /\ IsTable(buyerbids, 1 .. gstate.last_deal_idx, BidRow)
    /\ IsTable(paidIn, 1 .. gstate.last_deal_idx, Currencies)
    /\ DOMAIN buyerbids = DOMAIN paidIn
    /\ \A b \in DOMAIN buyerbids :
          buyerbids[b].sell_order_id \in 1 .. gstate.last_buy_order_idx

BalancesOK ==
    /\ money \in [Accounts -> [Currencies -> Nat]]
    /\ nft \in [Accounts -> [Nfts -> Nat]]

\* Every variable has its type: rows of the three tables carry positive prices and
\* positive frozen amounts (a row with nothing left in it is erased), ids lie
\* under the counters they were drawn from, and no balance is negative.
TypeOK == GlobalsOK /\ TablesOK /\ BalancesOK

\* An order and its extension row live and die together, through every way an
\* order ends: otherwise the order's NFTs and bids would move in the default
\* contracts _get_order_extension falls back to.
OrderHasExtension == DOMAIN odextension = DOMAIN sellorders

\* While its order is open, a bid is refunded from the contract it was paid in.
BidBackedByOrderBank ==
    \A b \in DOMAIN buyerbids :
        buyerbids[b].sell_order_id \in DOMAIN sellorders
            => paidIn[b] = OrderCurrency(buyerbids[b].sell_order_id)

\* A resting bid is below its order's price, and freezes a whole number of prices:
\* takebuybid divides one by the other and would lose the remainder.
RestingBidsBelowAsk ==
    \A b \in DOMAIN buyerbids :
        /\ \E n \in 1 .. buyerbids[b].frozen : buyerbids[b].frozen = n * buyerbids[b].price
        /\ buyerbids[b].sell_order_id \in DOMAIN sellorders
               => buyerbids[b].price < sellorders[buyerbids[b].sell_order_id].price

\* The market holds exactly the NFTs of its open orders.
NftCustody == \A n \in Nfts : nft[Mart][n] = Listed(OrdersOf(n))

\* The market holds exactly the money of its resting bids, in every currency,
\* bids left behind by a closed order included.
Solvent == \A c \in Currencies : money[Mart][c] = Frozen(BidsIn(c))

\* The bids a closing order leaves behind are those beyond the refund limit: at
\* least MAX_REFUND_COUNT older ones were paid back.
OnlyLateBidsStayBehind ==
    [][\A oid \in DOMAIN sellorders \ DOMAIN sellorders' :
          \A late \in BidsOn(oid) \cap DOMAIN buyerbids' :
              Cardinality({b \in BidsOn(oid) \ DOMAIN buyerbids' : b < late})
                  >= MAX_REFUND_COUNT]_vars

\* Nobody changes the terms of an order or a bid that stays in the table: an
\* order can only shrink.  A new order finds no bid on it: the id of a closed order does
\* not come back while bids left behind by its close still name it.
TermsAreFixed ==
    [][/\ \A oid \in DOMAIN sellorders \cap DOMAIN sellorders' :
             /\ sellorders'[oid].frozen <= sellorders[oid].frozen
             /\ sellorders'[oid] = [sellorders[oid] EXCEPT !.frozen = sellorders'[oid].frozen]
             /\ odextension'[oid] = odextension[oid]
       /\ \A b \in DOMAIN buyerbids \cap DOMAIN buyerbids' :
             buyerbids'[b] = buyerbids[b]
       /\ \A oid \in DOMAIN sellorders' \ DOMAIN sellorders : BidsOn(oid)' = {}]_vars

\* Prices on the table when a step is taken.
PostedPrices ==
    {sellorders[o].price : o \in DOMAIN sellorders} \cup
    {buyerbids[b].price : b \in DOMAIN buyerbids}

\* A maker who parts with NFTs is paid a posted price for each of them, less
\* exactly the two fees on the total.
MakerIsPaid ==
    [][\A u \in Users, n \in Nfts :
          Holding(u, n)' < Holding(u, n) =>
              \E c \in Currencies, p \in PostedPrices :
                  LET gross == (Holding(u, n) - Holding(u, n)') * p
                      ipfee == IF IpOwner[n] \in {u, NoOwner} THEN 0
                               ELSE Fee(gross, gstate.ipowner_fee_rate)
                  IN  Worth(u, c)' - Worth(u, c)
                          = gross - Fee(gross, gstate.dev_fee_rate) - ipfee]_vars

\* The market implements the exchange: placing, resting, cancelling and refunding
\* leave every account's worth and holding alone, and a deal is a trade.
Market == INSTANCE Exchange WITH
    Fund <- SPLIT_CONTRACT,
    worth <- [a \in Users \cup {SPLIT_CONTRACT} |-> [c \in Currencies |-> Worth(a, c)]],
    holding <- [u \in Users |-> [n \in Nfts |-> Holding(u, n)]]

ImplementsExchange == Market!Spec
=============================================================================
