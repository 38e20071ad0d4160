-------------------------- MODULE NftoneMartProofs --------------------------
(***************************************************************************)
(* Theorems about nftone.mart for every value of the constants: any users, *)
(* currencies, prices, refund limit, fee rates and integer width: what it  *)
(* holds, that it trades as an exchange does, and what can be taken out.   *)
(***************************************************************************)
EXTENDS NftoneMart, TableProofs

(* The order book of a state: what a step must preserve together. *)
BookInv ==
    /\ TablesOK
    /\ OrderHasExtension
    /\ BidBackedByOrderBank
    /\ RestingBidsBelowAsk

\* The inductive invariant.
IInv == GlobalsOK /\ BalancesOK /\ BookInv

------------------------------------------------------------------------------
(* Balances *)

\* A payment in and a batch of payments out keep every balance a natural number.
LEMMA MoneyMovesType ==
    ASSUME BalancesOK, NEW c, NEW from \in Accounts, NEW quant \in Nat, NEW p,
           from = Mart => quant = 0,
           MoneyMoves(c, from, quant, p)
    PROVE  money' \in [Accounts -> [Currencies -> Nat]]
<1> DEFINE out == SumFunction(p)
           new(a) == money[a][c] + p[a] + (IF a = Mart THEN quant - out ELSE 0)
                                        - (IF a = from THEN quant ELSE 0)
<1>1. /\ c \in Currencies /\ money[from][c] >= quant /\ p \in [Accounts -> Nat]
      /\ out \in 0 .. money[Mart][c] + quant
      /\ money' = [a \in Accounts |-> [money[a] EXCEPT ![c] = new(a)]]
  BY DEF MoneyMoves
<1>2. /\ money \in [Accounts -> [Currencies -> Nat]] /\ Mart \in Accounts
  BY DEF BalancesOK, Accounts
<1> HIDE DEF out
<1>3. \A a \in Accounts : money[a][c] \in Nat /\ p[a] \in Nat
  BY <1>1, <1>2
<1>4. out \in Int
  BY <1>1, <1>2, <1>3
<1>5. \A a \in Accounts : new(a) \in Nat
  <2> TAKE a \in Accounts
  <2>1. CASE a = Mart
    BY <2>1, <1>1, <1>2, <1>3, <1>4
  <2>2. CASE a # Mart
    BY <2>2, <1>1, <1>2, <1>3, <1>4
  <2> QED BY <2>1, <2>2
<1> HIDE DEF new
<1>6. \A a \in Accounts : [money[a] EXCEPT ![c] = new(a)] \in [Currencies -> Nat]
  BY <1>2, <1>5
<1> QED BY <1>1, <1>6

\* Moving NFTs the sender has keeps every balance a natural number.
LEMMA NftMovesType ==
    ASSUME BalancesOK, NEW n, NEW from \in Accounts, NEW to \in Accounts,
           NEW count \in Nat, NftMoves(n, from, to, count)
    PROVE  nft' \in [Accounts -> [Nfts -> Nat]]
<1> DEFINE new(a) == nft[a][n] + (IF a = to THEN count ELSE 0)
                               - (IF a = from THEN count ELSE 0)
<1>1. /\ n \in Nfts /\ nft[from][n] >= count
      /\ nft' = [a \in Accounts |-> [nft[a] EXCEPT ![n] = new(a)]]
  BY DEF NftMoves
<1>2. nft \in [Accounts -> [Nfts -> Nat]]
  BY DEF BalancesOK
<1>3. \A a \in Accounts : new(a) \in Nat
  BY <1>1, <1>2
<1> HIDE DEF new
<1>4. \A a \in Accounts : [nft[a] EXCEPT ![n] = new(a)] \in [Nfts -> Nat]
  BY <1>2, <1>3
<1> QED BY <1>1, <1>4

------------------------------------------------------------------------------
(* The order book *)

\* A step that leaves the book's rows alone and lets no counter go back keeps it.
LEMMA BookUnchanged ==
    ASSUME BookInv, UNCHANGED tables,
           gstate'.last_buy_order_idx = gstate.last_buy_order_idx,
           gstate'.last_deal_idx = gstate.last_deal_idx
    PROVE  BookInv'
BY DEF BookInv, tables, TablesOK, OrderHasExtension, BidBackedByOrderBank,
       RestingBidsBelowAsk, OrderCurrency, _get_order_extension, IsTable

\* Selling any part of an order and erasing any set of bids keeps the book: the
\* order shrinks in place or leaves with its extension, and a bid that stays
\* still finds the order it was placed on, unchanged but for its size.
LEMMA TakeFromOrderKeepsBook ==
    ASSUME BookInv, NEW oid \in DOMAIN sellorders, NEW sold \in Nat, NEW gone,
           sold <= sellorders[oid].frozen, TakeFromOrder(oid, sold, gone),
           gstate' = gstate
    PROVE  BookInv'
<1> DEFINE o == sellorders[oid]
<1>1. /\ buyerbids' = Erase(buyerbids, gone) /\ paidIn' = Erase(paidIn, gone)
  BY DEF TakeFromOrder
<1>2. /\ IsTable(sellorders, 1 .. gstate.last_buy_order_idx, OrderRow)
      /\ IsTable(odextension, 1 .. gstate.last_buy_order_idx, ExtensionRow)
      /\ IsTable(buyerbids, 1 .. gstate.last_deal_idx, BidRow)
      /\ IsTable(paidIn, 1 .. gstate.last_deal_idx, Currencies)
      /\ DOMAIN buyerbids = DOMAIN paidIn
      /\ \A b \in DOMAIN buyerbids :
            buyerbids[b].sell_order_id \in 1 .. gstate.last_buy_order_idx
      /\ DOMAIN odextension = DOMAIN sellorders
  BY DEF BookInv, TablesOK, OrderHasExtension
<1>3. o \in OrderRow
  BY <1>2 DEF IsTable
<1>4. /\ IsTable(sellorders', 1 .. gstate.last_buy_order_idx, OrderRow)
      /\ IsTable(odextension', 1 .. gstate.last_buy_order_idx, ExtensionRow)
      /\ DOMAIN odextension' = DOMAIN sellorders'
      /\ DOMAIN sellorders' \subseteq DOMAIN sellorders
      /\ \A x \in DOMAIN sellorders' :
            /\ odextension'[x] = odextension[x]
            /\ sellorders'[x].symbol = sellorders[x].symbol
            /\ sellorders'[x].price = sellorders[x].price
  <2>1. CASE sold = o.frozen
    <3>1. sellorders' = Erase(sellorders, {oid}) /\ odextension' = Erase(odextension, {oid})
      BY <2>1 DEF TakeFromOrder
    <3> QED BY <3>1, <1>2 DEF IsTable, Erase
  <2>2. CASE sold # o.frozen
    <3>1. sellorders' = [sellorders EXCEPT ![oid] = [o EXCEPT !.frozen = o.frozen - sold]]
          /\ odextension' = odextension
      BY <2>2 DEF TakeFromOrder
    <3>2. o.frozen - sold \in Nat \ {0}
      <4>1. o.frozen \in Nat
        BY <1>3 DEF OrderRow
      <4>2. sold <= o.frozen
        OBVIOUS
      <4> HIDE DEF o
      <4> QED BY <4>1, <4>2, <2>2
    <3>3. [o EXCEPT !.frozen = o.frozen - sold] \in OrderRow
      BY <1>3, <3>2 DEF OrderRow
    <3>4. /\ [o EXCEPT !.frozen = o.frozen - sold].symbol = o.symbol
          /\ [o EXCEPT !.frozen = o.frozen - sold].price = o.price
      <4> HIDE DEF o
      <4> QED BY <1>3 DEF OrderRow
    <3> HIDE DEF o
    <3>5. /\ DOMAIN sellorders' = DOMAIN sellorders
          /\ sellorders'[oid] = [o EXCEPT !.frozen = o.frozen - sold]
          /\ \A x \in DOMAIN sellorders : x # oid => sellorders'[x] = sellorders[x]
      BY <3>1
    <3>6. \A x \in DOMAIN sellorders : sellorders'[x] \in OrderRow
      BY <3>3, <3>5, <1>2 DEF IsTable
    <3>7. \A x \in DOMAIN sellorders :
             sellorders'[x].symbol = sellorders[x].symbol /\ sellorders'[x].price = sellorders[x].price
      BY <3>4, <3>5 DEF o
    <3> QED BY <3>1, <3>5, <3>6, <3>7, <1>2 DEF IsTable
  <2> QED BY <2>1, <2>2
<1>5. /\ IsTable(buyerbids', 1 .. gstate.last_deal_idx, BidRow)
      /\ IsTable(paidIn', 1 .. gstate.last_deal_idx, Currencies)
      /\ DOMAIN buyerbids' = DOMAIN paidIn'
      /\ DOMAIN buyerbids' \subseteq DOMAIN buyerbids
      /\ \A b \in DOMAIN buyerbids' :
            buyerbids'[b] = buyerbids[b] /\ paidIn'[b] = paidIn[b]
  BY <1>1, <1>2 DEF IsTable, Erase
<1>6. BidBackedByOrderBank'
  <2> SUFFICES ASSUME NEW b \in DOMAIN buyerbids', NEW x, x = buyerbids'[b].sell_order_id,
                      x \in DOMAIN sellorders'
               PROVE  paidIn'[b] = Currency(odextension'[x].asset_contract, sellorders'[x].symbol)
    BY <1>4 DEF BidBackedByOrderBank, OrderCurrency, _get_order_extension, Currency
  <2>1. paidIn[b] = Currency(odextension[x].asset_contract, sellorders[x].symbol)
    BY <1>2, <1>4, <1>5 DEF BookInv, BidBackedByOrderBank, OrderCurrency, _get_order_extension
  <2> QED BY <2>1, <1>4, <1>5
<1>7. RestingBidsBelowAsk'
  BY <1>4, <1>5 DEF BookInv, RestingBidsBelowAsk
<1> QED BY <1>2, <1>4, <1>5, <1>6, <1>7 DEF BookInv, TablesOK, OrderHasExtension

------------------------------------------------------------------------------
(* One lemma per action: each keeps the inductive invariant *)

\* Reconfiguring the market leaves the book and the balances alone.
LEMMA ConfigureKeepsInv == IInv /\ Configure => IInv'
<1> SUFFICES ASSUME IInv, Configure PROVE IInv'
  OBVIOUS
<1>1. /\ GlobalsOK'
      /\ gstate'.last_buy_order_idx = gstate.last_buy_order_idx
      /\ gstate'.last_deal_idx = gstate.last_deal_idx
      /\ UNCHANGED <<tables, money, nft>>
  <2>1. ASSUME NEW u \in Managers, NEW v \in Managers, NEW r \in Rates, init(u, v, r)
        PROVE  <1>1
    BY <2>1, AccountsDistinct, InputsAreNaturals DEF IInv, GlobalsOK, init
  <2>2. ASSUME NEW v \in Managers, setfeecollec(v)
        PROVE  <1>1
    BY <2>2, AccountsDistinct DEF IInv, GlobalsOK, setfeecollec
  <2>3. ASSUME NEW c \in Currencies, NEW b \in BOOLEAN, addcoinconf(c, b)
        PROVE  <1>1
    BY <2>3 DEF IInv, GlobalsOK, addcoinconf
  <2>4. ASSUME NEW nb \in NftBanks, NEW b \in BOOLEAN, addnftconf(nb, b)
        PROVE  <1>1
    BY <2>4 DEF IInv, GlobalsOK, addnftconf
  <2> QED BY <2>1, <2>2, <2>3, <2>4 DEF Configure
<1>2. BookInv'
  BY <1>1, BookUnchanged DEF IInv
<1>3. BalancesOK'
  BY <1>1 DEF IInv, BalancesOK
<1> QED BY <1>1, <1>2, <1>3 DEF IInv

\* A new order gets an id no row and no bid has seen.
LEMMA SellKeepsInv ==
    ASSUME IInv, NEW u \in Users, NEW n \in Nfts, NEW k \in Nat, NEW p \in Prices,
           NEW c \in Currencies, _sell_transfer(u, n, k, p, c)
    PROVE  IInv'
<1> DEFINE oid == gstate.last_buy_order_idx + 1
           row == [token |-> n.id, price |-> p, symbol |-> c.symbol,
                   frozen |-> k, maker |-> u]
           ext == [nft_contract |-> n.bank, asset_contract |-> c.bank]
<1>1. /\ k > 0
      /\ NftMoves(n, u, Mart, k)
      /\ gstate' = [gstate EXCEPT !.last_buy_order_idx = oid]
      /\ sellorders' = Emplace(sellorders, oid, row)
      /\ odextension' = Emplace(odextension, oid, ext)
      /\ UNCHANGED <<gstate1, buyerbids, paidIn, money>>
  BY DEF _sell_transfer, NextOrderId
<1>2. /\ row \in OrderRow /\ ext \in ExtensionRow
  BY <1>1, InputsAreNaturals DEF OrderRow, ExtensionRow, NftBanks
<1>3. /\ gstate.last_buy_order_idx \in Nat
      /\ gstate'.last_buy_order_idx = oid
      /\ gstate'.last_deal_idx = gstate.last_deal_idx
      /\ GlobalsOK'
  BY <1>1 DEF IInv, GlobalsOK
<1>4. /\ IsTable(sellorders, 1 .. gstate.last_buy_order_idx, OrderRow)
      /\ IsTable(odextension, 1 .. gstate.last_buy_order_idx, ExtensionRow)
      /\ \A b \in DOMAIN buyerbids :
            buyerbids[b].sell_order_id \in 1 .. gstate.last_buy_order_idx
      /\ DOMAIN odextension = DOMAIN sellorders
  BY DEF IInv, BookInv, TablesOK, OrderHasExtension
<1> HIDE DEF row, ext
<1>5. /\ DOMAIN sellorders' = DOMAIN sellorders \cup {oid}
      /\ DOMAIN odextension' = DOMAIN sellorders \cup {oid}
      /\ sellorders'[oid] = row /\ odextension'[oid] = ext
      /\ \A x \in DOMAIN sellorders :
            x # oid /\ sellorders'[x] = sellorders[x] /\ odextension'[x] = odextension[x]
  BY <1>1, <1>3, <1>4 DEF Emplace, IsTable
<1>6. /\ IsTable(sellorders', 1 .. oid, OrderRow)
      /\ IsTable(odextension', 1 .. oid, ExtensionRow)
  BY <1>2, <1>3, <1>4, <1>5 DEF IsTable
<1>7. TablesOK'
  BY <1>1, <1>3, <1>6 DEF IInv, BookInv, TablesOK
<1>8. \A b \in DOMAIN buyerbids : buyerbids[b].sell_order_id # oid
  BY <1>3, <1>4
<1>9. BidBackedByOrderBank'
  <2> SUFFICES ASSUME NEW b \in DOMAIN buyerbids, NEW x, x = buyerbids[b].sell_order_id,
                      x \in DOMAIN sellorders'
               PROVE  paidIn[b] = Currency(odextension'[x].asset_contract, sellorders'[x].symbol)
    BY <1>1, <1>5 DEF BidBackedByOrderBank, OrderCurrency, _get_order_extension, Currency
  <2>1. paidIn[b] = Currency(odextension[x].asset_contract, sellorders[x].symbol)
    BY <1>4, <1>5, <1>8
    DEF IInv, BookInv, BidBackedByOrderBank, OrderCurrency, _get_order_extension
  <2> QED BY <2>1, <1>5, <1>8
<1>10. RestingBidsBelowAsk'
  BY <1>1, <1>5, <1>8 DEF IInv, BookInv, RestingBidsBelowAsk
<1>11. BalancesOK'
  <2>1. u \in Accounts /\ Mart \in Accounts
    BY DEF Accounts
  <2> QED BY <1>1, <2>1, NftMovesType DEF IInv, BalancesOK
<1> QED BY <1>3, <1>5, <1>7, <1>9, <1>10, <1>11 DEF IInv, BookInv, OrderHasExtension

\* A deal never takes more than the order has: whatever the width of the integers,
\* an offer cost that reads as at least the payment is one.
LEMMA DealFits ==
    ASSUME NEW o \in OrderRow, NEW quant \in Nat
    PROVE  /\ process_single_buy_order(o, quant).bought \in Nat
           /\ process_single_buy_order(o, quant).bought <= o.frozen
<1> DEFINE cost == o.frozen * o.price
           count == quant \div o.price
<1>1. o.frozen \in Nat /\ o.price \in Nat \ {0}
  BY DEF OrderRow
<1>2. count \in Nat
  BY <1>1, Quotient
<1>3. cost \in Nat
  BY <1>1
<1>4. ASSUME Int64(cost) >= quant PROVE count <= o.frozen
  <2>1. Int64(cost) <= cost
    <3> HIDE DEF cost
    <3>1. CASE cost \in -IntMax - 1 .. IntMax
      BY <3>1, <1>3 DEF Int64
    <3>2. CASE cost \notin -IntMax - 1 .. IntMax
      <4> DEFINE m == cost + IntMax + 1
                 w == 2 * (IntMax + 1)
      <4>1. m \in Nat /\ w \in Nat \ {0} /\ IntMax \in Nat
        BY <1>3, BoundsAreNaturals
      <4>2. m % w \in Nat /\ m % w <= m
        <5> HIDE DEF m, w
        <5> QED BY <4>1, RemainderBound
      <4>3. Int64(cost) = (m % w) - (IntMax + 1)
        BY <3>2 DEF Int64
      <4> QED BY <4>1, <4>2, <4>3, <1>3
    <3> QED BY <3>1, <3>2
  <2>2. Int64(cost) \in Int
    <3> HIDE DEF cost
    <3> QED BY <1>3, BoundsAreNaturals DEF Int64
  <2>3. quant <= cost
    <3> HIDE DEF cost
    <3> QED BY <1>3, <1>4, <2>1, <2>2
  <2> QED BY <2>3, <1>1, QuotientBound
<1>5. CASE Int64(cost) >= quant
  BY <1>2, <1>4, <1>5 DEF process_single_buy_order
<1>6. CASE ~(Int64(cost) >= quant)
  BY <1>1, <1>6 DEF process_single_buy_order
<1> QED BY <1>5, <1>6

\* A purchase shrinks or closes the order, and a close takes refunded bids with it.
LEMMA BuyNowKeepsInv ==
    ASSUME IInv, NEW u \in Users, NEW c \in Currencies, NEW q \in Payments,
           NEW oid \in DOMAIN sellorders, NEW p \in Prices, BuyNow(u, c, q, oid, p)
    PROVE  IInv'
<1> DEFINE o == sellorders[oid]
           deal == process_single_buy_order(o, q)
           gone == IF deal.bought = o.frozen THEN _refund_buyer_bid(oid, 0) ELSE {}
           pays == PayBoth(_settle_maker(o.maker, IpOwner[OrderNft(oid)], deal.earned),
                           PayBoth(RefundPay(gone),
                                   PayOne(Accounts, u, Positive(Int64(q - deal.earned)))))
<1>1. /\ TakeFromOrder(oid, deal.bought, gone)
      /\ NftMoves(OrderNft(oid), Mart, u, deal.bought)
      /\ MoneyMoves(c, u, q, pays)
      /\ UNCHANGED <<gstate, gstate1>>
  BY DEF BuyNow
<1>2. o \in OrderRow /\ q \in Nat
  BY InputsAreNaturals DEF IInv, BookInv, TablesOK, IsTable
<1>3. deal.bought \in Nat /\ deal.bought <= o.frozen
  BY <1>2, DealFits
<1> HIDE DEF deal, gone, pays
<1>4. BookInv'
  BY <1>1, <1>3, TakeFromOrderKeepsBook DEF IInv
<1>5. u \in Accounts /\ Mart \in Accounts /\ u # Mart
  BY AccountsDistinct DEF Accounts
<1>6. BalancesOK'
  BY <1>1, <1>2, <1>3, <1>5, MoneyMovesType, NftMovesType DEF IInv, BalancesOK
<1> QED BY <1>1, <1>4, <1>6 DEF IInv, GlobalsOK

\* A resting bid names an open order, is below its price, freezes whole prices and
\* is paid in the order's own currency.
LEMMA PlaceBidKeepsInv ==
    ASSUME IInv, NEW u \in Users, NEW c \in Currencies, NEW q \in Payments,
           NEW oid \in DOMAIN sellorders, NEW p \in Prices, PlaceBid(u, c, q, oid, p)
    PROVE  IInv'
<1> DEFINE bid == gstate.last_deal_idx + 1
           frozen == (q \div p) * p
           row == [sell_order_id |-> oid, price |-> p, symbol |-> c.symbol,
                   frozen |-> frozen, buyer |-> u]
           pays == PayOne(Accounts, u, q - (q \div p) * p)
<1>1. /\ c = OrderCurrency(oid) /\ q >= p /\ p < sellorders[oid].price
      /\ gstate' = [gstate EXCEPT !.last_deal_idx = bid]
      /\ buyerbids' = Emplace(buyerbids, bid, row)
      /\ paidIn' = Emplace(paidIn, bid, c)
      /\ MoneyMoves(c, u, q, pays)
      /\ UNCHANGED <<gstate1, sellorders, odextension, nft>>
  BY DEF PlaceBid, PaymentFits, BidFrozen
<1>2. q \in Nat \ {0} /\ p \in Nat \ {0}
  BY InputsAreNaturals
<1>3. \E n \in 1 .. frozen : frozen = n * p
  <2> DEFINE n == q \div p
  <2>1. n \in Nat /\ q < n * p + p
    BY <1>2, Quotient
  <2> HIDE DEF n
  <2>2. n # 0
    BY <2>1, <1>1, <1>2
  <2>3. n <= n * p
    <3>1. 1 * n <= p * n
      BY <1>2, <2>1, TimesMonotone
    <3> QED BY <3>1, <1>2, <2>1
  <2>4. n * p \in Nat
    BY <1>2, <2>1
  <2>5. n \in 1 .. n * p
    BY <2>1, <2>2, <2>3, <2>4
  <2> QED BY <2>5 DEF n
<1>4. frozen \in Nat \ {0}
  <2>1. (q \div p) \in Nat
    BY <1>2, Quotient
  <2>2. frozen \in Nat
    BY <1>2, <2>1
  <2> HIDE DEF frozen
  <2> QED BY <1>3, <2>2
<1> HIDE DEF frozen
<1>5. /\ IsTable(sellorders, 1 .. gstate.last_buy_order_idx, OrderRow)
      /\ IsTable(buyerbids, 1 .. gstate.last_deal_idx, BidRow)
      /\ IsTable(paidIn, 1 .. gstate.last_deal_idx, Currencies)
      /\ DOMAIN buyerbids = DOMAIN paidIn
      /\ gstate.last_buy_order_idx \in Nat /\ gstate.last_deal_idx \in Nat
      /\ DOMAIN odextension = DOMAIN sellorders
  BY DEF IInv, BookInv, TablesOK, GlobalsOK, OrderHasExtension
<1>6. oid \in 1 .. gstate.last_buy_order_idx
  BY <1>5 DEF IsTable
<1>7. /\ row \in BidRow
      /\ row.sell_order_id = oid /\ row.price = p /\ row.frozen = frozen
  BY <1>2, <1>4, <1>5, <1>6 DEF BidRow
<1>8. /\ gstate'.last_buy_order_idx = gstate.last_buy_order_idx
      /\ gstate'.last_deal_idx = bid
      /\ GlobalsOK'
  BY <1>1, <1>5 DEF IInv, GlobalsOK
<1> HIDE DEF row
<1>9. /\ DOMAIN buyerbids' = DOMAIN buyerbids \cup {bid}
      /\ DOMAIN paidIn' = DOMAIN buyerbids \cup {bid}
      /\ buyerbids'[bid] = row /\ paidIn'[bid] = c
      /\ \A b \in DOMAIN buyerbids :
            b # bid /\ buyerbids'[b] = buyerbids[b] /\ paidIn'[b] = paidIn[b]
  BY <1>1, <1>5 DEF Emplace, IsTable
<1>10. /\ IsTable(buyerbids', 1 .. bid, BidRow)
       /\ IsTable(paidIn', 1 .. bid, Currencies)
  BY <1>5, <1>7, <1>9 DEF IsTable
<1>11. TablesOK'
  BY <1>1, <1>6, <1>7, <1>8, <1>9, <1>10 DEF IInv, BookInv, TablesOK
<1>12. BidBackedByOrderBank'
  <2> SUFFICES ASSUME NEW b \in DOMAIN buyerbids', NEW x, x = buyerbids'[b].sell_order_id,
                      x \in DOMAIN sellorders
               PROVE  paidIn'[b] = Currency(odextension[x].asset_contract, sellorders[x].symbol)
    BY <1>1, <1>5 DEF BidBackedByOrderBank, OrderCurrency, _get_order_extension, Currency
  <2>1. CASE b = bid
    BY <2>1, <1>1, <1>5, <1>7, <1>9 DEF OrderCurrency, _get_order_extension
  <2>2. CASE b \in DOMAIN buyerbids
    BY <2>2, <1>5, <1>9
    DEF IInv, BookInv, BidBackedByOrderBank, OrderCurrency, _get_order_extension
  <2> QED BY <2>1, <2>2, <1>9
<1>13. RestingBidsBelowAsk'
  BY <1>1, <1>3, <1>7, <1>9 DEF IInv, BookInv, RestingBidsBelowAsk
<1>14. BalancesOK'
  <2>1. u \in Accounts /\ u # Mart
    BY AccountsDistinct DEF Accounts
  <2> HIDE DEF pays
  <2> QED BY <1>1, <1>2, <2>1, MoneyMovesType DEF IInv, BalancesOK
<1> QED BY <1>1, <1>8, <1>11, <1>12, <1>13, <1>14 DEF IInv, BookInv, OrderHasExtension

\* Taking a bid sells as much of the order as the bid covers.
LEMMA TakeBidKeepsInv ==
    ASSUME IInv, NEW u \in Users, NEW bid, takebuybid(u, bid)
    PROVE  IInv'
<1> DEFINE row == buyerbids[bid]
           oid == row.sell_order_id
           o == sellorders[oid]
           bid_count == row.frozen \div row.price
           sold == IF bid_count < o.frozen THEN bid_count ELSE o.frozen
           gone == IF bid_count < o.frozen THEN {} ELSE _refund_buyer_bid(oid, bid)
           pays == PayBoth(_settle_maker(o.maker, IpOwner[OrderNft(oid)], sold * row.price),
                           PayBoth(RefundPay(gone),
                                   PayOne(Accounts, row.buyer, (bid_count - sold) * row.price)))
<1>1. /\ bid \in DOMAIN buyerbids /\ oid \in DOMAIN sellorders
      /\ TakeFromOrder(oid, sold, gone \cup {bid})
      /\ NftMoves(OrderNft(oid), Mart, row.buyer, sold)
      /\ MoneyMoves(OrderCurrency(oid), Mart, 0, pays)
      /\ UNCHANGED <<gstate, gstate1>>
  BY DEF takebuybid
<1>2. row \in BidRow /\ o \in OrderRow
  BY <1>1 DEF IInv, BookInv, TablesOK, IsTable
<1>3. bid_count \in Nat /\ o.frozen \in Nat
  <2>1. row.frozen \in Nat /\ row.price \in Nat \ {0}
    BY <1>2 DEF BidRow
  <2>2. o.frozen \in Nat
    BY <1>2 DEF OrderRow
  <2> QED BY <2>1, <2>2, Quotient
<1>4. sold \in Nat /\ sold <= o.frozen
  <2> HIDE DEF bid_count, o
  <2> QED BY <1>3
<1>5. row.buyer \in Accounts /\ Mart \in Accounts
  BY <1>2 DEF BidRow, Accounts
<1> DEFINE erased == gone \cup {bid}
<1> HIDE DEF sold, gone, pays, erased
<1>6. BookInv'
  <2>1. TakeFromOrder(oid, sold, erased)
    BY <1>1 DEF erased
  <2> QED BY <1>1, <1>4, <2>1, TakeFromOrderKeepsBook DEF IInv
<1>7. BalancesOK'
  BY <1>1, <1>4, <1>5, MoneyMovesType, NftMovesType DEF IInv, BalancesOK
<1> QED BY <1>1, <1>6, <1>7 DEF IInv, GlobalsOK

\* Cancelling a bid erases one row of the bids and its history.
LEMMA CancelBidKeepsInv ==
    ASSUME IInv, NEW u \in Users, NEW bid, cancelbid(u, bid)
    PROVE  IInv'
<1> DEFINE row == buyerbids[bid]
           cur == Currency(_get_order_extension(row.sell_order_id).asset_contract, row.symbol)
           pays == PayOne(Accounts, u, row.frozen)
<1>1. /\ MoneyMoves(cur, Mart, 0, pays)
      /\ buyerbids' = Erase(buyerbids, {bid}) /\ paidIn' = Erase(paidIn, {bid})
      /\ UNCHANGED <<gstate, gstate1, sellorders, odextension, nft>>
  BY DEF cancelbid
<1>2. /\ DOMAIN buyerbids' \subseteq DOMAIN buyerbids
      /\ DOMAIN paidIn' = DOMAIN buyerbids'
      /\ \A b \in DOMAIN buyerbids' : buyerbids'[b] = buyerbids[b] /\ paidIn'[b] = paidIn[b]
  BY <1>1 DEF IInv, BookInv, TablesOK, Erase
<1>3. TablesOK'
  BY <1>1, <1>2 DEF IInv, BookInv, TablesOK, IsTable
<1>4. OrderHasExtension' /\ RestingBidsBelowAsk'
  BY <1>1, <1>2 DEF IInv, BookInv, OrderHasExtension, RestingBidsBelowAsk
<1>5. BidBackedByOrderBank'
  BY <1>1, <1>2
  DEF IInv, BookInv, BidBackedByOrderBank, OrderCurrency, _get_order_extension
<1>6. BalancesOK'
  <2>1. Mart \in Accounts
    BY DEF Accounts
  <2> HIDE DEF cur, pays
  <2> QED BY <1>1, <2>1, MoneyMovesType DEF IInv, BalancesOK
<1> QED BY <1>1, <1>3, <1>4, <1>5, <1>6 DEF IInv, BookInv, GlobalsOK

\* Cancelling an order returns all of it.
LEMMA CancelOrderKeepsInv ==
    ASSUME IInv, NEW u \in Users, NEW oid, cancelorder(u, oid)
    PROVE  IInv'
<1> DEFINE o == sellorders[oid]
           gone == _refund_buyer_bid(oid, 0)
           pays == RefundPay(gone)
<1>1. /\ oid \in DOMAIN sellorders
      /\ TakeFromOrder(oid, o.frozen, gone)
      /\ NftMoves(OrderNft(oid), Mart, u, o.frozen)
      /\ MoneyMoves(OrderCurrency(oid), Mart, 0, pays)
      /\ UNCHANGED <<gstate, gstate1>>
  BY DEF cancelorder
<1>2. o.frozen \in Nat
  <2>1. o \in OrderRow
    BY <1>1 DEF IInv, BookInv, TablesOK, IsTable
  <2> QED BY <2>1 DEF OrderRow
<1>3. o.frozen <= o.frozen
  BY <1>2
<1>4. u \in Accounts /\ Mart \in Accounts
  BY DEF Accounts
<1> HIDE DEF gone, pays
<1>5. BookInv'
  BY <1>1, <1>2, <1>3, TakeFromOrderKeepsBook DEF IInv
<1>6. BalancesOK'
  BY <1>1, <1>2, <1>4, MoneyMovesType, NftMovesType DEF IInv, BalancesOK
<1> QED BY <1>1, <1>5, <1>6 DEF IInv, GlobalsOK

------------------------------------------------------------------------------
(* The invariant holds in every behaviour *)

\* An empty book and the first balances satisfy the invariant.
LEMMA InitInv == Init => IInv
<1> SUFFICES ASSUME Init PROVE IInv
  OBVIOUS
<1>1. GlobalsOK /\ BalancesOK
  BY InputsAreNaturals DEF Init, GlobalsOK, BalancesOK
<1>2. BookInv
  BY DEF Init, BookInv, TablesOK, OrderHasExtension, BidBackedByOrderBank,
         RestingBidsBelowAsk, EmptyTable, IsTable
<1> QED BY <1>1, <1>2 DEF IInv

\* Every transaction keeps the invariant.
LEMMA StepInv == IInv /\ [Next]_vars => IInv'
<1> SUFFICES ASSUME IInv, [Next]_vars PROVE IInv'
  OBVIOUS
<1>1. CASE Configure
  BY <1>1, ConfigureKeepsInv
<1>2. CASE Sell
  <2>1. PICK u \in Users, n \in Nfts, p \in Prices, c \in Currencies :
             \E k \in 1 .. nft[u][n] : _sell_transfer(u, n, k, p, c)
    BY <1>2 DEF Sell
  <2>2. PICK k \in 1 .. nft[u][n] : _sell_transfer(u, n, k, p, c)
    BY <2>1
  <2>3. k \in Nat
    <3>1. nft[u][n] \in Nat
      BY DEF IInv, BalancesOK, Accounts
    <3> QED BY <3>1
  <2> QED BY <2>2, <2>3, SellKeepsInv
<1>3. CASE Buy
  <2>1. PICK u \in Users, c \in Currencies, q \in Payments, p \in Prices,
             oid \in DOMAIN sellorders : _buy_transfer(u, c, q, oid, p)
    BY <1>3 DEF Buy
  <2>2. CASE BuyNow(u, c, q, oid, p)
    BY <2>2, BuyNowKeepsInv
  <2>3. CASE PlaceBid(u, c, q, oid, p)
    BY <2>3, PlaceBidKeepsInv
  <2> QED BY <2>1, <2>2, <2>3 DEF _buy_transfer
<1>4. CASE Close
  <2>1. ASSUME NEW u \in Users, NEW b \in BidIds, takebuybid(u, b) PROVE IInv'
    BY <2>1, TakeBidKeepsInv
  <2>2. ASSUME NEW u \in Users, NEW b \in BidIds, cancelbid(u, b) PROVE IInv'
    BY <2>2, CancelBidKeepsInv
  <2>3. ASSUME NEW u \in Users, NEW o \in OrderIds, cancelorder(u, o) PROVE IInv'
    BY <2>3, CancelOrderKeepsInv
  <2>4. ASSUME NEW u \in Users, NEW n \in Nfts, cancelorder_all(u, n.id) PROVE UNCHANGED vars
    BY <2>4 DEF cancelorder_all
  <2>5. UNCHANGED vars => IInv'
    BY BookUnchanged DEF IInv, GlobalsOK, BalancesOK, vars, tables
  <2> QED BY <1>4, <2>1, <2>2, <2>3, <2>4, <2>5 DEF Close
<1>5. CASE UNCHANGED vars
  BY <1>5, BookUnchanged DEF IInv, GlobalsOK, BalancesOK, vars, tables
<1> QED BY <1>1, <1>2, <1>3, <1>4, <1>5 DEF Next

\* The inductive invariant is an invariant.
THEOREM Invariant == Spec => []IInv
BY InitInv, StepInv, PTL DEF Spec

\* Type correctness, with the row types and id ranges of the three tables.
THEOREM TypeCorrect == Spec => []TypeOK
<1>1. IInv => TypeOK
  BY DEF IInv, BookInv, TypeOK
<1> QED BY <1>1, Invariant, PTL

\* However an order ends, its extension row ends with it.
THEOREM ExtensionsFollowOrders == Spec => []OrderHasExtension
<1>1. IInv => OrderHasExtension
  BY DEF IInv, BookInv
<1> QED BY <1>1, Invariant, PTL

\* Refunds of an open order's bids come from the contract the bids were paid in.
THEOREM BidsAreBacked == Spec => []BidBackedByOrderBank
<1>1. IInv => BidBackedByOrderBank
  BY DEF IInv, BookInv
<1> QED BY <1>1, Invariant, PTL

\* Resting bids freeze whole prices and stay below their order's price.
THEOREM BidsRest == Spec => []RestingBidsBelowAsk
<1>1. IInv => RestingBidsBelowAsk
  BY DEF IInv, BookInv
<1> QED BY <1>1, Invariant, PTL

------------------------------------------------------------------------------
(* The terms of an order and of a bid *)

\* A transaction that takes from an order changes nothing but its size.
LEMMA TakeKeepsTerms ==
    ASSUME TablesOK, OrderHasExtension, NEW oid \in DOMAIN sellorders, NEW sold \in Nat, NEW gone,
           sold <= sellorders[oid].frozen, TakeFromOrder(oid, sold, gone)
    PROVE  /\ \A x \in DOMAIN sellorders \cap DOMAIN sellorders' :
                 /\ sellorders'[x].frozen <= sellorders[x].frozen
                 /\ sellorders'[x] = [sellorders[x] EXCEPT !.frozen = sellorders'[x].frozen]
                 /\ odextension'[x] = odextension[x]
           /\ \A b \in DOMAIN buyerbids \cap DOMAIN buyerbids' : buyerbids'[b] = buyerbids[b]
           /\ DOMAIN sellorders' \subseteq DOMAIN sellorders
<1>0. DOMAIN sellorders' \subseteq DOMAIN sellorders
  BY DEF TakeFromOrder, Erase
<1>1. \A b \in DOMAIN buyerbids \cap DOMAIN buyerbids' : buyerbids'[b] = buyerbids[b]
  BY DEF TakeFromOrder, Erase
<1>2. \A x \in DOMAIN sellorders : sellorders[x] \in OrderRow
  BY DEF TablesOK, IsTable
<1>3. \A row \in OrderRow : row = [row EXCEPT !.frozen = row.frozen] /\ row.frozen <= row.frozen
  BY DEF OrderRow
<1>4. CASE sold = sellorders[oid].frozen
  <2>1. sellorders' = Erase(sellorders, {oid}) /\ odextension' = Erase(odextension, {oid})
    BY <1>4 DEF TakeFromOrder
  <2>2. \A x \in DOMAIN sellorders \cap DOMAIN sellorders' :
           sellorders'[x] = sellorders[x] /\ x # oid
    BY <2>1 DEF Erase
  <2>3. \A x \in DOMAIN sellorders \cap DOMAIN sellorders' : odextension'[x] = odextension[x]
    BY <2>1, <2>2 DEF Erase, OrderHasExtension
  <2> QED BY <1>0, <1>1, <1>2, <1>3, <2>2, <2>3
<1>5. CASE sold # sellorders[oid].frozen
  <2> DEFINE o == sellorders[oid]
  <2>1. /\ sellorders' = [sellorders EXCEPT ![oid] = [o EXCEPT !.frozen = o.frozen - sold]]
        /\ odextension' = odextension
    BY <1>5 DEF TakeFromOrder
  <2>2. o.frozen \in Nat /\ sold <= o.frozen /\ o \in OrderRow
    BY <1>2 DEF OrderRow
  <2> HIDE DEF o
  <2>3. /\ [o EXCEPT !.frozen = o.frozen - sold].frozen = o.frozen - sold
        /\ o.frozen - sold <= o.frozen
    BY <2>2 DEF OrderRow
  <2>4. \A x \in DOMAIN sellorders : x # oid => sellorders'[x] = sellorders[x]
    BY <2>1
  <2>5. sellorders'[oid] = [o EXCEPT !.frozen = o.frozen - sold]
    BY <2>1
  <2>6. \A x \in DOMAIN sellorders \cap DOMAIN sellorders' :
           /\ sellorders'[x].frozen <= sellorders[x].frozen
           /\ sellorders'[x] = [sellorders[x] EXCEPT !.frozen = sellorders'[x].frozen]
           /\ odextension'[x] = odextension[x]
    BY <1>2, <1>3, <2>1, <2>3, <2>4, <2>5 DEF o
  <2> QED BY <1>0, <1>1, <2>6
<1> QED BY <1>4, <1>5

\* The terms of orders and bids in a step, as TermsAreFixed states them.
SameTerms ==
    /\ \A x \in DOMAIN sellorders \cap DOMAIN sellorders' :
          /\ sellorders'[x].frozen <= sellorders[x].frozen
          /\ sellorders'[x] = [sellorders[x] EXCEPT !.frozen = sellorders'[x].frozen]
          /\ odextension'[x] = odextension[x]
    /\ \A b \in DOMAIN buyerbids \cap DOMAIN buyerbids' : buyerbids'[b] = buyerbids[b]
    /\ \A x \in DOMAIN sellorders' \ DOMAIN sellorders : BidsOn(x)' = {}

\* No transaction changes the terms of what stays in the book.
LEMMA StepKeepsTerms == IInv /\ [Next]_vars => SameTerms
<1> SUFFICES ASSUME IInv, [Next]_vars PROVE SameTerms
  OBVIOUS
<1>1. \A row \in OrderRow : row = [row EXCEPT !.frozen = row.frozen] /\ row.frozen <= row.frozen
  BY DEF OrderRow
<1>2. /\ TablesOK /\ OrderHasExtension
      /\ \A x \in DOMAIN sellorders : sellorders[x] \in OrderRow
  BY DEF IInv, BookInv, TablesOK, IsTable
<1>3. UNCHANGED <<sellorders, odextension, buyerbids>> => SameTerms
  BY <1>1, <1>2 DEF SameTerms
<1>4. CASE Configure \/ UNCHANGED vars
  BY <1>3, <1>4 DEF Configure, init, setfeecollec, addcoinconf, addnftconf, tables, vars
<1>5. CASE Sell
  <2>1. PICK u \in Users, n \in Nfts, p \in Prices, c \in Currencies, k \in Nat :
             _sell_transfer(u, n, k, p, c)
    <3>1. \A u \in Users, n \in Nfts : nft[u][n] \in Nat
      BY DEF IInv, BalancesOK, Accounts
    <3> QED BY <1>5, <3>1 DEF Sell
  <2> DEFINE oid == gstate.last_buy_order_idx + 1
  <2>2. PICK row, ext : /\ sellorders' = Emplace(sellorders, oid, row)
                        /\ odextension' = Emplace(odextension, oid, ext)
                        /\ buyerbids' = buyerbids
    BY <2>1 DEF _sell_transfer, NextOrderId
  <2>3. oid \notin DOMAIN sellorders /\ BidsOn(oid) = {}
    <3>1. gstate.last_buy_order_idx \in Nat
      BY DEF IInv, GlobalsOK
    <3> QED BY <3>1, <1>2 DEF TablesOK, IsTable, BidsOn
  <2> HIDE DEF oid
  <2>5. DOMAIN sellorders' = DOMAIN sellorders \cup {oid}
    BY <2>2 DEF Emplace
  <2>6. \A x \in DOMAIN sellorders' \ DOMAIN sellorders : BidsOn(x)' = {}
    <3>1. ASSUME NEW x \in DOMAIN sellorders' \ DOMAIN sellorders PROVE BidsOn(x)' = {}
      <4>1. x = oid
        BY <2>5
      <4>2. BidsOn(x) = {}
        BY <2>3, <4>1
      <4>3. BidsOn(x)' = BidsOn(x)
        BY <2>2 DEF BidsOn
      <4> QED BY <4>2, <4>3
    <3> QED BY <3>1
  <2>4. \A x \in DOMAIN sellorders :
           sellorders'[x] = sellorders[x] /\ odextension'[x] = odextension[x]
    BY <2>2, <2>3, <1>2 DEF Emplace, OrderHasExtension
  <2> QED BY <2>2, <2>4, <2>6, <1>1, <1>2 DEF SameTerms
<1>6. CASE Buy
  <2>1. PICK u \in Users, c \in Currencies, q \in Payments, p \in Prices,
             oid \in DOMAIN sellorders : _buy_transfer(u, c, q, oid, p)
    BY <1>6 DEF Buy
  <2>2. CASE BuyNow(u, c, q, oid, p)
    <3> DEFINE deal == process_single_buy_order(sellorders[oid], q)
    <3>1. PICK gone : TakeFromOrder(oid, deal.bought, gone)
      BY <2>2 DEF BuyNow
    <3>2. deal.bought \in Nat /\ deal.bought <= sellorders[oid].frozen
      BY <1>2, DealFits, InputsAreNaturals
    <3> HIDE DEF deal
    <3> QED BY <3>1, <3>2, <1>2, TakeKeepsTerms DEF SameTerms
  <2>3. CASE PlaceBid(u, c, q, oid, p)
    <3> DEFINE bid == gstate.last_deal_idx + 1
    <3>1. PICK row : /\ buyerbids' = Emplace(buyerbids, bid, row)
                     /\ UNCHANGED <<sellorders, odextension>>
      BY <2>3 DEF PlaceBid
    <3>2. bid \notin DOMAIN buyerbids
      <4>1. gstate.last_deal_idx \in Nat
        BY DEF IInv, GlobalsOK
      <4> QED BY <4>1, <1>2 DEF TablesOK, IsTable
    <3> HIDE DEF bid
    <3>3. \A b \in DOMAIN buyerbids : buyerbids'[b] = buyerbids[b]
      BY <3>1, <3>2 DEF Emplace
    <3> QED BY <3>1, <3>3, <1>1, <1>2 DEF SameTerms
  <2> QED BY <2>1, <2>2, <2>3 DEF _buy_transfer
<1>7. CASE Close
  <2>1. ASSUME NEW u \in Users, NEW b \in BidIds, takebuybid(u, b) PROVE SameTerms
    <3> DEFINE row == buyerbids[b]
               oid == row.sell_order_id
               bid_count == row.frozen \div row.price
               sold == IF bid_count < sellorders[oid].frozen THEN bid_count
                       ELSE sellorders[oid].frozen
    <3>1. b \in DOMAIN buyerbids /\ oid \in DOMAIN sellorders
      BY <2>1 DEF takebuybid
    <3>2. PICK gone : TakeFromOrder(oid, sold, gone)
      BY <2>1 DEF takebuybid
    <3>3. row.frozen \in Nat /\ row.price \in Nat \ {0} /\ sellorders[oid].frozen \in Nat
      <4>1. row \in BidRow /\ sellorders[oid] \in OrderRow
        BY <3>1, <1>2 DEF TablesOK, IsTable
      <4> QED BY <4>1 DEF BidRow, OrderRow
    <3>4. bid_count \in Nat
      BY <3>3, Quotient
    <3> HIDE DEF bid_count
    <3>5. sold \in Nat /\ sold <= sellorders[oid].frozen
      BY <3>3, <3>4
    <3> HIDE DEF sold
    <3> QED BY <3>1, <3>2, <3>5, <1>2, TakeKeepsTerms DEF SameTerms
  <2>2. ASSUME NEW u \in Users, NEW b \in BidIds, cancelbid(u, b) PROVE SameTerms
    <3>1. /\ buyerbids' = Erase(buyerbids, {b})
          /\ UNCHANGED <<sellorders, odextension>>
      BY <2>2 DEF cancelbid
    <3>2. \A x \in DOMAIN buyerbids \cap DOMAIN buyerbids' : buyerbids'[x] = buyerbids[x]
      BY <3>1 DEF Erase
    <3> QED BY <3>1, <3>2, <1>1, <1>2 DEF SameTerms
  <2>3. ASSUME NEW u \in Users, NEW o \in OrderIds, cancelorder(u, o) PROVE SameTerms
    <3>1. o \in DOMAIN sellorders
      BY <2>3 DEF cancelorder
    <3>2. PICK gone : TakeFromOrder(o, sellorders[o].frozen, gone)
      BY <2>3 DEF cancelorder
    <3>3. sellorders[o].frozen \in Nat /\ sellorders[o].frozen <= sellorders[o].frozen
      BY <3>1, <1>2 DEF OrderRow
    <3> QED BY <3>1, <3>2, <3>3, <1>2, TakeKeepsTerms DEF SameTerms
  <2>4. ASSUME NEW u \in Users, NEW n \in Nfts, cancelorder_all(u, n.id) PROVE SameTerms
    BY <2>4, <1>3 DEF cancelorder_all, vars
  <2> QED BY <1>7, <2>1, <2>2, <2>3, <2>4 DEF Close
<1> QED BY <1>4, <1>5, <1>6, <1>7 DEF Next

\* Orders only shrink, the terms of an order or a bid in the book never change, and a new
\* order does not find on it the bids that a closed one left behind.
THEOREM TermsNeverChange == Spec => TermsAreFixed
<1>1. IInv /\ [Next]_vars => SameTerms
  BY StepKeepsTerms
<1>2. SameTerms =>
        /\ \A oid \in DOMAIN sellorders \cap DOMAIN sellorders' :
             /\ sellorders'[oid].frozen <= sellorders[oid].frozen
             /\ sellorders'[oid] = [sellorders[oid] EXCEPT !.frozen = sellorders'[oid].frozen]
             /\ odextension'[oid] = odextension[oid]
        /\ \A b \in DOMAIN buyerbids \cap DOMAIN buyerbids' :
             buyerbids'[b] = buyerbids[b]
        /\ \A oid \in DOMAIN sellorders' \ DOMAIN sellorders : BidsOn(oid)' = {}
  BY DEF SameTerms
<1> QED BY <1>1, <1>2, Invariant, PTL DEF Spec, TermsAreFixed

------------------------------------------------------------------------------
(* What the book adds up to *)

\* The columns that Listed and Frozen add up.
FrozenNfts == [oid \in DOMAIN sellorders |-> sellorders[oid].frozen]
FrozenMoney == [b \in DOMAIN buyerbids |-> buyerbids[b].frozen]

\* Ids come from counters, so the tables are finite.
LEMMA BookIsFinite ==
    ASSUME GlobalsOK, TablesOK
    PROVE  IsFiniteSet(DOMAIN sellorders) /\ IsFiniteSet(DOMAIN buyerbids)
<1>1. /\ gstate.last_buy_order_idx \in Nat /\ gstate.last_deal_idx \in Nat
      /\ DOMAIN sellorders \subseteq 1 .. gstate.last_buy_order_idx
      /\ DOMAIN buyerbids \subseteq 1 .. gstate.last_deal_idx
  BY DEF GlobalsOK, TablesOK, IsTable
<1>2. /\ IsFiniteSet(1 .. gstate.last_buy_order_idx)
      /\ IsFiniteSet(1 .. gstate.last_deal_idx)
  BY <1>1, FS_Interval
<1> QED BY <1>1, <1>2, FS_Subset

\* Accounts are finite too.
LEMMA AccountsAreFinite == IsFiniteSet(Accounts)
<1>1. IsFiniteSet(Users)
  BY AccountsDistinct
<1>2. IsFiniteSet(Users \cup {Mart})
  BY <1>1, FS_AddElement
<1>3. IsFiniteSet((Users \cup {Mart}) \cup {SPLIT_CONTRACT})
  BY <1>2, FS_AddElement
<1>4. Accounts = (Users \cup {Mart}) \cup {SPLIT_CONTRACT}
  BY DEF Accounts
<1> QED BY <1>3, <1>4

\* The NFTs of some orders are a sum of the column.
LEMMA ListedIsSum ==
    ASSUME GlobalsOK, TablesOK, NEW O \in SUBSET DOMAIN sellorders
    PROVE  /\ Listed(O) = Sum(FrozenNfts, O)
           /\ Listed(O) \in Nat
           /\ IsFiniteSet(O)
           /\ \A x \in DOMAIN sellorders : FrozenNfts[x] \in Nat \ {0}
<1>1. IsFiniteSet(DOMAIN sellorders) /\ IsFiniteSet(O)
  BY BookIsFinite, FS_Subset
<1>2. \A x \in DOMAIN sellorders : FrozenNfts[x] \in Nat \ {0}
  BY DEF TablesOK, IsTable, OrderRow, FrozenNfts
<1>3. [oid \in O |-> sellorders[oid].frozen] = [oid \in O |-> FrozenNfts[oid]]
  BY DEF FrozenNfts
<1>4. Listed(O) = Sum(FrozenNfts, O)
  <2> DEFINE v == [oid \in O |-> sellorders[oid].frozen]
  <2>1. v = [oid \in O |-> FrozenNfts[oid]]
    BY <1>3
  <2>2. Listed(O) = SumFunction(v)
    BY DEF Listed
  <2> HIDE DEF v
  <2> QED BY <1>1, <2>1, <2>2, SumFunctionOver
<1>5. Sum(FrozenNfts, O) \in Nat
  BY <1>1, <1>2, SumNat
<1> QED BY <1>1, <1>2, <1>4, <1>5

\* The money of some bids is a sum of the column.
LEMMA FrozenIsSum ==
    ASSUME GlobalsOK, TablesOK, NEW B \in SUBSET DOMAIN buyerbids
    PROVE  /\ Frozen(B) = Sum(FrozenMoney, B)
           /\ Frozen(B) \in Nat
           /\ IsFiniteSet(B)
           /\ \A x \in DOMAIN buyerbids : FrozenMoney[x] \in Nat \ {0}
<1>1. IsFiniteSet(DOMAIN buyerbids) /\ IsFiniteSet(B)
  BY BookIsFinite, FS_Subset
<1>2. \A x \in DOMAIN buyerbids : FrozenMoney[x] \in Nat \ {0}
  BY DEF TablesOK, IsTable, BidRow, FrozenMoney
<1>4. Frozen(B) = Sum(FrozenMoney, B)
  <2> DEFINE v == [b \in B |-> buyerbids[b].frozen]
  <2>1. v = [b \in B |-> FrozenMoney[b]]
    BY DEF FrozenMoney
  <2>2. Frozen(B) = SumFunction(v)
    BY DEF Frozen
  <2> HIDE DEF v
  <2> QED BY <1>1, <2>1, <2>2, SumFunctionOver
<1>5. Sum(FrozenMoney, B) \in Nat
  BY <1>1, <1>2, SumNat
<1> QED BY <1>1, <1>2, <1>4, <1>5

\* Taking from an order takes as much from every sum it is in.
LEMMA TakeListed ==
    ASSUME GlobalsOK, TablesOK, NEW oid \in DOMAIN sellorders, NEW sold \in Nat, NEW gone,
           sold <= sellorders[oid].frozen, TakeFromOrder(oid, sold, gone),
           NEW O \in SUBSET DOMAIN sellorders, NEW Q, Q = O \cap DOMAIN sellorders'
    PROVE  SumFunction([x \in Q |-> sellorders'[x].frozen])
               = Listed(O) - (IF oid \in O THEN sold ELSE 0)
<1> DEFINE new == [x \in Q |-> sellorders'[x].frozen]
           w == FrozenNfts
<1>0. SUFFICES SumFunction(new) = Listed(O) - (IF oid \in O THEN sold ELSE 0)
  OBVIOUS
<1>1. /\ Listed(O) = Sum(w, O) /\ IsFiniteSet(O) /\ Listed(O) \in Nat
      /\ \A x \in DOMAIN sellorders : w[x] \in Nat \ {0} /\ w[x] = sellorders[x].frozen
  BY ListedIsSum DEF FrozenNfts
<1>2. IsFiniteSet(Q)
  BY <1>1, FS_Subset
<1>3. SumFunction(new) = Sum(new, Q)
  <2>1. DOMAIN new = Q
    OBVIOUS
  <2> HIDE DEF new
  <2> QED BY <2>1, SumFunctionIsSum
<1>4. CASE sold = sellorders[oid].frozen
  <2>1. /\ DOMAIN sellorders' = DOMAIN sellorders \ {oid}
        /\ \A x \in DOMAIN sellorders' : sellorders'[x] = sellorders[x]
    BY <1>4 DEF TakeFromOrder, Erase
  <2>2. Q = O \ {oid} /\ \A x \in Q : new[x] = w[x]
    BY <1>1, <2>1
  <2>3. Sum(new, Q) = Sum(w, Q)
    <3> HIDE DEF new, w
    <3> QED BY <1>2, <2>2, SumSame
  <2>4. CASE oid \in O
    <3>1. \A x \in O : w[x] \in Int
      BY <1>1
    <3>2. Sum(w, O) = w[oid] + Sum(w, Q)
      <4> HIDE DEF w
      <4> QED BY <1>1, <2>2, <2>4, <3>1, SumTake
    <3>3. Sum(w, Q) \in Int
      <4> HIDE DEF w
      <4> QED BY <1>1, <2>2, <3>1, SumInt
    <3>4. w[oid] = sold
      BY <1>1, <1>4
    <3> HIDE DEF w, new
    <3> QED BY <1>1, <1>3, <2>3, <2>4, <3>2, <3>3, <3>4
  <2>5. CASE oid \notin O
    <3>1. Q = O
      BY <2>2, <2>5
    <3> HIDE DEF w, new
    <3>2. Listed(O) - (IF oid \in O THEN sold ELSE 0) = Listed(O)
      BY <1>1, <2>5
    <3> QED BY <1>1, <1>3, <2>3, <3>1, <3>2
  <2> QED BY <2>4, <2>5
<1>5. CASE sold # sellorders[oid].frozen
  <2>1. /\ DOMAIN sellorders' = DOMAIN sellorders
        /\ sellorders'[oid] = [sellorders[oid] EXCEPT !.frozen = @ - sold]
        /\ \A x \in DOMAIN sellorders : x # oid => sellorders'[x] = sellorders[x]
    BY <1>5 DEF TakeFromOrder
  <2>2. Q = O /\ \A x \in Q \ {oid} : new[x] = w[x]
    BY <1>1, <2>1
  <2>3. oid \in O => new[oid] = w[oid] - sold
    <3>1. sellorders[oid] \in OrderRow
      BY DEF TablesOK, IsTable
    <3>2. sellorders'[oid].frozen = sellorders[oid].frozen - sold
      BY <2>1, <3>1 DEF OrderRow
    <3> QED BY <1>1, <2>2, <3>2
  <2>4. CASE oid \in O
    <3>1. /\ \A x \in O : w[x] \in Int
          /\ new[oid] \in Int
      BY <1>1, <2>3, <2>4
    <3>2. Sum(new, O) = Sum(w, O) - w[oid] + new[oid]
      <4> HIDE DEF w, new
      <4> QED BY <1>1, <2>2, <2>4, <3>1, SumUpdate
    <3> HIDE DEF w, new
    <3>3. Listed(O) - w[oid] + (w[oid] - sold) = Listed(O) - sold
      BY <1>1
    <3> QED BY <1>1, <1>3, <2>2, <2>3, <2>4, <3>2, <3>3
  <2>5. CASE oid \notin O
    <3> HIDE DEF w, new
    <3>1. \A x \in O : new[x] = w[x]
      BY <2>2, <2>5
    <3>2. Sum(new, O) = Sum(w, O)
      BY <1>1, <3>1, SumSame
    <3>3. Listed(O) - (IF oid \in O THEN sold ELSE 0) = Listed(O)
      BY <1>1, <2>5
    <3>4. Q = O
      BY <2>2
    <3> QED BY <1>1, <1>3, <3>2, <3>3, <3>4
  <2> QED BY <2>4, <2>5
<1> QED BY <1>4, <1>5

\* Erasing bids takes from a sum what those of them in it froze.
LEMMA EraseFrozen ==
    ASSUME GlobalsOK, TablesOK, NEW gone, buyerbids' = Erase(buyerbids, gone),
           NEW B \in SUBSET DOMAIN buyerbids, NEW Q, Q = B \ gone
    PROVE  SumFunction([x \in Q |-> buyerbids'[x].frozen]) = Frozen(B) - Frozen(B \cap gone)
<1> DEFINE new == [x \in Q |-> buyerbids'[x].frozen]
           w == FrozenMoney
<1>1. /\ Frozen(B) = Sum(w, B) /\ IsFiniteSet(B) /\ Frozen(B) \in Nat
      /\ \A x \in DOMAIN buyerbids : w[x] \in Nat \ {0} /\ w[x] = buyerbids[x].frozen
  BY FrozenIsSum DEF FrozenMoney
<1>2. IsFiniteSet(Q) /\ Q = B \ (B \cap gone) /\ B \cap gone \in SUBSET DOMAIN buyerbids
  BY <1>1, FS_Subset
<1>3. Frozen(B \cap gone) = Sum(w, B \cap gone)
  BY <1>2, FrozenIsSum
<1>4. \A x \in Q : new[x] = w[x]
  BY <1>1 DEF Erase
<1>5. SumFunction(new) = Sum(w, Q)
  <2>1. DOMAIN new = Q
    OBVIOUS
  <2> HIDE DEF new, w
  <2> QED BY <1>2, <1>4, <2>1, SumFunctionIsSum, SumSame
<1>6. \A x \in B : w[x] \in Int
  BY <1>1
<1>7. Sum(w, B) = Sum(w, B \cap gone) + Sum(w, Q)
  <2>1. B \cap gone \in SUBSET B
    OBVIOUS
  <2> HIDE DEF w
  <2> QED BY <1>1, <1>2, <1>6, <2>1, SumSplit
<1>8. Sum(w, Q) \in Int /\ Sum(w, B \cap gone) \in Int
  <2>1. B \cap gone \in SUBSET B /\ Q \in SUBSET B
    OBVIOUS
  <2> HIDE DEF w
  <2> QED BY <1>1, <1>6, <2>1, SumInt
<1> HIDE DEF w, new
<1> QED BY <1>1, <1>3, <1>5, <1>7, <1>8 DEF new

------------------------------------------------------------------------------
(* The NFTs of the open orders are in the market *)

\* How many of an NFT there are.
Supply(n) == SumFunction([a \in Accounts |-> FirstNfts[a][n]])

NftsConserved ==
    \A n \in Nfts : SumFunction([a \in Accounts |-> nft[a][n]]) = Supply(n)

PricesPosted == \A oid \in DOMAIN sellorders : sellorders[oid].price \in Prices

CustodyInv == NftCustody /\ NftsConserved /\ PricesPosted

\* What a transfer between two accounts changes.
LEMMA NftMovesBy ==
    ASSUME NEW m \in Nfts, NEW n, NEW from \in Accounts, NEW to \in Accounts,
           NEW count \in Nat, BalancesOK, from # to, NftMoves(n, from, to, count)
    PROVE  /\ nft'[to][m] = nft[to][m] + (IF n = m THEN count ELSE 0)
           /\ nft'[from][m] = nft[from][m] - (IF n = m THEN count ELSE 0)
           /\ \A a \in Accounts \ {from, to} : nft'[a][m] = nft[a][m]
<1> DEFINE new(a) == nft[a][n] + (IF a = to THEN count ELSE 0)
                               - (IF a = from THEN count ELSE 0)
<1>1. /\ n \in Nfts /\ nft[from][n] >= count
      /\ nft' = [a \in Accounts |-> [nft[a] EXCEPT ![n] = new(a)]]
      /\ nft \in [Accounts -> [Nfts -> Nat]]
  BY DEF NftMoves, BalancesOK
<1>0. \A a \in Accounts : nft[a][n] \in Nat
  BY <1>1
<1>2. /\ new(to) = nft[to][n] + count
      /\ new(from) = nft[from][n] - count
      /\ \A a \in Accounts \ {from, to} : new(a) = nft[a][n]
  <2>1. new(to) = nft[to][n] + count - 0
    OBVIOUS
  <2>2. new(from) = nft[from][n] + 0 - count
    OBVIOUS
  <2>3. \A a \in Accounts \ {from, to} : new(a) = nft[a][n] + 0 - 0
    OBVIOUS
  <2> HIDE DEF new
  <2> QED BY <1>0, <2>1, <2>2, <2>3
<1> HIDE DEF new
<1>3. \A a \in Accounts : nft'[a][m] = IF n = m THEN new(a) ELSE nft[a][m]
  BY <1>1
<1>4. \A a \in Accounts : nft[a][m] \in Nat /\ nft[a][n] \in Nat
  BY <1>1
<1> QED BY <1>1, <1>2, <1>3, <1>4

\* A transfer makes no NFTs.
LEMMA NftMovesConserve ==
    ASSUME BalancesOK, NftsConserved, NEW n, NEW from \in Accounts, NEW to \in Accounts,
           from # to, NEW count \in Nat, NftMoves(n, from, to, count)
    PROVE  NftsConserved'
<1> SUFFICES ASSUME NEW m \in Nfts
             PROVE  SumFunction([a \in Accounts |-> nft'[a][m]]) = Supply(m)
  BY DEF NftsConserved
<1> DEFINE w == [a \in Accounts |-> nft[a][m]]
           v == [a \in Accounts |-> nft'[a][m]]
<1>1. /\ v[to] + v[from] = w[to] + w[from]
      /\ \A a \in Accounts \ {from, to} : v[a] = w[a]
      /\ \A a \in Accounts : w[a] \in Int /\ v[a] \in Int
  <2>1. /\ nft'[to][m] = nft[to][m] + (IF n = m THEN count ELSE 0)
        /\ nft'[from][m] = nft[from][m] - (IF n = m THEN count ELSE 0)
        /\ \A a \in Accounts \ {from, to} : nft'[a][m] = nft[a][m]
    <3> HIDE DEF w, v
    <3> QED BY NftMovesBy
  <2>2. \A a \in Accounts : nft[a][m] \in Int
    BY DEF BalancesOK
  <2>3. \A a \in Accounts : nft'[a][m] \in Int
    <3>1. nft'[to][m] \in Int /\ nft'[from][m] \in Int
      BY <2>1, <2>2
    <3> QED BY <2>1, <2>2, <3>1
  <2>4. nft'[to][m] + nft'[from][m] = nft[to][m] + nft[from][m]
    BY <2>1, <2>2
  <2> QED BY <2>1, <2>2, <2>3, <2>4
<1>2. SumFunction(w) = Supply(m)
  BY DEF NftsConserved
<1>4. DOMAIN w = Accounts /\ DOMAIN v = Accounts
  OBVIOUS
<1> HIDE DEF w, v
<1>5. SumFunction(w) = Sum(w, Accounts) /\ SumFunction(v) = Sum(v, Accounts)
  BY <1>4, SumFunctionIsSum
<1>6. Sum(v, Accounts) = Sum(w, Accounts)
  BY <1>1, AccountsAreFinite, SumMove
<1> QED BY <1>2, <1>5, <1>6 DEF v

\* What an order is, but for its size, outlives a sale from it or from another.
LEMMA TakeKeepsOrders ==
    ASSUME BookInv, NEW oid \in DOMAIN sellorders, NEW sold \in Nat, NEW gone,
           sold <= sellorders[oid].frozen, TakeFromOrder(oid, sold, gone)
    PROVE  /\ DOMAIN sellorders' \subseteq DOMAIN sellorders
           /\ \A x \in DOMAIN sellorders' :
                 /\ OrderNft(x)' = OrderNft(x) /\ OrderCurrency(x)' = OrderCurrency(x)
                 /\ sellorders'[x].price = sellorders[x].price
                 /\ sellorders'[x].maker = sellorders[x].maker
<1>1. /\ DOMAIN sellorders' \subseteq DOMAIN sellorders
      /\ DOMAIN odextension' = DOMAIN sellorders'
  BY DEF TakeFromOrder, Erase, BookInv, OrderHasExtension
<1>2. \A x \in DOMAIN sellorders \cap DOMAIN sellorders' :
         /\ sellorders'[x] = [sellorders[x] EXCEPT !.frozen = sellorders'[x].frozen]
         /\ odextension'[x] = odextension[x]
  BY TakeKeepsTerms DEF BookInv
<1>3. /\ \A x \in DOMAIN sellorders : sellorders[x] \in OrderRow
      /\ DOMAIN odextension = DOMAIN sellorders
  BY DEF BookInv, TablesOK, IsTable, OrderHasExtension
<1>4. ASSUME NEW x \in DOMAIN sellorders'
      PROVE  /\ sellorders'[x].token = sellorders[x].token
             /\ sellorders'[x].symbol = sellorders[x].symbol
             /\ sellorders'[x].price = sellorders[x].price
             /\ sellorders'[x].maker = sellorders[x].maker
             /\ odextension'[x] = odextension[x]
  <2>1. sellorders[x] \in OrderRow
    BY <1>1, <1>3
  <2>2. sellorders'[x] = [sellorders[x] EXCEPT !.frozen = sellorders'[x].frozen]
        /\ odextension'[x] = odextension[x]
    BY <1>1, <1>2
  <2> DEFINE row == sellorders[x]
             f == sellorders'[x].frozen
  <2>3. /\ [row EXCEPT !.frozen = f].token = row.token
        /\ [row EXCEPT !.frozen = f].symbol = row.symbol
        /\ [row EXCEPT !.frozen = f].price = row.price
        /\ [row EXCEPT !.frozen = f].maker = row.maker
    <3>1. row \in OrderRow
      BY <2>1
    <3> HIDE DEF row, f
    <3> QED BY <3>1 DEF OrderRow
  <2>4. sellorders'[x] = [row EXCEPT !.frozen = f]
    BY <2>2
  <2> HIDE DEF f
  <2> QED BY <2>2, <2>3, <2>4
<1>5. \A x \in DOMAIN sellorders' : OrderNft(x)' = OrderNft(x)
  BY <1>1, <1>3, <1>4 DEF OrderNft, _get_order_extension
<1>6. \A x \in DOMAIN sellorders' : OrderCurrency(x)' = OrderCurrency(x)
  BY <1>1, <1>3, <1>4 DEF OrderCurrency, _get_order_extension, Currency
<1> QED BY <1>1, <1>4, <1>5, <1>6

\* NFTs leave the market as they leave their order.
LEMMA TakeKeepsCustody ==
    ASSUME IInv, CustodyInv, NEW oid \in DOMAIN sellorders, NEW sold \in Nat, NEW gone,
           NEW to \in Users,
           sold <= sellorders[oid].frozen, TakeFromOrder(oid, sold, gone),
           NftMoves(OrderNft(oid), Mart, to, sold)
    PROVE  CustodyInv'
<1>1. Mart \in Accounts /\ to \in Accounts /\ to # Mart
  BY AccountsDistinct DEF Accounts
<1>2. NftsConserved'
  BY <1>1, NftMovesConserve DEF IInv, CustodyInv
<1>3. /\ DOMAIN sellorders' \subseteq DOMAIN sellorders
      /\ \A x \in DOMAIN sellorders' :
            OrderNft(x)' = OrderNft(x) /\ sellorders'[x].price = sellorders[x].price
  BY TakeKeepsOrders DEF IInv
<1>4. PricesPosted'
  BY <1>3 DEF CustodyInv, PricesPosted
<1>5. NftCustody'
  <2> SUFFICES ASSUME NEW n \in Nfts PROVE nft'[Mart][n] = Listed(OrdersOf(n))'
    BY DEF NftCustody
  <2> DEFINE O == OrdersOf(n)
             Q == O \cap DOMAIN sellorders'
  <2>1. OrdersOf(n)' = Q
    BY <1>3 DEF OrdersOf
  <2>2. Listed(OrdersOf(n))' = SumFunction([x \in Q |-> sellorders'[x].frozen])
    BY <2>1 DEF Listed
  <2>3. O \in SUBSET DOMAIN sellorders /\ (oid \in O <=> OrderNft(oid) = n)
    BY DEF OrdersOf
  <2>4. GlobalsOK /\ TablesOK
    BY DEF IInv, BookInv
  <2> HIDE DEF O
  <2>5. SumFunction([x \in Q |-> sellorders'[x].frozen])
            = Listed(O) - (IF oid \in O THEN sold ELSE 0)
    BY <2>3, <2>4, TakeListed
  <2>6. Listed(O) \in Nat /\ nft[Mart][n] = Listed(O)
    BY <2>3, <2>4, ListedIsSum DEF CustodyInv, NftCustody, O
  <2>7. nft'[Mart][n] = nft[Mart][n] - (IF OrderNft(oid) = n THEN sold ELSE 0)
    <3> DEFINE nn == OrderNft(oid)
    <3>1. NftMoves(nn, Mart, to, sold) /\ BalancesOK /\ Mart # to
      BY <1>1 DEF IInv
    <3> HIDE DEF nn
    <3>2. nft'[Mart][n] = nft[Mart][n] - (IF nn = n THEN sold ELSE 0)
      BY <1>1, <3>1, NftMovesBy
    <3> QED BY <3>2 DEF nn
  <2> HIDE DEF Q
  <2> QED BY <2>2, <2>3, <2>5, <2>6, <2>7
<1> QED BY <1>2, <1>4, <1>5 DEF CustodyInv

\* NFTs come in as their order is placed.
LEMMA SellKeepsCustody ==
    ASSUME IInv, CustodyInv, NEW u \in Users, NEW n \in Nfts, NEW k \in Nat,
           NEW p \in Prices, NEW c \in Currencies, _sell_transfer(u, n, k, p, c)
    PROVE  CustodyInv'
<1> DEFINE oid == gstate.last_buy_order_idx + 1
           row == [token |-> n.id, price |-> p, symbol |-> c.symbol,
                   frozen |-> k, maker |-> u]
           ext == [nft_contract |-> n.bank, asset_contract |-> c.bank]
<1>1. /\ NftMoves(n, u, Mart, k)
      /\ sellorders' = Emplace(sellorders, oid, row)
      /\ odextension' = Emplace(odextension, oid, ext)
  BY DEF _sell_transfer, NextOrderId
<1>2. Mart \in Accounts /\ u \in Accounts /\ u # Mart
  BY AccountsDistinct DEF Accounts
<1>3. NftsConserved'
  BY <1>1, <1>2, NftMovesConserve DEF IInv, CustodyInv
<1>4. oid \notin DOMAIN sellorders /\ DOMAIN odextension = DOMAIN sellorders
  <2>1. gstate.last_buy_order_idx \in Nat
    BY DEF IInv, GlobalsOK
  <2> QED BY <2>1 DEF IInv, BookInv, TablesOK, IsTable, OrderHasExtension
<1>5. row.token = n.id /\ row.price = p /\ row.frozen = k /\ ext.nft_contract = n.bank
  OBVIOUS
<1> HIDE DEF oid, row, ext
<1>6. /\ DOMAIN sellorders' = DOMAIN sellorders \cup {oid}
      /\ DOMAIN odextension' = DOMAIN sellorders \cup {oid}
      /\ sellorders'[oid] = row /\ odextension'[oid] = ext
      /\ \A x \in DOMAIN sellorders :
            x # oid /\ sellorders'[x] = sellorders[x] /\ odextension'[x] = odextension[x]
  BY <1>1, <1>4 DEF Emplace
<1>7. PricesPosted'
  BY <1>5, <1>6 DEF CustodyInv, PricesPosted
<1>8. /\ \A x \in DOMAIN sellorders : OrderNft(x)' = OrderNft(x)
      /\ [bank |-> odextension'[oid].nft_contract, id |-> sellorders'[oid].token]
             = [bank |-> n.bank, id |-> n.id]
  <2>1. \A x \in DOMAIN sellorders : OrderNft(x)' = OrderNft(x)
    BY <1>4, <1>6 DEF OrderNft, _get_order_extension
  <2>2. odextension'[oid].nft_contract = n.bank /\ sellorders'[oid].token = n.id
    BY <1>5, <1>6
  <2> QED BY <2>1, <2>2
<1>9. NftCustody'
  <2> SUFFICES ASSUME NEW m \in Nfts PROVE nft'[Mart][m] = Listed(OrdersOf(m))'
    BY DEF NftCustody
  <2> DEFINE O == OrdersOf(m)
             Q == OrdersOf(m)'
             new == [x \in Q |-> sellorders'[x].frozen]
             w == FrozenNfts
  <2>1. /\ Listed(O) = Sum(w, O) /\ Listed(O) \in Nat /\ IsFiniteSet(O)
        /\ \A x \in O : w[x] \in Int /\ w[x] = sellorders[x].frozen
        /\ nft[Mart][m] = Listed(O)
    <3>1. O \in SUBSET DOMAIN sellorders /\ GlobalsOK /\ TablesOK
      BY DEF OrdersOf, IInv, BookInv
    <3> QED BY <3>1, ListedIsSum DEF FrozenNfts, CustodyInv, NftCustody
  <2>2. Q = IF n = m THEN O \cup {oid} ELSE O
    <3>1. [bank |-> n.bank, id |-> n.id] = m <=> n = m
      BY KeysArePairs
    <3>2. OrdersOf(m)' = {x \in DOMAIN sellorders' :
              [bank |-> (IF x \in DOMAIN odextension' THEN odextension'[x]
                         ELSE [nft_contract |-> NTOKEN_BANK,
                               asset_contract |-> MUSDT_BANK]).nft_contract,
               id |-> sellorders'[x].token] = m}
      BY DEF OrdersOf, OrderNft, _get_order_extension
    <3>3. \A x \in DOMAIN sellorders : x \in OrdersOf(m)' <=> x \in OrdersOf(m)
      BY <1>4, <1>6 DEF OrdersOf, OrderNft, _get_order_extension
    <3>4. oid \in OrdersOf(m)' <=> n = m
      BY <1>6, <1>8, <3>1, <3>2
    <3>5. OrdersOf(m)' \subseteq DOMAIN sellorders \cup {oid}
      BY <1>6, <3>2
    <3>6. OrdersOf(m) \subseteq DOMAIN sellorders
      BY DEF OrdersOf
    <3> QED BY <1>4, <3>3, <3>4, <3>5, <3>6
  <2>3. oid \notin O /\ \A x \in O : sellorders'[x].frozen = w[x]
    BY <1>4, <1>6, <2>1 DEF OrdersOf
  <2>4. /\ Listed(OrdersOf(m))' = SumFunction(new)
        /\ DOMAIN new = Q
        /\ \A x \in O : new[x] = w[x]
        /\ n = m => new[oid] = k
    BY <1>5, <1>6, <2>2, <2>3 DEF Listed
  <2>5. nft'[Mart][m] = nft[Mart][m] + (IF n = m THEN k ELSE 0)
    BY <1>1, <1>2, NftMovesBy DEF IInv
  <2> HIDE DEF O, Q, new, w
  <2>6. Sum(new, O) = Sum(w, O)
    BY <2>1, <2>4, SumSame
  <2>7. SumFunction(new) = Sum(new, Q)
    BY <2>4, SumFunctionIsSum
  <2>8. CASE n = m
    <3>1. \A x \in O \cup {oid} : new[x] \in Int
      BY <2>1, <2>4, <2>8
    <3>2. Sum(new, O \cup {oid}) = new[oid] + Sum(new, O)
      BY <2>1, <2>3, <3>1, SumAdd
    <3>3. nft'[Mart][m] = Listed(O) + k
      BY <2>1, <2>5, <2>8
    <3> QED BY <2>1, <2>2, <2>4, <2>6, <2>7, <2>8, <3>2, <3>3
  <2>9. CASE n # m
    <3>1. nft'[Mart][m] = Listed(O)
      BY <2>1, <2>5, <2>9
    <3> QED BY <2>1, <2>2, <2>4, <2>6, <2>7, <2>9, <3>1
  <2> QED BY <2>8, <2>9
<1> QED BY <1>3, <1>7, <1>9 DEF CustodyInv

\* A transaction that moves no NFTs and touches no order.
LEMMA CustodyUnchanged ==
    ASSUME CustodyInv, UNCHANGED <<sellorders, odextension, nft>>
    PROVE  CustodyInv'
<1>1. NftCustody'
  BY DEF CustodyInv, NftCustody, Listed, OrdersOf, OrderNft, _get_order_extension
<1>2. NftsConserved' /\ PricesPosted'
  BY DEF CustodyInv, NftsConserved, PricesPosted
<1> QED BY <1>1, <1>2 DEF CustodyInv

\* Every transaction keeps the NFTs in custody.
LEMMA StepCustody == IInv /\ CustodyInv /\ [Next]_vars => CustodyInv'
<1> SUFFICES ASSUME IInv, CustodyInv, [Next]_vars PROVE CustodyInv'
  OBVIOUS
<1>0. /\ \A x \in DOMAIN sellorders : sellorders[x] \in OrderRow
      /\ \A b \in DOMAIN buyerbids : buyerbids[b] \in BidRow
  BY DEF IInv, BookInv, TablesOK, IsTable
<1>1. CASE Configure \/ UNCHANGED vars
  BY <1>1, CustodyUnchanged
  DEF Configure, init, setfeecollec, addcoinconf, addnftconf, tables, vars
<1>2. CASE Sell
  <2>1. PICK u \in Users, n \in Nfts, p \in Prices, c \in Currencies, k \in Nat :
             _sell_transfer(u, n, k, p, c)
    <3>1. \A u \in Users, n \in Nfts : nft[u][n] \in Nat
      BY DEF IInv, BalancesOK, Accounts
    <3> QED BY <1>2, <3>1 DEF Sell
  <2> QED BY <2>1, SellKeepsCustody
<1>3. CASE Buy
  <2>1. PICK u \in Users, c \in Currencies, q \in Payments, p \in Prices,
             oid \in DOMAIN sellorders : _buy_transfer(u, c, q, oid, p)
    BY <1>3 DEF Buy
  <2>2. CASE BuyNow(u, c, q, oid, p)
    <3> DEFINE deal == process_single_buy_order(sellorders[oid], q)
    <3>1. /\ \E gone : TakeFromOrder(oid, deal.bought, gone)
          /\ NftMoves(OrderNft(oid), Mart, u, deal.bought)
      BY <2>2 DEF BuyNow
    <3>2. deal.bought \in Nat /\ deal.bought <= sellorders[oid].frozen
      BY <1>0, DealFits, InputsAreNaturals
    <3> HIDE DEF deal
    <3>3. PICK gone : TakeFromOrder(oid, deal.bought, gone)
      BY <3>1
    <3> QED BY <3>1, <3>2, <3>3, TakeKeepsCustody
  <2>3. CASE PlaceBid(u, c, q, oid, p)
    BY <2>3, CustodyUnchanged DEF PlaceBid
  <2> QED BY <2>1, <2>2, <2>3 DEF _buy_transfer
<1>4. CASE Close
  <2>1. ASSUME NEW u \in Users, NEW b \in BidIds, takebuybid(u, b) PROVE CustodyInv'
    <3> DEFINE row == buyerbids[b]
               oid == row.sell_order_id
               bid_count == row.frozen \div row.price
               sold == IF bid_count < sellorders[oid].frozen THEN bid_count
                       ELSE sellorders[oid].frozen
    <3>1. /\ b \in DOMAIN buyerbids /\ oid \in DOMAIN sellorders
          /\ \E gone : TakeFromOrder(oid, sold, gone)
          /\ NftMoves(OrderNft(oid), Mart, row.buyer, sold)
      BY <2>1 DEF takebuybid
    <3>2. /\ row.frozen \in Nat /\ row.price \in Nat \ {0} /\ row.buyer \in Users
          /\ sellorders[oid].frozen \in Nat
      <4>1. row \in BidRow /\ sellorders[oid] \in OrderRow
        BY <1>0, <3>1
      <4> HIDE DEF row
      <4> QED BY <4>1 DEF BidRow, OrderRow
    <3>3. bid_count \in Nat
      BY <3>2, Quotient
    <3> HIDE DEF bid_count
    <3>4. sold \in Nat /\ sold <= sellorders[oid].frozen
      BY <3>2, <3>3
    <3>5. PICK gone : TakeFromOrder(oid, sold, gone)
      BY <3>1
    <3> DEFINE to == row.buyer
    <3>6. to \in Users /\ NftMoves(OrderNft(oid), Mart, to, sold) /\ oid \in DOMAIN sellorders
      BY <3>1, <3>2
    <3> HIDE DEF sold, oid, to
    <3> QED BY <3>4, <3>5, <3>6, TakeKeepsCustody
  <2>2. ASSUME NEW u \in Users, NEW b \in BidIds, cancelbid(u, b) PROVE CustodyInv'
    BY <2>2, CustodyUnchanged DEF cancelbid
  <2>3. ASSUME NEW u \in Users, NEW o \in OrderIds, cancelorder(u, o) PROVE CustodyInv'
    <3> DEFINE sold == sellorders[o].frozen
    <3>1. /\ o \in DOMAIN sellorders
          /\ \E gone : TakeFromOrder(o, sold, gone)
          /\ NftMoves(OrderNft(o), Mart, u, sold)
      BY <2>3 DEF cancelorder
    <3>2. sold \in Nat /\ sold <= sellorders[o].frozen
      BY <1>0, <3>1 DEF OrderRow
    <3>3. PICK gone : TakeFromOrder(o, sold, gone)
      BY <3>1
    <3> HIDE DEF sold
    <3> QED BY <3>1, <3>2, <3>3, TakeKeepsCustody
  <2>4. ASSUME NEW u \in Users, NEW n \in Nfts, cancelorder_all(u, n.id) PROVE CustodyInv'
    BY <2>4, CustodyUnchanged DEF cancelorder_all, vars
  <2> QED BY <1>4, <2>1, <2>2, <2>3, <2>4 DEF Close
<1> QED BY <1>1, <1>2, <1>3, <1>4 DEF Next

\* The market holds nothing at first.
LEMMA InitCustody == Init => CustodyInv
<1> SUFFICES ASSUME Init PROVE CustodyInv
  OBVIOUS
<1>1. sellorders = EmptyTable /\ nft = FirstNfts
  BY DEF Init
<1>2. DOMAIN sellorders = {}
  BY <1>1 DEF EmptyTable
<1>3. NftCustody
  <2> SUFFICES ASSUME NEW n \in Nfts PROVE nft[Mart][n] = Listed(OrdersOf(n))
    BY DEF NftCustody
  <2> DEFINE v == [oid \in OrdersOf(n) |-> sellorders[oid].frozen]
  <2>1. DOMAIN v = {}
    BY <1>2 DEF OrdersOf
  <2>2. Listed(OrdersOf(n)) = SumFunction(v)
    BY DEF Listed
  <2> HIDE DEF v
  <2>3. SumFunction(v) = 0
    BY <2>1, SumFunctionIsSum, SumEmpty
  <2> QED BY <1>1, <2>2, <2>3, MarketStartsEmpty
<1>4. NftsConserved
  BY <1>1 DEF NftsConserved, Supply
<1>5. PricesPosted
  BY <1>2 DEF PricesPosted
<1> QED BY <1>3, <1>4, <1>5 DEF CustodyInv

\* In every state of every behaviour the market holds exactly the NFTs of its open
\* orders: no sale, refund or cancellation gives away or keeps one too many.
THEOREM NftsInCustody == Spec => []NftCustody
<1>1. IInv /\ CustodyInv /\ [Next]_vars => IInv' /\ CustodyInv'
  BY StepInv, StepCustody
<1>2. Init => IInv /\ CustodyInv
  BY InitInv, InitCustody
<1>3. CustodyInv => NftCustody
  BY DEF CustodyInv
<1> QED BY <1>1, <1>2, <1>3, PTL DEF Spec

------------------------------------------------------------------------------
(* The money of the resting bids is in the market *)

\* What solvency rests on beyond the code: a symbol names one token contract, as
\* a bid left behind by a closed order is refunded by symbol, from the default one.
OneBankPerSymbol == \A c, d \in Currencies : c.symbol = d.symbol => c = d

\* And no product of a price and an amount on offer wraps.
AmountsFit ==
    /\ \A q \in Payments : q <= IntMax
    /\ \A n \in Nfts, p \in Prices : Supply(n) * p <= IntMax

SymbolsKept == \A b \in DOMAIN buyerbids : buyerbids[b].symbol = paidIn[b].symbol

MoneyInv == Solvent /\ SymbolsKept

\* A batch of payments that leaves the market's own account alone.
Pays(p, total) ==
    /\ p \in [Accounts -> Int]
    /\ p[Mart] = 0
    /\ SumFunction(p) = total

LEMMA PaysOne ==
    ASSUME NEW to \in Users, NEW amount \in Int
    PROVE  Pays(PayOne(Accounts, to, amount), amount)
<1> DEFINE p == PayOne(Accounts, to, amount)
<1>1. to \in Accounts /\ to # Mart /\ Mart \in Accounts
  BY AccountsDistinct DEF Accounts
<1>2. p \in [Accounts -> Int] /\ DOMAIN p = Accounts /\ p[Mart] = 0
  BY <1>1 DEF PayOne
<1>3. Sum(p, Accounts) = amount
  BY <1>1, AccountsAreFinite, PayOneSum
<1> HIDE DEF p
<1>4. SumFunction(p) = amount
  BY <1>2, <1>3, SumFunctionIsSum
<1> QED BY <1>2, <1>4 DEF Pays, p

LEMMA PaysBoth ==
    ASSUME NEW p, NEW q, NEW s, NEW t, Pays(p, s), Pays(q, t)
    PROVE  Pays(PayBoth(p, q), s + t)
<1>1. /\ p \in [Accounts -> Int] /\ q \in [Accounts -> Int]
      /\ p[Mart] = 0 /\ q[Mart] = 0
      /\ SumFunction(p) = s /\ SumFunction(q) = t
  BY DEF Pays
<1> DEFINE b == PayBoth(p, q)
<1>2. b \in [Accounts -> Int] /\ Sum(b, Accounts) = Sum(p, Accounts) + Sum(q, Accounts)
  BY <1>1, AccountsAreFinite, PayBothSum
<1>3. DOMAIN p = Accounts /\ DOMAIN q = Accounts /\ DOMAIN b = Accounts
  BY <1>1, <1>2
<1>4. b[Mart] = 0
  <2>1. Mart \in Accounts
    BY DEF Accounts
  <2>2. b[Mart] = p[Mart] + q[Mart]
    BY <1>3, <2>1 DEF PayBoth
  <2> HIDE DEF b
  <2> QED BY <1>1, <2>2
<1> HIDE DEF b
<1>5. SumFunction(b) = s + t
  BY <1>1, <1>2, <1>3, SumFunctionIsSum
<1> QED BY <1>2, <1>4, <1>5 DEF Pays, b

\* A settlement pays out what the sale earned, to whomever it goes.
LEMMA SettlementPays ==
    ASSUME NEW maker \in Users, NEW ipowner \in Users \cup {NoOwner}, NEW earned \in Int,
           GlobalsOK
    PROVE  Pays(_settle_maker(maker, ipowner, earned), Positive(earned))
<1> DEFINE gross == Positive(earned)
           devfee == Fee(gross, gstate.dev_fee_rate)
           ipfee == IF ipowner = NoOwner THEN 0 ELSE Fee(gross, gstate.ipowner_fee_rate)
           rest == gross - devfee - ipfee
           p1 == PayOne(Accounts, SPLIT_CONTRACT, devfee)
           p2 == PayOne(Accounts, ipowner, ipfee)
           p3 == PayOne(Accounts, maker, rest)
<1>1. gross \in Int
  BY DEF Positive
<1>2. devfee \in Int /\ ipfee \in Int
  <2> HIDE DEF gross
  <2>1. /\ gstate.dev_fee_rate \in Int /\ gstate.ipowner_fee_rate \in Int
        /\ FeeScale \in Nat \ {0}
    BY BoundsAreNaturals DEF GlobalsOK
  <2>2. /\ gross * gstate.dev_fee_rate \in Int
        /\ gross * gstate.ipowner_fee_rate \in Int
    BY <1>1, <2>1
  <2> QED BY <2>1, <2>2 DEF Fee
<1>3. _settle_maker(maker, ipowner, earned) = PayBoth(p1, PayBoth(p2, p3))
  BY DEF _settle_maker
<1> HIDE DEF gross, devfee, ipfee
<1>4. Pays(p1, devfee)
  <2> HIDE DEF p1
  <2>1. /\ SPLIT_CONTRACT \in Accounts /\ SPLIT_CONTRACT # Mart /\ Mart \in Accounts
    BY AccountsDistinct DEF Accounts
  <2>2. p1 \in [Accounts -> Int] /\ DOMAIN p1 = Accounts /\ p1[Mart] = 0
    BY <1>2, <2>1 DEF PayOne, p1
  <2>3. Sum(p1, Accounts) = devfee
    BY <1>2, <2>1, AccountsAreFinite, PayOneSum DEF p1
  <2>4. SumFunction(p1) = devfee
    BY <2>2, <2>3, SumFunctionIsSum
  <2> QED BY <2>2, <2>4 DEF Pays
<1>5. Pays(p2, ipfee)
  <2>1. CASE ipowner \in Users
    BY <1>2, <2>1, PaysOne
  <2>2. CASE ipowner = NoOwner
    <3> HIDE DEF p2
    <3>1. ipfee = 0 /\ ipowner \notin Accounts /\ Mart \in Accounts
      BY <2>2, AccountsDistinct DEF ipfee, Accounts
    <3>2. p2 \in [Accounts -> Int] /\ DOMAIN p2 = Accounts /\ p2[Mart] = 0
      BY <3>1 DEF PayOne, p2
    <3>3. Sum(p2, Accounts) = 0
      BY <3>1, AccountsAreFinite, PayNobodySum DEF p2
    <3>4. SumFunction(p2) = 0
      BY <3>2, <3>3, SumFunctionIsSum
    <3> QED BY <3>1, <3>2, <3>4 DEF Pays
  <2> QED BY <2>1, <2>2
<1>6. rest \in Int /\ devfee + (ipfee + rest) = gross
  BY <1>1, <1>2
<1>7. Pays(p3, rest)
  <2> HIDE DEF rest
  <2> QED BY <1>6, PaysOne
<1> HIDE DEF p1, p2, p3, rest
<1>8. Pays(PayBoth(p2, p3), ipfee + rest)
  BY <1>5, <1>7, PaysBoth
<1>9. Pays(PayBoth(p1, PayBoth(p2, p3)), devfee + (ipfee + rest))
  BY <1>4, <1>8, PaysBoth
<1> QED BY <1>3, <1>6, <1>9 DEF gross

\* Refunds pay out what the refunded bids froze.
LEMMA RefundsPay ==
    ASSUME NEW B, GlobalsOK, TablesOK, B \in SUBSET DOMAIN buyerbids
    PROVE  Pays(RefundPay(B), Frozen(B))
<1> DEFINE w == FrozenMoney
           h == [b \in B |-> buyerbids[b].buyer]
           g == RefundPay(B)
           Of(a) == {x \in B : buyerbids[x].buyer = a}
<1>1. /\ Frozen(B) = Sum(w, B) /\ IsFiniteSet(B)
      /\ \A x \in DOMAIN buyerbids : w[x] \in Nat \ {0}
  BY FrozenIsSum
<1>2. \A x \in B : w[x] \in Int /\ h[x] \in Accounts /\ buyerbids[x].buyer \in Users
  <2>1. \A x \in B : buyerbids[x] \in BidRow
    BY DEF TablesOK, IsTable
  <2>2. \A x \in B : buyerbids[x].buyer \in Users
    BY <2>1 DEF BidRow
  <2>3. \A x \in B : w[x] \in Int
    BY <1>1
  <2> QED BY <2>2, <2>3 DEF Accounts
<1>3. ASSUME NEW a \in Accounts PROVE g[a] = Sum(w, Of(a)) /\ g[a] \in Int
  <2>1. Of(a) \in SUBSET DOMAIN buyerbids
    OBVIOUS
  <2>2. g[a] = Frozen(Of(a))
    BY DEF RefundPay, Frozen
  <2> HIDE DEF Of, g, w
  <2>3. Frozen(Of(a)) = Sum(FrozenMoney, Of(a)) /\ Frozen(Of(a)) \in Nat
    BY <2>1, FrozenIsSum
  <2> QED BY <2>2, <2>3 DEF w
<1>4. \A a \in Accounts : g[a] = Sum(w, Group(B, h, a))
  <2> TAKE a \in Accounts
  <2>1. Group(B, h, a) = Of(a)
    BY DEF Group
  <2> HIDE DEF Of, g, h, w
  <2> QED BY <1>3, <2>1
<1>5. DOMAIN g = Accounts
  BY DEF RefundPay
<1>6. g[Mart] = 0
  <2>1. Of(Mart) = {} /\ Mart \in Accounts
    BY <1>2, AccountsDistinct DEF Accounts
  <2> HIDE DEF Of, g, w
  <2> QED BY <1>3, <2>1, SumEmpty
<1>7. g \in [Accounts -> Int]
  <2>1. g = [a \in Accounts |-> g[a]]
    BY DEF RefundPay
  <2> HIDE DEF g
  <2> QED BY <1>3, <2>1
<1> HIDE DEF g, h, w
<1>8. Sum(g, Accounts) = Sum(w, B)
  <2>1. \A x \in B : w[x] \in Int /\ h[x] \in Accounts
    BY <1>2
  <2>2. IsFiniteSet(B) /\ IsFiniteSet(Accounts)
    BY <1>1, AccountsAreFinite
  <2> HIDE DEF Of
  <2> QED BY <1>4, <2>1, <2>2, SumGroups
<1>9. SumFunction(g) = Sum(g, Accounts)
  BY <1>5, SumFunctionIsSum
<1>10. Pays(g, Frozen(B))
  BY <1>1, <1>6, <1>7, <1>8, <1>9 DEF Pays
<1> QED BY <1>10 DEF g

\* A payment in, and a batch of `total` out.
Settles(c, from, quant, p, total) ==
    /\ BalancesOK /\ from \in Accounts /\ quant \in Nat /\ total \in Int
    /\ from = Mart => quant = 0
    /\ MoneyMoves(c, from, quant, p) /\ Pays(p, total)

\* What a payment in and a batch out change of the market's balance.
LEMMA MoneyMovesMart ==
    ASSUME NEW c, NEW from, NEW quant, NEW p, NEW total, NEW d \in Currencies,
           Settles(c, from, quant, p, total)
    PROVE  money'[Mart][d] = IF d = c THEN money[Mart][d] + quant - total ELSE money[Mart][d]
<1> DEFINE new(a) == money[a][c] + p[a] + (IF a = Mart THEN quant - SumFunction(p) ELSE 0)
                                        - (IF a = from THEN quant ELSE 0)
<1>1. /\ c \in Currencies
      /\ money' = [a \in Accounts |-> [money[a] EXCEPT ![c] = new(a)]]
      /\ p[Mart] = 0 /\ SumFunction(p) = total
      /\ Mart \in Accounts
      /\ money \in [Accounts -> [Currencies -> Nat]]
      /\ quant \in Nat /\ total \in Int
      /\ from = Mart => quant = 0
  BY DEF Settles, MoneyMoves, Pays, BalancesOK, Accounts
<1>2. money[Mart][c] \in Int /\ money[Mart][d] \in Int /\ quant \in Int /\ total \in Int
  BY <1>1
<1>3. new(Mart) = money[Mart][c] + quant - total
  <2>1. new(Mart) = money[Mart][c] + 0 + (quant - total) - (IF Mart = from THEN quant ELSE 0)
    BY <1>1
  <2>2. (IF Mart = from THEN quant ELSE 0) = 0
    BY <1>1
  <2>3. new(Mart) = money[Mart][c] + 0 + (quant - total) - 0
    BY <2>1, <2>2
  <2> HIDE DEF new
  <2> QED BY <1>2, <2>3
<1> HIDE DEF new
<1>4. money'[Mart][d] = IF d = c THEN new(Mart) ELSE money[Mart][d]
  BY <1>1
<1> QED BY <1>2, <1>3, <1>4

\* What erasing bids of one currency changes of what is frozen in each.
LEMMA EraseFrozenIn ==
    ASSUME NEW gone, NEW c, NEW d \in Currencies, GlobalsOK, TablesOK,
           gone \in SUBSET DOMAIN buyerbids, \A b \in gone : paidIn[b] = c,
           buyerbids' = Erase(buyerbids, gone), paidIn' = Erase(paidIn, gone)
    PROVE  /\ Frozen(BidsIn(d))' = IF d = c THEN Frozen(BidsIn(d)) - Frozen(gone)
                                           ELSE Frozen(BidsIn(d))
           /\ Frozen(BidsIn(d)) \in Int /\ Frozen(gone) \in Int
<1> DEFINE B == BidsIn(d)
           Q == B \ gone
<1>1. B \in SUBSET DOMAIN buyerbids
  BY DEF BidsIn
<1>2. BidsIn(d)' = Q
  <2>1. DOMAIN buyerbids' = DOMAIN buyerbids \ gone /\ DOMAIN buyerbids = DOMAIN paidIn
    BY DEF Erase, TablesOK
  <2>2. \A b \in DOMAIN buyerbids' : paidIn'[b] = paidIn[b]
    BY <2>1 DEF Erase
  <2> QED BY <2>1, <2>2 DEF BidsIn
<1>3. Frozen(BidsIn(d))' = SumFunction([x \in Q |-> buyerbids'[x].frozen])
  BY <1>2 DEF Frozen
<1>4. Frozen(BidsIn(d))' = Frozen(B) - Frozen(B \cap gone)
  <2> HIDE DEF B
  <2>1. SumFunction([x \in Q |-> buyerbids'[x].frozen]) = Frozen(B) - Frozen(B \cap gone)
    BY <1>1, EraseFrozen
  <2> QED BY <1>3, <2>1
<1>5. d = c => B \cap gone = gone
  BY DEF BidsIn
<1>6. d # c => B \cap gone = {}
  BY DEF BidsIn
<1>7. Frozen(B) \in Nat /\ Frozen(gone) \in Nat
  BY <1>1, FrozenIsSum
<1>8. Frozen({}) = 0
  <2>1. {} \in SUBSET DOMAIN buyerbids
    OBVIOUS
  <2>2. Frozen({}) = Sum(FrozenMoney, {})
    BY <2>1, FrozenIsSum
  <2> QED BY <2>2, SumEmpty
<1>9. d # c => Frozen(BidsIn(d))' = Frozen(B)
  <2> HIDE DEF B
  <2> QED BY <1>4, <1>6, <1>7, <1>8
<1>10. d = c => Frozen(BidsIn(d))' = Frozen(B) - Frozen(gone)
  <2> HIDE DEF B
  <2> QED BY <1>4, <1>5
<1> QED BY <1>7, <1>9, <1>10

\* The bids of `gone` leave the book; a payment goes out whole, and with it what they froze.
BidsLeave(gone, c, from, quant, p) ==
    /\ gone \in SUBSET DOMAIN buyerbids
    /\ buyerbids' = Erase(buyerbids, gone) /\ paidIn' = Erase(paidIn, gone)
    /\ from \in Accounts /\ quant \in Nat
    /\ from = Mart => quant = 0
    /\ MoneyMoves(c, from, quant, p) /\ Pays(p, quant + Frozen(gone))

\* Such a transaction of the bids' own currency.
OwnRefunds ==
    \E c \in Currencies, from \in Accounts, quant \in Nat : \E gone, p :
        BidsLeave(gone, c, from, quant, p) /\ \A b \in gone : paidIn[b] = c

\* Money leaves the market as the bids it is frozen in leave the book.
LEMMA EraseKeepsMoney ==
    ASSUME IInv, MoneyInv, OwnRefunds
    PROVE  MoneyInv'
<1>0. PICK c \in Currencies, from \in Accounts, quant \in Nat :
          \E gone, p : BidsLeave(gone, c, from, quant, p) /\ \A b \in gone : paidIn[b] = c
  BY DEF OwnRefunds
<1>a. PICK gone, p : BidsLeave(gone, c, from, quant, p) /\ \A b \in gone : paidIn[b] = c
  BY <1>0
<1>b. /\ from = Mart => quant = 0
      /\ gone \in SUBSET DOMAIN buyerbids /\ \A b \in gone : paidIn[b] = c
      /\ buyerbids' = Erase(buyerbids, gone) /\ paidIn' = Erase(paidIn, gone)
      /\ MoneyMoves(c, from, quant, p) /\ Pays(p, quant + Frozen(gone))
  BY <1>a DEF BidsLeave
<1>1. GlobalsOK /\ TablesOK /\ BalancesOK
  BY DEF IInv, BookInv
<1>2. SymbolsKept'
  BY <1>b, <1>1 DEF MoneyInv, SymbolsKept, Erase, TablesOK
<1>3. Solvent'
  <2> SUFFICES ASSUME NEW d \in Currencies PROVE money'[Mart][d] = Frozen(BidsIn(d))'
    BY DEF Solvent
  <2> DEFINE total == quant + Frozen(gone)
             old == Frozen(BidsIn(d))
             new == Frozen(BidsIn(d))'
  <2>1. /\ new = IF d = c THEN old - Frozen(gone) ELSE old
        /\ old \in Int /\ Frozen(gone) \in Int
    BY <1>b, <1>1, EraseFrozenIn
  <2>2. total \in Int /\ Pays(p, total)
    BY <1>b, <2>1
  <2>3. money[Mart][d] = old
    BY DEF MoneyInv, Solvent
  <2>4. total = quant + Frozen(gone)
    OBVIOUS
  <2> HIDE DEF total, old, new
  <2>5. money'[Mart][d] = IF d = c THEN money[Mart][d] + quant - total ELSE money[Mart][d]
    <3>1. Settles(c, from, quant, p, total)
      BY <1>b, <1>1, <2>2 DEF Settles
    <3> QED BY <3>1, MoneyMovesMart
  <2>6. \A i, j \in Int : i + quant - (quant + j) = i - j
    OBVIOUS
  <2>7. money'[Mart][d] = IF d = c THEN old - Frozen(gone) ELSE old
    BY <2>1, <2>3, <2>4, <2>5, <2>6
  <2>8. money'[Mart][d] = new
    BY <2>1, <2>7
  <2> QED BY <2>8 DEF new
<1> QED BY <1>2, <1>3 DEF MoneyInv

\* The bids a closing order refunds were paid in the order's currency.
LEMMA RefundedInOrderCurrency ==
    ASSUME NEW oid \in DOMAIN sellorders, NEW taken, IInv
    PROVE  /\ _refund_buyer_bid(oid, taken) \in SUBSET DOMAIN buyerbids
           /\ taken \notin _refund_buyer_bid(oid, taken)
           /\ \A b \in _refund_buyer_bid(oid, taken) : paidIn[b] = OrderCurrency(oid)
BY DEF _refund_buyer_bid, BidsOn, IInv, BookInv, BidBackedByOrderBank

\* What an order offers costs no more than all there is of its NFT.
LEMMA OfferFits ==
    ASSUME NEW oid \in DOMAIN sellorders, IInv, CustodyInv, AmountsFit, OrderNft(oid) \in Nfts
    PROVE  sellorders[oid].frozen * sellorders[oid].price \in 0 .. IntMax
<1> DEFINE n == OrderNft(oid)
           f == sellorders[oid].frozen
           p == sellorders[oid].price
           held == [a \in Accounts |-> nft[a][n]]
<1>1. f \in Nat /\ p \in Nat /\ p \in Prices
  <2>1. sellorders[oid] \in OrderRow
    BY DEF IInv, BookInv, TablesOK, IsTable
  <2> QED BY <2>1 DEF OrderRow, CustodyInv, PricesPosted
<1>2. f <= Listed(OrdersOf(n)) /\ Listed(OrdersOf(n)) \in Nat
  <2> DEFINE O == OrdersOf(n)
             w == FrozenNfts
  <2>1. O \in SUBSET DOMAIN sellorders /\ oid \in O /\ GlobalsOK /\ TablesOK
    BY DEF OrdersOf, IInv, BookInv
  <2>2. w[oid] = f
    BY DEF FrozenNfts
  <2> HIDE DEF O, w, f
  <2>3. /\ Listed(O) = Sum(w, O) /\ Listed(O) \in Nat /\ IsFiniteSet(O)
        /\ \A x \in O : w[x] \in Nat
    BY <2>1, ListedIsSum DEF w
  <2>4. w[oid] <= Sum(w, O)
    BY <2>1, <2>3, SumCovers
  <2> QED BY <2>2, <2>3, <2>4 DEF O
<1>3. Listed(OrdersOf(n)) = nft[Mart][n] /\ n \in Nfts
  BY DEF CustodyInv, NftCustody
<1>4. nft[Mart][n] <= Supply(n) /\ Supply(n) \in Nat
  <2>1. /\ Mart \in Accounts /\ held[Mart] = nft[Mart][n] /\ DOMAIN held = Accounts
        /\ \A a \in Accounts : held[a] \in Nat
    BY <1>3 DEF Accounts, IInv, BalancesOK
  <2>2. SumFunction(held) = Supply(n)
    BY <1>3 DEF CustodyInv, NftsConserved
  <2> HIDE DEF held, n
  <2>3. held[Mart] <= Sum(held, Accounts)
    BY <2>1, AccountsAreFinite, SumCovers
  <2>4. Sum(held, Accounts) \in Nat
    <3>1. Accounts \in SUBSET Accounts
      OBVIOUS
    <3> QED BY <2>1, <3>1, AccountsAreFinite, SumNat
  <2>5. SumFunction(held) = Sum(held, Accounts)
    BY <2>1, SumFunctionIsSum
  <2> QED BY <2>1, <2>2, <2>3, <2>4, <2>5
<1>5. Supply(n) * p <= IntMax
  BY <1>1, <1>3 DEF AmountsFit
<1> HIDE DEF n, f, p
<1>6. f <= Supply(n)
  BY <1>1, <1>2, <1>3, <1>4
<1>7. f * p <= Supply(n) * p
  BY <1>1, <1>4, <1>6, TimesMonotone
<1>8. f * p \in Nat /\ Supply(n) * p \in Nat /\ IntMax \in Nat
  BY <1>1, <1>4, BoundsAreNaturals
<1>9. f * p \in 0 .. IntMax
  BY <1>5, <1>7, <1>8
<1> QED BY <1>9 DEF f, p

\* A deal earns no more than the payment, and what is left goes back whole.
LEMMA DealEarns ==
    ASSUME NEW o \in OrderRow, NEW quant \in Nat, quant <= IntMax,
           o.frozen * o.price \in 0 .. IntMax
    PROVE  LET earned == process_single_buy_order(o, quant).earned
           IN  /\ earned \in Int
               /\ Positive(earned) + Positive(Int64(quant - earned)) = quant
<1> DEFINE earned == process_single_buy_order(o, quant).earned
           cost == o.frozen * o.price
           count == quant \div o.price
<1>1. o.frozen \in Nat /\ o.price \in Nat \ {0} /\ IntMax \in Nat
  BY BoundsAreNaturals DEF OrderRow
<1>2. count \in Nat /\ count * o.price <= quant
  BY <1>1, Quotient
<1>3. cost \in 0 .. IntMax
  OBVIOUS
<1>4. Int64(cost) = cost
  <2> HIDE DEF cost
  <2> QED BY <1>1, <1>3 DEF Int64
<1>5. earned = IF cost >= quant THEN count * o.price ELSE cost
  BY <1>4 DEF process_single_buy_order
<1>6. count * o.price \in Nat
  BY <1>1, <1>2
<1> HIDE DEF earned, cost
<1>7. earned \in 0 .. quant
  BY <1>1, <1>2, <1>3, <1>5, <1>6
<1>8. Int64(quant - earned) = quant - earned
  BY <1>1, <1>7 DEF Int64
<1>9. Positive(earned) = earned /\ Positive(quant - earned) = quant - earned
  BY <1>7 DEF Positive
<1>10. Positive(earned) + Positive(Int64(quant - earned)) = quant
  BY <1>7, <1>8, <1>9
<1> QED BY <1>7, <1>10 DEF earned

\* The bids a purchase refunds, and all it pays out.
DealGone(q, oid) ==
    IF process_single_buy_order(sellorders[oid], q).bought = sellorders[oid].frozen
    THEN _refund_buyer_bid(oid, 0)
    ELSE {}
DealBatch(u, q, oid) ==
    LET o == sellorders[oid]
        earned == process_single_buy_order(o, q).earned
    IN  PayBoth(_settle_maker(o.maker, IpOwner[OrderNft(oid)], earned),
                PayBoth(RefundPay(DealGone(q, oid)),
                        PayOne(Accounts, u, Positive(Int64(q - earned)))))

\* A purchase: the payment goes out whole, and the refunded bids with it.
LEMMA DealPays ==
    ASSUME NEW u \in Users, NEW q \in Payments, NEW oid \in DOMAIN sellorders,
           IInv, CustodyInv, AmountsFit, OrderNft(oid) \in Nfts
    PROVE  /\ DealGone(q, oid) \in SUBSET DOMAIN buyerbids
           /\ \A b \in DealGone(q, oid) : paidIn[b] = OrderCurrency(oid)
           /\ Pays(DealBatch(u, q, oid), q + Frozen(DealGone(q, oid)))
<1> DEFINE o == sellorders[oid]
           deal == process_single_buy_order(o, q)
           earned == deal.earned
           gone == DealGone(q, oid)
           left == Positive(Int64(q - earned))
           settle == _settle_maker(o.maker, IpOwner[OrderNft(oid)], earned)
           pays == PayBoth(settle, PayBoth(RefundPay(gone), PayOne(Accounts, u, left)))
<1>1. OrderNft(oid) \in Nfts /\ pays = DealBatch(u, q, oid)
  BY DEF DealBatch
<1>2. /\ o \in OrderRow /\ o.maker \in Users /\ q \in Nat /\ q <= IntMax
      /\ GlobalsOK /\ TablesOK
  <2>1. o \in OrderRow /\ GlobalsOK /\ TablesOK
    BY DEF IInv, BookInv, TablesOK, IsTable
  <2> QED BY <2>1, InputsAreNaturals DEF OrderRow, AmountsFit
<1>3. o.frozen * o.price \in 0 .. IntMax
  BY <1>1, OfferFits
<1>4. earned \in Int /\ Positive(earned) + left = q
  BY <1>2, <1>3, DealEarns
<1>5. left \in Int /\ Positive(earned) \in Int
  <2> HIDE DEF earned
  <2>1. Positive(earned) \in Int
    BY <1>4 DEF Positive
  <2>2. Int64(q - earned) \in Int
    <3>1. q - earned \in Int /\ IntMax \in Nat
      BY <1>2, <1>4, BoundsAreNaturals
    <3> QED BY <3>1 DEF Int64
  <2> QED BY <2>1, <2>2 DEF Positive
<1>6. /\ gone \in SUBSET DOMAIN buyerbids
      /\ \A b \in gone : paidIn[b] = OrderCurrency(oid)
  BY RefundedInOrderCurrency DEF DealGone
<1>7. Frozen(gone) \in Nat
  <2> HIDE DEF gone
  <2> QED BY <1>2, <1>6, FrozenIsSum
<1> HIDE DEF gone, earned, left
<1>8. Pays(settle, Positive(earned))
  <2>1. IpOwner[OrderNft(oid)] \in Users \cup {NoOwner}
    BY <1>1, InputsAreNaturals
  <2> QED BY <1>2, <1>4, <2>1, SettlementPays
<1>9. Pays(RefundPay(gone), Frozen(gone))
  BY <1>2, <1>6, RefundsPay
<1>10. Pays(PayOne(Accounts, u, left), left)
  BY <1>5, PaysOne
<1> HIDE DEF settle
<1>11. Pays(pays, Positive(earned) + (Frozen(gone) + left))
  <2>1. Pays(PayBoth(RefundPay(gone), PayOne(Accounts, u, left)), Frozen(gone) + left)
    BY <1>9, <1>10, PaysBoth
  <2> QED BY <1>8, <2>1, PaysBoth
<1>12. Positive(earned) + (Frozen(gone) + left) = q + Frozen(gone)
  BY <1>4, <1>5, <1>7
<1>13. Pays(pays, q + Frozen(gone))
  BY <1>11, <1>12
<1> HIDE DEF pays
<1> QED BY <1>1, <1>6, <1>13 DEF gone

\* So a purchase refunds bids of its own currency.
LEMMA BuyNowRefunds ==
    ASSUME NEW u \in Users, NEW c \in Currencies, NEW q \in Payments,
           NEW oid \in DOMAIN sellorders, NEW p \in Prices,
           IInv, CustodyInv, AmountsFit, BuyNow(u, c, q, oid, p)
    PROVE  OwnRefunds
<1> DEFINE gone == DealGone(q, oid)
           pays == DealBatch(u, q, oid)
<1>1. /\ buyerbids' = Erase(buyerbids, gone) /\ paidIn' = Erase(paidIn, gone)
      /\ OrderNft(oid) \in Nfts
      /\ MoneyMoves(c, u, q, pays)
      /\ c = OrderCurrency(oid)
  BY DEF BuyNow, TakeFromOrder, NftMoves, PaymentFits, DealGone, DealBatch
<1>2. u \in Accounts /\ u # Mart /\ q \in Nat
  BY AccountsDistinct, InputsAreNaturals DEF Accounts
<1>3. /\ gone \in SUBSET DOMAIN buyerbids
      /\ \A b \in gone : paidIn[b] = c
      /\ Pays(pays, q + Frozen(gone))
  BY <1>1, DealPays
<1> HIDE DEF gone, pays
<1>4. BidsLeave(gone, c, u, q, pays)
  BY <1>1, <1>2, <1>3 DEF BidsLeave
<1> QED BY <1>2, <1>3, <1>4 DEF OwnRefunds

\* A new bid: the market keeps what it records as frozen and returns the rest.
LEMMA PlaceBidKeepsMoney ==
    ASSUME NEW u \in Users, NEW c \in Currencies, NEW q \in Payments,
           NEW oid \in DOMAIN sellorders, NEW p \in Prices,
           IInv, MoneyInv, PlaceBid(u, c, q, oid, p)
    PROVE  MoneyInv'
<1> DEFINE bid == gstate.last_deal_idx + 1
           frozen == BidFrozen(q, p)
           rest == q - (q \div p) * p
           row == [sell_order_id |-> oid, price |-> p, symbol |-> c.symbol,
                   frozen |-> frozen, buyer |-> u]
<1>1. /\ buyerbids' = Emplace(buyerbids, bid, row)
      /\ paidIn' = Emplace(paidIn, bid, c)
      /\ MoneyMoves(c, u, q, PayOne(Accounts, u, rest))
  BY DEF PlaceBid
<1>2. /\ bid \notin DOMAIN buyerbids /\ DOMAIN paidIn = DOMAIN buyerbids
      /\ GlobalsOK /\ TablesOK /\ BalancesOK
  <2>1. gstate.last_deal_idx \in Nat
    BY DEF IInv, GlobalsOK
  <2> QED BY <2>1 DEF IInv, BookInv, TablesOK, IsTable
<1>3. frozen \in Nat /\ frozen + rest = q /\ rest \in Int /\ q \in Nat
  <2>1. q \in Nat /\ p \in Nat \ {0}
    BY InputsAreNaturals
  <2>2. q \div p \in Nat
    BY <2>1, Quotient
  <2>3. (q \div p) * p \in Nat
    BY <2>1, <2>2
  <2> QED BY <2>1, <2>3 DEF BidFrozen
<1>4. row.symbol = c.symbol /\ row.frozen = frozen
  OBVIOUS
<1> HIDE DEF bid, frozen, rest, row
<1>5. /\ DOMAIN buyerbids' = DOMAIN buyerbids \cup {bid}
      /\ buyerbids'[bid] = row /\ paidIn'[bid] = c
      /\ \A b \in DOMAIN buyerbids :
            b # bid /\ buyerbids'[b] = buyerbids[b] /\ paidIn'[b] = paidIn[b]
  BY <1>1, <1>2 DEF Emplace
<1>6. SymbolsKept'
  BY <1>4, <1>5 DEF MoneyInv, SymbolsKept
<1>7. Pays(PayOne(Accounts, u, rest), rest) /\ u \in Accounts /\ u # Mart
  BY <1>3, PaysOne, AccountsDistinct DEF Accounts
<1>8. Solvent'
  <2> SUFFICES ASSUME NEW d \in Currencies PROVE money'[Mart][d] = Frozen(BidsIn(d))'
    BY DEF Solvent
  <2> DEFINE B == BidsIn(d)
             Q == BidsIn(d)'
             new == [x \in Q |-> buyerbids'[x].frozen]
             w == FrozenMoney
             pay == PayOne(Accounts, u, rest)
  <2>1. /\ Frozen(B) = Sum(w, B) /\ Frozen(B) \in Nat /\ IsFiniteSet(B)
        /\ \A x \in B : w[x] \in Int /\ w[x] = buyerbids[x].frozen
        /\ money[Mart][d] = Frozen(B)
    <3>1. B \in SUBSET DOMAIN buyerbids
      BY DEF BidsIn
    <3> QED BY <1>2, <3>1, FrozenIsSum DEF FrozenMoney, MoneyInv, Solvent
  <2>2. Q = IF d = c THEN B \cup {bid} ELSE B
    BY <1>2, <1>5 DEF BidsIn
  <2>3. bid \notin B /\ \A x \in B : buyerbids'[x].frozen = w[x]
    BY <1>2, <1>5, <2>1 DEF BidsIn
  <2>4. /\ Frozen(BidsIn(d))' = SumFunction(new)
        /\ DOMAIN new = Q
        /\ \A x \in B : new[x] = w[x]
        /\ d = c => new[bid] = frozen
    BY <1>4, <1>5, <2>2, <2>3 DEF Frozen
  <2>5. money'[Mart][d] = IF d = c THEN money[Mart][d] + q - rest ELSE money[Mart][d]
    <3> HIDE DEF pay
    <3>1. MoneyMoves(c, u, q, pay) /\ Pays(pay, rest) /\ (u = Mart => q = 0)
      BY <1>1, <1>7 DEF pay
    <3>2. u \in Accounts /\ q \in Nat /\ rest \in Int /\ BalancesOK
      BY <1>2, <1>3, <1>7
    <3>3. Settles(c, u, q, pay, rest)
      BY <3>1, <3>2 DEF Settles
    <3> QED BY <3>3, MoneyMovesMart
  <2> HIDE DEF B, Q, new, w
  <2>6. Sum(new, B) = Sum(w, B)
    BY <2>1, <2>4, SumSame
  <2>7. SumFunction(new) = Sum(new, Q)
    BY <2>4, SumFunctionIsSum
  <2>8. CASE d = c
    <3>1. \A x \in B \cup {bid} : new[x] \in Int
      BY <1>3, <2>1, <2>4, <2>8
    <3>2. Sum(new, B \cup {bid}) = new[bid] + Sum(new, B)
      BY <2>1, <2>3, <3>1, SumAdd
    <3>3. money'[Mart][d] = Frozen(B) + q - rest
      BY <2>1, <2>5, <2>8
    <3>4. Frozen(B) + q - rest = frozen + Frozen(B)
      BY <1>3, <2>1
    <3> QED BY <2>1, <2>2, <2>4, <2>6, <2>7, <2>8, <3>2, <3>3, <3>4
  <2>9. CASE d # c
    <3>1. money'[Mart][d] = Frozen(B)
      BY <2>1, <2>5, <2>9
    <3> QED BY <2>1, <2>2, <2>4, <2>6, <2>7, <2>9, <3>1
  <2> QED BY <2>8, <2>9
<1> QED BY <1>6, <1>8 DEF MoneyInv

\* What a bid can take of its order, the bids refunded then, and all that is paid out.
TakenNfts(bid) ==
    LET row == buyerbids[bid]
        o == sellorders[row.sell_order_id]
    IN  IF row.frozen \div row.price < o.frozen THEN row.frozen \div row.price ELSE o.frozen
TakenGone(bid) ==
    LET row == buyerbids[bid]
        oid == row.sell_order_id
    IN  IF row.frozen \div row.price < sellorders[oid].frozen
        THEN {}
        ELSE _refund_buyer_bid(oid, bid)
TakenBatch(bid) ==
    LET row == buyerbids[bid]
        oid == row.sell_order_id
        sold == TakenNfts(bid)
    IN  PayBoth(_settle_maker(sellorders[oid].maker, IpOwner[OrderNft(oid)], sold * row.price),
                PayBoth(RefundPay(TakenGone(bid)),
                        PayOne(Accounts, row.buyer,
                               (row.frozen \div row.price - sold) * row.price)))

\* A bid taken: what it froze goes to the sellers' side and back to the bidder.
LEMMA TakenPays ==
    ASSUME NEW bid \in DOMAIN buyerbids, buyerbids[bid].sell_order_id \in DOMAIN sellorders,
           IInv, OrderNft(buyerbids[bid].sell_order_id) \in Nfts
    PROVE  /\ TakenGone(bid) \cup {bid} \in SUBSET DOMAIN buyerbids
           /\ \A b \in TakenGone(bid) \cup {bid} :
                 paidIn[b] = OrderCurrency(buyerbids[bid].sell_order_id)
           /\ Pays(TakenBatch(bid), 0 + Frozen(TakenGone(bid) \cup {bid}))
           /\ TakenNfts(bid) \in Nat
           /\ TakenNfts(bid) * buyerbids[bid].price \in Nat
           /\ (buyerbids[bid].frozen \div buyerbids[bid].price - TakenNfts(bid))
                  * buyerbids[bid].price \in Nat
           /\ TakenNfts(bid) <= sellorders[buyerbids[bid].sell_order_id].frozen
<1> DEFINE row == buyerbids[bid]
           oid == row.sell_order_id
           o == sellorders[oid]
           bid_count == row.frozen \div row.price
           sold == IF bid_count < o.frozen THEN bid_count ELSE o.frozen
           gone == IF bid_count < o.frozen THEN {} ELSE _refund_buyer_bid(oid, bid)
           erased == gone \cup {bid}
           left == (bid_count - sold) * row.price
           settle == _settle_maker(o.maker, IpOwner[OrderNft(oid)], sold * row.price)
           pays == PayBoth(settle, PayBoth(RefundPay(gone), PayOne(Accounts, row.buyer, left)))
<1>1. /\ bid \in DOMAIN buyerbids /\ oid \in DOMAIN sellorders
      /\ OrderNft(oid) \in Nfts
      /\ sold = TakenNfts(bid) /\ gone = TakenGone(bid) /\ pays = TakenBatch(bid)
  BY DEF TakenNfts, TakenGone, TakenBatch
<1>2. /\ o.maker \in Users /\ o.frozen \in Nat
      /\ row.frozen \in Nat /\ row.price \in Nat \ {0} /\ row.buyer \in Users
      /\ GlobalsOK /\ TablesOK
  <2>1. o \in OrderRow /\ row \in BidRow /\ GlobalsOK /\ TablesOK
    BY <1>1 DEF IInv, BookInv, TablesOK, IsTable
  <2> HIDE DEF o, row
  <2> QED BY <2>1 DEF OrderRow, BidRow
<1>3. PICK k \in Nat : row.frozen = k * row.price
  BY <1>1 DEF IInv, BookInv, RestingBidsBelowAsk
<1>4. bid_count \in Nat /\ bid_count * row.price = row.frozen
  <2> DEFINE price == row.price
  <2>1. bid_count = (k * price) \div price
    BY <1>3
  <2>2. price \in Nat \ {0}
    BY <1>2
  <2> HIDE DEF price
  <2>3. (k * price) \div price = k
    BY <2>2, QuotientOfProduct
  <2>4. bid_count = k
    BY <2>1, <2>3
  <2> HIDE DEF bid_count
  <2> QED BY <1>3, <2>4 DEF price
<1>5. /\ sold \in Nat /\ sold * row.price \in Nat /\ left \in Nat
      /\ sold <= o.frozen
      /\ sold * row.price + left = row.frozen
  <2> DEFINE price == row.price
  <2>1. price \in Nat
    BY <1>2
  <2>2. sold \in Nat /\ sold <= o.frozen /\ sold <= bid_count
    BY <1>2, <1>4
  <2>3. left = (bid_count - sold) * price /\ bid_count * price = row.frozen
    BY <1>4
  <2> HIDE DEF bid_count, sold, price
  <2>4. (bid_count - sold) * price = bid_count * price - sold * price
    BY <1>4, <2>1, <2>2
  <2>5. bid_count * price \in Int /\ sold * price \in Nat
    BY <1>4, <2>1, <2>2
  <2>7. sold * price <= bid_count * price
    BY <1>4, <2>1, <2>2, TimesMonotone
  <2>6. left \in Nat /\ sold * price + left = row.frozen
    <3> HIDE DEF left
    <3> QED BY <2>3, <2>4, <2>5, <2>7
  <2> QED BY <2>2, <2>5, <2>6 DEF price
<1>6. Positive(sold * row.price) = sold * row.price
  <2> DEFINE x == sold * row.price
  <2>1. x \in Nat
    BY <1>5
  <2> HIDE DEF x
  <2>2. Positive(x) = x
    BY <2>1 DEF Positive
  <2> QED BY <2>2 DEF x
<1>7. /\ gone \in SUBSET DOMAIN buyerbids /\ bid \notin gone
      /\ \A b \in erased : paidIn[b] = OrderCurrency(oid)
  <2>1. paidIn[bid] = OrderCurrency(oid)
    BY <1>1 DEF IInv, BookInv, BidBackedByOrderBank
  <2> QED BY <1>1, <2>1, RefundedInOrderCurrency
<1>8. erased \in SUBSET DOMAIN buyerbids
  BY <1>1, <1>7
<1>9. Frozen(erased) = row.frozen + Frozen(gone) /\ Frozen(gone) \in Nat
  <2> DEFINE w == FrozenMoney
  <2>1. w[bid] = row.frozen
    BY <1>1 DEF FrozenMoney
  <2> HIDE DEF gone, w, row
  <2>2. /\ Frozen(gone) = Sum(w, gone) /\ Frozen(gone) \in Nat /\ IsFiniteSet(gone)
        /\ \A x \in DOMAIN buyerbids : w[x] \in Nat \ {0}
    BY <1>2, <1>7, FrozenIsSum DEF w
  <2>3. Frozen(erased) = Sum(w, erased)
    <3> HIDE DEF erased
    <3> QED BY <1>2, <1>8, FrozenIsSum DEF w
  <2>4. \A y \in gone \cup {bid} : w[y] \in Int
    BY <1>1, <1>7, <2>2
  <2>5. Sum(w, gone \cup {bid}) = w[bid] + Sum(w, gone)
    BY <1>7, <2>2, <2>4, SumAdd
  <2> QED BY <2>1, <2>2, <2>3, <2>5
<1> DEFINE earned == sold * row.price
           buyer == row.buyer
<1>10. earned \in Int /\ buyer \in Users /\ Positive(earned) = earned /\ left \in Int
       /\ earned + left = row.frozen
  BY <1>2, <1>5, <1>6
<1>11. Pays(settle, earned)
  <2>1. IpOwner[OrderNft(oid)] \in Users \cup {NoOwner}
    BY <1>1, InputsAreNaturals
  <2> DEFINE maker == o.maker
             own == IpOwner[OrderNft(oid)]
  <2>2. settle = _settle_maker(maker, own, earned) /\ maker \in Users
        /\ own \in Users \cup {NoOwner}
    BY <1>2, <2>1
  <2> HIDE DEF maker, own, earned, settle
  <2>3. Pays(_settle_maker(maker, own, earned), Positive(earned))
    BY <1>2, <1>10, <2>2, SettlementPays
  <2> QED BY <1>10, <2>2, <2>3
<1> HIDE DEF gone, earned, left, settle, buyer, oid
<1>12. Pays(RefundPay(gone), Frozen(gone))
  BY <1>2, <1>7, RefundsPay
<1>13. Pays(PayOne(Accounts, buyer, left), left)
  BY <1>10, PaysOne
<1>14. Pays(pays, earned + (Frozen(gone) + left))
  <2>1. Pays(PayBoth(RefundPay(gone), PayOne(Accounts, buyer, left)), Frozen(gone) + left)
    BY <1>12, <1>13, PaysBoth
  <2>2. Pays(PayBoth(settle, PayBoth(RefundPay(gone), PayOne(Accounts, buyer, left))),
             earned + (Frozen(gone) + left))
    BY <1>11, <2>1, PaysBoth
  <2> QED BY <2>2 DEF buyer
<1>15. earned + (Frozen(gone) + left) = 0 + Frozen(erased)
  <2> HIDE DEF row, erased
  <2> QED BY <1>9, <1>10
<1>16. Pays(TakenBatch(bid), 0 + Frozen(erased))
  BY <1>1, <1>14, <1>15
<1>17. \A b \in erased : paidIn[b] = OrderCurrency(oid)
  BY <1>7
<1>18. TakenGone(bid) \cup {bid} = erased
  BY <1>1
<1>19. /\ TakenNfts(bid) \in Nat /\ TakenNfts(bid) * row.price \in Nat
       /\ (bid_count - TakenNfts(bid)) * row.price \in Nat
       /\ TakenNfts(bid) <= o.frozen
  BY <1>1, <1>5 DEF left
<1> HIDE DEF pays, erased, sold
<1> QED BY <1>8, <1>16, <1>17, <1>18, <1>19 DEF oid

\* So a bid taken is refunded with bids of its own currency.
LEMMA TakeBidRefunds ==
    ASSUME NEW u \in Users, NEW bid, IInv, takebuybid(u, bid)
    PROVE  OwnRefunds
<1> DEFINE oid == buyerbids[bid].sell_order_id
           erased == TakenGone(bid) \cup {bid}
           pays == TakenBatch(bid)
<1>1. /\ bid \in DOMAIN buyerbids /\ oid \in DOMAIN sellorders
      /\ buyerbids' = Erase(buyerbids, erased) /\ paidIn' = Erase(paidIn, erased)
      /\ OrderNft(oid) \in Nfts
      /\ MoneyMoves(OrderCurrency(oid), Mart, 0, pays)
  BY DEF takebuybid, TakeFromOrder, NftMoves, TakenNfts, TakenGone, TakenBatch
<1>2. OrderCurrency(oid) \in Currencies /\ Mart \in Accounts
  BY <1>1 DEF MoneyMoves, Accounts
<1>3. /\ erased \in SUBSET DOMAIN buyerbids
      /\ \A b \in erased : paidIn[b] = OrderCurrency(oid)
      /\ Pays(pays, 0 + Frozen(erased))
  BY <1>1, TakenPays
<1> HIDE DEF oid, erased, pays
<1>4. BidsLeave(erased, OrderCurrency(oid), Mart, 0, pays)
  BY <1>1, <1>2, <1>3 DEF BidsLeave
<1> QED BY <1>2, <1>3, <1>4 DEF OwnRefunds

\* A bid withdrawn, open order or not, is refunded in some currency of its symbol.
LEMMA CancelBidRefunds ==
    ASSUME NEW u \in Users, NEW bid, IInv, cancelbid(u, bid)
    PROVE  /\ bid \in DOMAIN buyerbids
           /\ \E c \in Currencies : /\ \E p : BidsLeave({bid}, c, Mart, 0, p)
                                    /\ c.symbol = buyerbids[bid].symbol
<1> DEFINE row == buyerbids[bid]
           cur == Currency(_get_order_extension(row.sell_order_id).asset_contract, row.symbol)
           gone == {bid}
           pays == PayOne(Accounts, u, row.frozen)
<1>1. /\ bid \in DOMAIN buyerbids
      /\ MoneyMoves(cur, Mart, 0, pays)
      /\ buyerbids' = Erase(buyerbids, gone) /\ paidIn' = Erase(paidIn, gone)
  BY DEF cancelbid
<1>2. /\ row.frozen \in Nat /\ GlobalsOK /\ TablesOK /\ paidIn[bid] \in Currencies
  <2>1. row \in BidRow /\ GlobalsOK /\ TablesOK /\ paidIn[bid] \in Currencies
    BY <1>1 DEF IInv, BookInv, TablesOK, IsTable
  <2> QED BY <2>1 DEF BidRow
<1>3. cur \in Currencies /\ cur.symbol = row.symbol
  BY <1>1 DEF MoneyMoves, Currency
<1>4. gone \in SUBSET DOMAIN buyerbids
  BY <1>1
<1>5. Frozen(gone) = row.frozen
  <2> DEFINE w == FrozenMoney
  <2>1. w[bid] = row.frozen
    BY <1>1 DEF FrozenMoney
  <2>2. Frozen(gone) = Sum(w, gone) /\ IsFiniteSet(gone)
    BY <1>2, <1>4, FrozenIsSum
  <2> HIDE DEF w, row
  <2>3. Sum(w, gone) = w[bid]
    <3>1. bid \in gone /\ \A y \in gone \ {bid} : w[y] = 0
      OBVIOUS
    <3>2. w[bid] \in Int
      BY <1>2, <2>1
    <3> HIDE DEF gone
    <3> QED BY <2>2, <3>1, <3>2, SumSingle
  <2> QED BY <2>1, <2>2, <2>3
<1>6. Pays(pays, 0 + Frozen(gone)) /\ Mart \in Accounts
  <2>1. Pays(pays, row.frozen)
    BY <1>2, PaysOne
  <2>2. 0 + Frozen(gone) = row.frozen
    BY <1>2, <1>5
  <2> QED BY <2>1, <2>2 DEF Accounts
<1> HIDE DEF pays, gone, cur
<1>7. BidsLeave(gone, cur, Mart, 0, pays)
  BY <1>1, <1>4, <1>6 DEF BidsLeave
<1> QED BY <1>1, <1>3, <1>7 DEF gone, row

\* Where one symbol is one token contract, that is the currency the bid was paid in.
LEMMA CancelBidOwn ==
    ASSUME NEW u \in Users, NEW bid, IInv, MoneyInv, OneBankPerSymbol, cancelbid(u, bid)
    PROVE  OwnRefunds
<1>1. /\ bid \in DOMAIN buyerbids /\ Mart \in Accounts
      /\ paidIn[bid] \in Currencies /\ paidIn[bid].symbol = buyerbids[bid].symbol
  BY CancelBidRefunds DEF MoneyInv, SymbolsKept, IInv, BookInv, TablesOK, IsTable, Accounts
<1>0. PICK c \in Currencies : /\ \E p : BidsLeave({bid}, c, Mart, 0, p)
                              /\ c.symbol = buyerbids[bid].symbol
  BY CancelBidRefunds
<1>2. PICK p : BidsLeave({bid}, c, Mart, 0, p)
  BY <1>0
<1>3. \A b \in {bid} : paidIn[b] = c
  BY <1>0, <1>1 DEF OneBankPerSymbol
<1> QED BY <1>1, <1>2, <1>3 DEF OwnRefunds

\* An order withdrawn: the bids refunded are the ones erased.
LEMMA CancelOrderRefunds ==
    ASSUME NEW u \in Users, NEW oid, IInv, cancelorder(u, oid)
    PROVE  OwnRefunds
<1> DEFINE gone == _refund_buyer_bid(oid, 0)
           pays == RefundPay(gone)
           cur == OrderCurrency(oid)
<1>1. /\ oid \in DOMAIN sellorders
      /\ buyerbids' = Erase(buyerbids, gone) /\ paidIn' = Erase(paidIn, gone)
      /\ MoneyMoves(cur, Mart, 0, pays)
  BY DEF cancelorder, TakeFromOrder
<1>2. gone \in SUBSET DOMAIN buyerbids /\ \A b \in gone : paidIn[b] = cur
  BY <1>1, RefundedInOrderCurrency
<1>3. GlobalsOK /\ TablesOK
  BY DEF IInv, BookInv
<1> HIDE DEF gone
<1>4. Pays(pays, Frozen(gone)) /\ Frozen(gone) \in Nat
  BY <1>2, <1>3, RefundsPay, FrozenIsSum
<1>5. Pays(pays, 0 + Frozen(gone)) /\ Mart \in Accounts
  <2>1. 0 + Frozen(gone) = Frozen(gone)
    BY <1>4
  <2> QED BY <1>4, <2>1 DEF Accounts
<1> HIDE DEF pays, cur
<1>6. BidsLeave(gone, cur, Mart, 0, pays) /\ cur \in Currencies
  BY <1>1, <1>2, <1>5 DEF BidsLeave, MoneyMoves
<1> QED BY <1>2, <1>5, <1>6 DEF OwnRefunds

\* Every transaction keeps the money of the bids in the market.
LEMMA StepMoney ==
    ASSUME OneBankPerSymbol, AmountsFit
    PROVE  IInv /\ CustodyInv /\ MoneyInv /\ [Next]_vars => MoneyInv'
<1> SUFFICES ASSUME IInv, CustodyInv, MoneyInv, [Next]_vars PROVE MoneyInv'
  OBVIOUS
<1>0. UNCHANGED <<buyerbids, paidIn, money>> => MoneyInv'
  BY DEF MoneyInv, Solvent, SymbolsKept, Frozen, BidsIn
<1>1. CASE Configure \/ UNCHANGED vars
  BY <1>0, <1>1 DEF Configure, init, setfeecollec, addcoinconf, addnftconf, tables, vars
<1>2. CASE Sell
  BY <1>0, <1>2 DEF Sell, _sell_transfer
<1>3. CASE Buy
  <2>1. PICK u \in Users, c \in Currencies, q \in Payments, p \in Prices,
             oid \in DOMAIN sellorders : _buy_transfer(u, c, q, oid, p)
    BY <1>3 DEF Buy
  <2>2. CASE BuyNow(u, c, q, oid, p)
    BY <2>2, BuyNowRefunds, EraseKeepsMoney
  <2>3. CASE PlaceBid(u, c, q, oid, p)
    BY <2>3, PlaceBidKeepsMoney
  <2> QED BY <2>1, <2>2, <2>3 DEF _buy_transfer
<1>4. CASE Close
  <2>1. ASSUME NEW u \in Users, NEW b \in BidIds, takebuybid(u, b) PROVE MoneyInv'
    BY <2>1, TakeBidRefunds, EraseKeepsMoney
  <2>2. ASSUME NEW u \in Users, NEW b \in BidIds, cancelbid(u, b) PROVE MoneyInv'
    BY <2>2, CancelBidOwn, EraseKeepsMoney
  <2>3. ASSUME NEW u \in Users, NEW o \in OrderIds, cancelorder(u, o) PROVE MoneyInv'
    BY <2>3, CancelOrderRefunds, EraseKeepsMoney
  <2>4. ASSUME NEW u \in Users, NEW n \in Nfts, cancelorder_all(u, n.id) PROVE MoneyInv'
    BY <1>0, <2>4 DEF cancelorder_all, vars
  <2> QED BY <1>4, <2>1, <2>2, <2>3, <2>4 DEF Close
<1> QED BY <1>1, <1>2, <1>3, <1>4 DEF Next

\* No bids and no money at first.
LEMMA InitMoney == Init => MoneyInv
<1> SUFFICES ASSUME Init PROVE MoneyInv
  OBVIOUS
<1>1. buyerbids = EmptyTable /\ paidIn = EmptyTable /\ money = FirstMoney
  BY DEF Init
<1>2. DOMAIN buyerbids = {}
  BY <1>1 DEF EmptyTable
<1>3. Solvent
  <2> SUFFICES ASSUME NEW c \in Currencies PROVE money[Mart][c] = Frozen(BidsIn(c))
    BY DEF Solvent
  <2> DEFINE v == [b \in BidsIn(c) |-> buyerbids[b].frozen]
  <2>1. DOMAIN v = {}
    BY <1>2 DEF BidsIn
  <2>2. Frozen(BidsIn(c)) = SumFunction(v)
    BY DEF Frozen
  <2> HIDE DEF v
  <2>3. SumFunction(v) = 0
    BY <2>1, SumFunctionIsSum, SumEmpty
  <2> QED BY <1>1, <2>2, <2>3, MarketStartsEmpty
<1>4. SymbolsKept
  BY <1>2 DEF SymbolsKept
<1> QED BY <1>3, <1>4 DEF MoneyInv

\* In every currency the market holds exactly what its resting bids froze, those
\* left behind by closed orders included: where a symbol names one token contract
\* and no product wraps, no deal, refund or cancellation pays out of a stranger's bid.
THEOREM MarketIsSolvent ==
    ASSUME OneBankPerSymbol, AmountsFit
    PROVE  Spec => []Solvent
<1>1. IInv /\ CustodyInv /\ MoneyInv /\ [Next]_vars => IInv' /\ CustodyInv' /\ MoneyInv'
  BY StepInv, StepCustody, StepMoney
<1>2. Init => IInv /\ CustodyInv /\ MoneyInv
  BY InitInv, InitCustody, InitMoney
<1>3. MoneyInv => Solvent
  BY DEF MoneyInv
<1> QED BY <1>1, <1>2, <1>3, PTL DEF Spec
------------------------------------------------------------------------------
(* Symbol by symbol the market is solvent whatever contracts share a symbol *)

Symbols == {c.symbol : c \in Currencies}
InSymbol(s) == {c \in Currencies : c.symbol = s}
BidsOf(s) == {b \in DOMAIN buyerbids : buyerbids[b].symbol = s}

\* What the market has of a symbol, in all token contracts together.
HeldOf == [s \in Symbols |-> SumFunction([c \in InSymbol(s) |-> money[Mart][c]])]
SolventBySymbol == \A s \in Symbols : HeldOf[s] = Frozen(BidsOf(s))

SymbolInv == SymbolsKept /\ SolventBySymbol

\* A payment in and a batch out move what is held of one symbol.
LEMMA SymbolMoves ==
    ASSUME IsFiniteSet(Currencies), NEW c \in Currencies, NEW from, NEW quant, NEW p, NEW total,
           NEW s \in Symbols, Settles(c, from, quant, p, total)
    PROVE  /\ HeldOf'[s] = HeldOf[s] + (IF c.symbol = s THEN quant - total ELSE 0)
           /\ HeldOf[s] \in Int /\ quant \in Int /\ total \in Int
<1> DEFINE S == InSymbol(s)
           old == [d \in S |-> money[Mart][d]]
           new == [d \in S |-> money'[Mart][d]]
<1>1. /\ HeldOf[s] = SumFunction(old) /\ HeldOf'[s] = SumFunction(new)
      /\ DOMAIN old = S /\ DOMAIN new = S /\ S \in SUBSET Currencies
      /\ c \in S <=> c.symbol = s
  BY DEF HeldOf, InSymbol
<1>2. IsFiniteSet(S)
  BY <1>1, FS_Subset
<1>3. /\ quant \in Int /\ total \in Int
      /\ \A d \in S : old[d] \in Int /\ money[Mart][d] \in Int
  BY <1>1 DEF Settles, BalancesOK, Accounts
<1>4. /\ \A d \in S \ {c} : new[d] = old[d]
      /\ c \in S => new[c] = old[c] + (quant - total)
  <2>1. ASSUME NEW d \in S
        PROVE  money'[Mart][d] = IF d = c THEN money[Mart][d] + quant - total
                                          ELSE money[Mart][d]
    <3>1. d \in Currencies
      BY <1>1
    <3> QED BY <3>1, MoneyMovesMart
  <2>2. \A i \in Int : i + quant - total = i + (quant - total)
    BY <1>3
  <2> QED BY <1>1, <1>3, <2>1, <2>2
<1>5. SumFunction(old) = Sum(old, S) /\ SumFunction(new) = Sum(new, S)
  <2> HIDE DEF old, new, S
  <2> QED BY <1>1, SumFunctionIsSum
<1> HIDE DEF old, new, S
<1>6. Sum(old, S) \in Int
  <2>1. S \in SUBSET S
    OBVIOUS
  <2> QED BY <1>2, <1>3, <2>1, SumInt
<1>7. CASE c \in S
  <2>1. old[c] \in Int /\ new[c] \in Int
    BY <1>3, <1>4, <1>7
  <2>2. Sum(new, S) = Sum(old, S) - old[c] + new[c]
    BY <1>2, <1>3, <1>4, <1>7, <2>1, SumUpdate
  <2>3. Sum(new, S) = Sum(old, S) + (quant - total)
    BY <1>3, <1>4, <1>6, <1>7, <2>1, <2>2
  <2> QED BY <1>1, <1>3, <1>5, <1>6, <1>7, <2>3
<1>8. CASE c \notin S
  <2>1. \A d \in S : new[d] = old[d]
    BY <1>4, <1>8
  <2>2. Sum(new, S) = Sum(old, S)
    BY <1>2, <2>1, SumSame
  <2> QED BY <1>1, <1>3, <1>5, <1>6, <1>8, <2>2
<1> QED BY <1>7, <1>8

\* Erasing bids of one symbol changes what is frozen in it.
LEMMA SymbolErased ==
    ASSUME NEW gone, NEW t, NEW s, GlobalsOK, TablesOK,
           gone \in SUBSET DOMAIN buyerbids, \A b \in gone : buyerbids[b].symbol = t,
           buyerbids' = Erase(buyerbids, gone)
    PROVE  /\ Frozen(BidsOf(s))' = Frozen(BidsOf(s)) - (IF s = t THEN Frozen(gone) ELSE 0)
           /\ Frozen(BidsOf(s)) \in Int /\ Frozen(gone) \in Int
<1> DEFINE B == BidsOf(s)
           Q == B \ gone
<1>1. B \in SUBSET DOMAIN buyerbids
  BY DEF BidsOf
<1>2. BidsOf(s)' = Q
  BY DEF BidsOf, Erase
<1>3. Frozen(BidsOf(s))' = SumFunction([x \in Q |-> buyerbids'[x].frozen])
  BY <1>2 DEF Frozen
<1>4. B \cap gone = IF s = t THEN gone ELSE {}
  BY DEF BidsOf
<1> HIDE DEF B
<1>5. SumFunction([x \in Q |-> buyerbids'[x].frozen]) = Frozen(B) - Frozen(B \cap gone)
  BY <1>1, EraseFrozen
<1>6. Frozen(B) \in Nat /\ Frozen(gone) \in Nat
  BY <1>1, FrozenIsSum
<1>7. Frozen({}) = 0
  <2>1. {} \in SUBSET DOMAIN buyerbids
    OBVIOUS
  <2>2. Frozen({}) = Sum(FrozenMoney, {})
    BY <2>1, FrozenIsSum
  <2> QED BY <2>2, SumEmpty
<1>8. Frozen(B \cap gone) = IF s = t THEN Frozen(gone) ELSE 0
  BY <1>4, <1>7
<1> HIDE DEF Q
<1>9. Frozen(BidsOf(s))' = Frozen(B) - (IF s = t THEN Frozen(gone) ELSE 0)
  BY <1>3, <1>5, <1>8
<1> QED BY <1>6, <1>9 DEF B

\* Refunds out of any contract of the bids' symbol keep the symbol whole.
LEMMA RefundsKeepSymbols ==
    ASSUME IsFiniteSet(Currencies), IInv, SymbolInv,
           NEW gone, NEW c \in Currencies, NEW from, NEW quant, NEW p,
           BidsLeave(gone, c, from, quant, p), \A b \in gone : buyerbids[b].symbol = c.symbol
    PROVE  SymbolInv'
<1>1. GlobalsOK /\ TablesOK /\ BalancesOK
  BY DEF IInv, BookInv
<1>2. /\ gone \in SUBSET DOMAIN buyerbids
      /\ buyerbids' = Erase(buyerbids, gone) /\ paidIn' = Erase(paidIn, gone)
      /\ from \in Accounts /\ quant \in Nat
      /\ from = Mart => quant = 0
      /\ MoneyMoves(c, from, quant, p) /\ Pays(p, quant + Frozen(gone))
  BY DEF BidsLeave
<1>3. SymbolsKept'
  BY <1>1, <1>2 DEF SymbolInv, SymbolsKept, Erase, TablesOK
<1>4. ASSUME NEW s \in Symbols PROVE HeldOf'[s] = Frozen(BidsOf(s))'
  <2> DEFINE old == Frozen(BidsOf(s))
             new == Frozen(BidsOf(s))'
             total == quant + Frozen(gone)
  <2>1. /\ new = old - (IF s = c.symbol THEN Frozen(gone) ELSE 0)
        /\ old \in Int /\ Frozen(gone) \in Int
    BY <1>1, <1>2, SymbolErased
  <2>2. HeldOf[s] = old
    BY DEF SymbolInv, SolventBySymbol
  <2>3. total \in Int /\ Pays(p, total)
    BY <1>2, <2>1
  <2>4. total = quant + Frozen(gone)
    OBVIOUS
  <2> HIDE DEF old, new, total
  <2>5. Settles(c, from, quant, p, total)
    BY <1>1, <1>2, <2>3 DEF Settles
  <2>6. /\ HeldOf'[s] = HeldOf[s] + (IF c.symbol = s THEN quant - total ELSE 0)
        /\ HeldOf[s] \in Int /\ quant \in Int
    BY <2>5, SymbolMoves
  <2>7. \A i, j, k \in Int : i + (k - (k + j)) = i - j
    OBVIOUS
  <2>8. HeldOf'[s] = new
    BY <2>1, <2>2, <2>4, <2>6, <2>7
  <2> QED BY <2>8 DEF new
<1>5. SolventBySymbol'
  BY <1>4 DEF SolventBySymbol
<1> QED BY <1>3, <1>5 DEF SymbolInv

\* A resting bid keeps in the market what it records, in the symbol it records.
LEMMA PlaceBidKeepsSymbols ==
    ASSUME IsFiniteSet(Currencies),
           NEW u \in Users, NEW c \in Currencies, NEW q \in Payments,
           NEW oid \in DOMAIN sellorders, NEW p \in Prices,
           IInv, SymbolInv, PlaceBid(u, c, q, oid, p)
    PROVE  SymbolInv'
<1> DEFINE bid == gstate.last_deal_idx + 1
           frozen == BidFrozen(q, p)
           rest == q - (q \div p) * p
           row == [sell_order_id |-> oid, price |-> p, symbol |-> c.symbol,
                   frozen |-> frozen, buyer |-> u]
           pay == PayOne(Accounts, u, rest)
<1>1. /\ buyerbids' = Emplace(buyerbids, bid, row)
      /\ paidIn' = Emplace(paidIn, bid, c)
      /\ MoneyMoves(c, u, q, pay)
  BY DEF PlaceBid
<1>2. /\ bid \notin DOMAIN buyerbids /\ DOMAIN paidIn = DOMAIN buyerbids
      /\ GlobalsOK /\ TablesOK /\ BalancesOK
  <2>1. gstate.last_deal_idx \in Nat
    BY DEF IInv, GlobalsOK
  <2> QED BY <2>1 DEF IInv, BookInv, TablesOK, IsTable
<1>3. frozen \in Nat /\ frozen + rest = q /\ rest \in Int /\ q \in Nat
  <2>1. q \in Nat /\ p \in Nat \ {0}
    BY InputsAreNaturals
  <2>2. q \div p \in Nat
    BY <2>1, Quotient
  <2>3. (q \div p) * p \in Nat
    BY <2>1, <2>2
  <2> QED BY <2>1, <2>3 DEF BidFrozen
<1>4. row.symbol = c.symbol /\ row.frozen = frozen
  OBVIOUS
<1> HIDE DEF bid, frozen, rest, row
<1>5. /\ DOMAIN buyerbids' = DOMAIN buyerbids \cup {bid}
      /\ buyerbids'[bid] = row /\ paidIn'[bid] = c
      /\ \A b \in DOMAIN buyerbids :
            b # bid /\ buyerbids'[b] = buyerbids[b] /\ paidIn'[b] = paidIn[b]
  BY <1>1, <1>2 DEF Emplace
<1>6. SymbolsKept'
  BY <1>4, <1>5 DEF SymbolInv, SymbolsKept
<1>7. Pays(pay, rest) /\ u \in Accounts /\ u # Mart
  BY <1>3, PaysOne, AccountsDistinct DEF Accounts
<1> HIDE DEF pay
<1>8. Settles(c, u, q, pay, rest)
  BY <1>1, <1>2, <1>3, <1>7 DEF Settles
<1>9. ASSUME NEW s \in Symbols PROVE HeldOf'[s] = Frozen(BidsOf(s))'
  <2> DEFINE B == BidsOf(s)
             Q == BidsOf(s)'
             new == [x \in Q |-> buyerbids'[x].frozen]
             w == FrozenMoney
  <2>1. /\ Frozen(B) = Sum(w, B) /\ Frozen(B) \in Nat /\ IsFiniteSet(B)
        /\ \A x \in B : w[x] \in Int /\ w[x] = buyerbids[x].frozen
        /\ HeldOf[s] = Frozen(B)
    <3>1. B \in SUBSET DOMAIN buyerbids
      BY DEF BidsOf
    <3> QED BY <1>2, <3>1, FrozenIsSum DEF FrozenMoney, SymbolInv, SolventBySymbol
  <2>2. Q = IF c.symbol = s THEN B \cup {bid} ELSE B
    BY <1>4, <1>5 DEF BidsOf
  <2>3. bid \notin B /\ \A x \in B : buyerbids'[x].frozen = w[x]
    BY <1>2, <1>5, <2>1 DEF BidsOf
  <2>4. /\ Frozen(BidsOf(s))' = SumFunction(new)
        /\ DOMAIN new = Q
        /\ \A x \in B : new[x] = w[x]
        /\ c.symbol = s => new[bid] = frozen
    BY <1>4, <1>5, <2>2, <2>3 DEF Frozen
  <2>5. HeldOf'[s] = HeldOf[s] + (IF c.symbol = s THEN q - rest ELSE 0)
    BY <1>8, SymbolMoves
  <2> HIDE DEF B, Q, new, w
  <2>6. Sum(new, B) = Sum(w, B)
    BY <2>1, <2>4, SumSame
  <2>7. SumFunction(new) = Sum(new, Q)
    BY <2>4, SumFunctionIsSum
  <2>8. CASE c.symbol = s
    <3>1. \A x \in B \cup {bid} : new[x] \in Int
      BY <1>3, <2>1, <2>4, <2>8
    <3>2. Sum(new, B \cup {bid}) = new[bid] + Sum(new, B)
      BY <2>1, <2>3, <3>1, SumAdd
    <3>3. HeldOf'[s] = Frozen(B) + (q - rest)
      BY <2>1, <2>5, <2>8
    <3>4. Frozen(B) + (q - rest) = frozen + Frozen(B)
      BY <1>3, <2>1
    <3> QED BY <2>1, <2>2, <2>4, <2>6, <2>7, <2>8, <3>2, <3>3, <3>4
  <2>9. CASE c.symbol # s
    <3>1. HeldOf'[s] = Frozen(B) + 0
      BY <2>1, <2>5, <2>9
    <3>2. HeldOf'[s] = Frozen(B)
      BY <2>1, <3>1
    <3> QED BY <2>1, <2>2, <2>4, <2>6, <2>7, <2>9, <3>2
  <2> QED BY <2>8, <2>9
<1>10. SolventBySymbol'
  BY <1>9 DEF SolventBySymbol
<1> QED BY <1>6, <1>10 DEF SymbolInv

\* Refunds in the bids' own currency are refunds in their symbol.
LEMMA OwnRefundsKeepSymbols ==
    ASSUME IsFiniteSet(Currencies), IInv, SymbolInv, OwnRefunds
    PROVE  SymbolInv'
<1>0. PICK c \in Currencies, from \in Accounts, quant \in Nat :
          \E gone, p : BidsLeave(gone, c, from, quant, p) /\ \A b \in gone : paidIn[b] = c
  BY DEF OwnRefunds
<1>1. PICK gone, p : BidsLeave(gone, c, from, quant, p) /\ \A b \in gone : paidIn[b] = c
  BY <1>0
<1>2. \A b \in gone : buyerbids[b].symbol = c.symbol
  BY <1>1 DEF BidsLeave, SymbolInv, SymbolsKept
<1> QED BY <1>1, <1>2, RefundsKeepSymbols

\* Every transaction keeps every symbol whole.
LEMMA StepSymbols ==
    ASSUME IsFiniteSet(Currencies), AmountsFit
    PROVE  IInv /\ CustodyInv /\ SymbolInv /\ [Next]_vars => SymbolInv'
<1> SUFFICES ASSUME IInv, CustodyInv, SymbolInv, [Next]_vars PROVE SymbolInv'
  OBVIOUS
<1>0. UNCHANGED <<buyerbids, paidIn, money>> => SymbolInv'
  BY DEF SymbolInv, SolventBySymbol, SymbolsKept, HeldOf, Frozen, BidsOf
<1>1. CASE Configure \/ UNCHANGED vars
  BY <1>0, <1>1 DEF Configure, init, setfeecollec, addcoinconf, addnftconf, tables, vars
<1>2. CASE Sell
  BY <1>0, <1>2 DEF Sell, _sell_transfer
<1>3. CASE Buy
  <2>1. PICK u \in Users, c \in Currencies, q \in Payments, p \in Prices,
             oid \in DOMAIN sellorders : _buy_transfer(u, c, q, oid, p)
    BY <1>3 DEF Buy
  <2>2. CASE BuyNow(u, c, q, oid, p)
    BY <2>2, BuyNowRefunds, OwnRefundsKeepSymbols
  <2>3. CASE PlaceBid(u, c, q, oid, p)
    BY <2>3, PlaceBidKeepsSymbols
  <2> QED BY <2>1, <2>2, <2>3 DEF _buy_transfer
<1>4. CASE Close
  <2>1. ASSUME NEW u \in Users, NEW b \in BidIds, takebuybid(u, b) PROVE SymbolInv'
    BY <2>1, TakeBidRefunds, OwnRefundsKeepSymbols
  <2>2. ASSUME NEW u \in Users, NEW b \in BidIds, cancelbid(u, b) PROVE SymbolInv'
    <3>1. PICK c \in Currencies : /\ \E p : BidsLeave({b}, c, Mart, 0, p)
                                  /\ c.symbol = buyerbids[b].symbol
      BY <2>2, CancelBidRefunds
    <3>2. PICK p : BidsLeave({b}, c, Mart, 0, p)
      BY <3>1
    <3>3. \A x \in {b} : buyerbids[x].symbol = c.symbol
      BY <3>1
    <3> QED BY <3>2, <3>3, RefundsKeepSymbols
  <2>3. ASSUME NEW u \in Users, NEW o \in OrderIds, cancelorder(u, o) PROVE SymbolInv'
    BY <2>3, CancelOrderRefunds, OwnRefundsKeepSymbols
  <2>4. ASSUME NEW u \in Users, NEW n \in Nfts, cancelorder_all(u, n.id) PROVE SymbolInv'
    BY <1>0, <2>4 DEF cancelorder_all, vars
  <2> QED BY <1>4, <2>1, <2>2, <2>3, <2>4 DEF Close
<1> QED BY <1>1, <1>2, <1>3, <1>4 DEF Next

\* No bids and no money at first.
LEMMA InitSymbols ==
    ASSUME IsFiniteSet(Currencies), Init
    PROVE  SymbolInv
<1>1. buyerbids = EmptyTable /\ paidIn = EmptyTable /\ money = FirstMoney
  BY DEF Init
<1>2. DOMAIN buyerbids = {}
  BY <1>1 DEF EmptyTable
<1>3. ASSUME NEW s \in Symbols PROVE HeldOf[s] = Frozen(BidsOf(s))
  <2> DEFINE v == [b \in BidsOf(s) |-> buyerbids[b].frozen]
             S == InSymbol(s)
             h == [c \in S |-> money[Mart][c]]
  <2>1. DOMAIN v = {} /\ DOMAIN h = S /\ S \in SUBSET Currencies
    BY <1>2 DEF BidsOf, InSymbol
  <2>2. Frozen(BidsOf(s)) = SumFunction(v) /\ HeldOf[s] = SumFunction(h)
    BY DEF Frozen, HeldOf
  <2>3. IsFiniteSet(S) /\ \A c \in S : h[c] = 0
    BY <1>1, <2>1, FS_Subset, MarketStartsEmpty
  <2> HIDE DEF v, h, S
  <2>4. SumFunction(v) = 0
    BY <2>1, SumFunctionIsSum, SumEmpty
  <2>5. SumFunction(h) = 0
    BY <2>1, <2>3, SumFunctionIsSum, SumZero
  <2> QED BY <2>2, <2>4, <2>5
<1>4. SymbolsKept
  BY <1>2 DEF SymbolsKept
<1> QED BY <1>3, <1>4 DEF SymbolInv, SolventBySymbol

\* With any number of token contracts that share a symbol: what the market has of the
\* symbol, over all of them, is exactly what the resting bids froze.  A refund out of the
\* wrong contract (nftone.mart.cpp:537) may empty one of them, and leaves as much in another.
THEOREM SymbolsAreSolvent ==
    ASSUME IsFiniteSet(Currencies), AmountsFit
    PROVE  Spec => []SolventBySymbol
<1>1. IInv /\ CustodyInv /\ SymbolInv /\ [Next]_vars => IInv' /\ CustodyInv' /\ SymbolInv'
  BY StepInv, StepCustody, StepSymbols
<1>2. Init => IInv /\ CustodyInv /\ SymbolInv
  BY InitInv, InitCustody, InitSymbols
<1>3. SymbolInv => SolventBySymbol
  BY DEF SymbolInv
<1> QED BY <1>1, <1>2, <1>3, PTL DEF Spec
------------------------------------------------------------------------------
(* Every transaction is one sale or trades nothing *)

Traders == Users \cup {SPLIT_CONTRACT}

\* What an account that holds orders or bids has in them.
OrdersBy(u, n) == {oid \in OrdersOf(n) : sellorders[oid].maker = u}
BidsBy(a, c) == {b \in BidsIn(c) : buyerbids[b].buyer = a}

\* What some bids hold for an account.
HeldFor(a, B) == Frozen({b \in B : buyerbids[b].buyer = a})

\* An amount that goes to one account.
For(a, b, amount) == IF a = b THEN amount ELSE 0

\* A seller's holding is what it has and what it has listed.
LEMMA HoldingIs ==
    ASSUME IInv, NEW u \in Users, NEW n \in Nfts
    PROVE  /\ Holding(u, n) = nft[u][n] + Listed(OrdersBy(u, n))
           /\ nft[u][n] \in Nat /\ Listed(OrdersBy(u, n)) \in Nat
           /\ OrdersBy(u, n) \in SUBSET DOMAIN sellorders
           /\ \A oid \in OrdersBy(u, n) : sellorders[oid].frozen <= Listed(OrdersBy(u, n))
<1> DEFINE O == OrdersBy(u, n)
           w == FrozenNfts
<1>1. O \in SUBSET DOMAIN sellorders /\ GlobalsOK /\ TablesOK
  BY DEF OrdersBy, OrdersOf, IInv, BookInv
<1>2. nft[u][n] \in Nat
  BY DEF IInv, BalancesOK, Accounts
<1>3. Holding(u, n) = nft[u][n] + Listed(O)
  BY DEF Holding, OrdersBy
<1>4. \A oid \in DOMAIN sellorders : w[oid] = sellorders[oid].frozen
  BY DEF FrozenNfts
<1> HIDE DEF O, w
<1>5. /\ Listed(O) = Sum(w, O) /\ Listed(O) \in Nat /\ IsFiniteSet(O)
      /\ \A x \in O : w[x] \in Nat
  BY <1>1, ListedIsSum DEF w
<1>6. \A x \in O : w[x] <= Sum(w, O)
  BY <1>5, SumCovers
<1>7. \A x \in O : sellorders[x].frozen <= Listed(O)
  BY <1>1, <1>4, <1>5, <1>6
<1> QED BY <1>1, <1>2, <1>3, <1>5, <1>7 DEF O

\* A trader's worth is what it has and what its bids froze.
LEMMA WorthIs ==
    ASSUME IInv, NEW a \in Traders, NEW c \in Currencies
    PROVE  /\ Worth(a, c) = money[a][c] + Frozen(BidsBy(a, c))
           /\ money[a][c] \in Nat /\ Frozen(BidsBy(a, c)) \in Nat
           /\ BidsBy(a, c) \in SUBSET DOMAIN buyerbids
           /\ \A b \in BidsBy(a, c) : buyerbids[b].frozen <= Frozen(BidsBy(a, c))
<1> DEFINE B == BidsBy(a, c)
           w == FrozenMoney
<1>1. B \in SUBSET DOMAIN buyerbids /\ GlobalsOK /\ TablesOK
  BY DEF BidsBy, BidsIn, IInv, BookInv
<1>2. money[a][c] \in Nat
  BY DEF IInv, BalancesOK, Accounts, Traders
<1>3. Worth(a, c) = money[a][c] + Frozen(B)
  BY DEF Worth, BidsBy
<1>4. \A b \in DOMAIN buyerbids : w[b] = buyerbids[b].frozen
  BY DEF FrozenMoney
<1> HIDE DEF B, w
<1>5. /\ Frozen(B) = Sum(w, B) /\ Frozen(B) \in Nat /\ IsFiniteSet(B)
      /\ \A x \in B : w[x] \in Nat
  BY <1>1, FrozenIsSum DEF w
<1>6. \A x \in B : w[x] <= Sum(w, B)
  BY <1>5, SumCovers
<1>7. \A x \in B : buyerbids[x].frozen <= Frozen(B)
  BY <1>1, <1>4, <1>5, <1>6
<1> QED BY <1>1, <1>2, <1>3, <1>5, <1>7 DEF B

\* NFTs out of an order: the maker's holding shrinks and the receiver's grows by them.
LEMMA TakeMovesHolding ==
    ASSUME IInv, NEW oid \in DOMAIN sellorders, NEW sold \in Nat, NEW gone, NEW to \in Users,
           sold <= sellorders[oid].frozen, TakeFromOrder(oid, sold, gone),
           NftMoves(OrderNft(oid), Mart, to, sold),
           NEW u \in Users, NEW n \in Nfts
    PROVE  Holding(u, n)' = Holding(u, n)
               + (IF n = OrderNft(oid)
                  THEN For(u, to, sold) - For(u, sellorders[oid].maker, sold) ELSE 0)
<1> DEFINE nn == OrderNft(oid)
           maker == sellorders[oid].maker
           O == OrdersBy(u, n)
           Q == O \cap DOMAIN sellorders'
<1>1. /\ DOMAIN sellorders' \subseteq DOMAIN sellorders
      /\ \A x \in DOMAIN sellorders' :
            OrderNft(x)' = OrderNft(x) /\ sellorders'[x].maker = sellorders[x].maker
  BY TakeKeepsOrders DEF IInv
<1>2. {x \in OrdersOf(n) : sellorders[x].maker = u}' = Q
  BY <1>1 DEF OrdersOf, OrdersBy
<1>3. Holding(u, n)' = nft'[u][n] + SumFunction([x \in Q |-> sellorders'[x].frozen])
  BY <1>2 DEF Holding, Listed
<1>4. oid \in O <=> nn = n /\ maker = u
  BY DEF OrdersBy, OrdersOf
<1>5. /\ O \in SUBSET DOMAIN sellorders /\ GlobalsOK /\ TablesOK /\ BalancesOK
      /\ Holding(u, n) = nft[u][n] + Listed(O)
      /\ nft[u][n] \in Nat /\ Listed(O) \in Nat
  BY HoldingIs DEF IInv, BookInv
<1> HIDE DEF O
<1>6. SumFunction([x \in Q |-> sellorders'[x].frozen])
          = Listed(O) - (IF oid \in O THEN sold ELSE 0)
  BY <1>5, TakeListed
<1>7. nft'[u][n] = nft[u][n] + (IF n = nn THEN For(u, to, sold) ELSE 0)
  <2>1. /\ Mart \in Accounts /\ to \in Accounts /\ u \in Accounts /\ Mart # to /\ u # Mart
        /\ NftMoves(nn, Mart, to, sold)
    BY AccountsDistinct DEF Accounts
  <2> HIDE DEF nn
  <2>2. /\ nft'[to][n] = nft[to][n] + (IF nn = n THEN sold ELSE 0)
        /\ \A a \in Accounts \ {Mart, to} : nft'[a][n] = nft[a][n]
    BY <1>5, <2>1, NftMovesBy
  <2>3. CASE u = to
    BY <2>2, <2>3 DEF For
  <2>4. CASE u # to
    <3>1. nft'[u][n] = nft[u][n]
      BY <2>1, <2>2, <2>4
    <3> QED BY <1>5, <2>4, <3>1 DEF For
  <2> QED BY <2>3, <2>4
<1> HIDE DEF Q, nn, maker
<1>8. CASE n = nn
  BY <1>3, <1>4, <1>5, <1>6, <1>7, <1>8 DEF For, nn, maker
<1>9. CASE n # nn
  BY <1>3, <1>4, <1>5, <1>6, <1>7, <1>9 DEF For, nn, maker
<1> QED BY <1>8, <1>9

\* Bids of one currency leave the book while `from` pays in and the market pays out.
Refunds(c, from, quant, p, gone) ==
    /\ from \in Accounts /\ quant \in Nat /\ (from = Mart => quant = 0)
    /\ p \in [Accounts -> Int]
    /\ gone \in SUBSET DOMAIN buyerbids /\ \A b \in gone : paidIn[b] = c
    /\ buyerbids' = Erase(buyerbids, gone) /\ paidIn' = Erase(paidIn, gone)
    /\ MoneyMoves(c, from, quant, p)

\* Money through the market while bids leave the book: a trader's worth changes by
\* what it is paid, less what it sends and less what those bids held for it.
LEMMA EraseMovesWorth ==
    ASSUME IInv, NEW c, NEW from, NEW quant, NEW p, NEW gone,
           Refunds(c, from, quant, p, gone), NEW a \in Traders, NEW d \in Currencies
    PROVE  /\ HeldFor(a, gone) \in Nat
           /\ Worth(a, d)' = Worth(a, d)
                  + (IF d = c THEN p[a] - For(a, from, quant) - HeldFor(a, gone) ELSE 0)
<1> DEFINE B == BidsBy(a, d)
           Q == B \ gone
           G == {b \in gone : buyerbids[b].buyer = a}
           held == HeldFor(a, gone)
<1>0. /\ from \in Accounts /\ quant \in Nat /\ (from = Mart => quant = 0)
      /\ p \in [Accounts -> Int]
      /\ gone \in SUBSET DOMAIN buyerbids /\ \A b \in gone : paidIn[b] = c
      /\ buyerbids' = Erase(buyerbids, gone) /\ paidIn' = Erase(paidIn, gone)
      /\ MoneyMoves(c, from, quant, p)
  BY DEF Refunds
<1>1. /\ GlobalsOK /\ TablesOK /\ BalancesOK /\ c \in Currencies
      /\ a \in Accounts /\ a # Mart
  BY <1>0, AccountsDistinct DEF IInv, BookInv, MoneyMoves, Traders, Accounts
<1>2. /\ Worth(a, d) = money[a][d] + Frozen(B)
      /\ money[a][d] \in Nat /\ Frozen(B) \in Nat /\ B \in SUBSET DOMAIN buyerbids
  BY WorthIs
<1>3. {b \in BidsIn(d) : buyerbids[b].buyer = a}' = Q
  <2>1. DOMAIN buyerbids' = DOMAIN buyerbids \ gone /\ DOMAIN buyerbids = DOMAIN paidIn
    BY <1>0, <1>1 DEF Erase, TablesOK
  <2>2. \A b \in DOMAIN buyerbids' : paidIn'[b] = paidIn[b] /\ buyerbids'[b] = buyerbids[b]
    BY <1>0, <2>1 DEF Erase
  <2> QED BY <2>1, <2>2 DEF BidsIn, BidsBy
<1>4. Worth(a, d)' = money'[a][d] + SumFunction([x \in Q |-> buyerbids'[x].frozen])
  BY <1>3 DEF Worth, Frozen
<1>5. B \cap gone = IF d = c THEN G ELSE {}
  BY <1>0, <1>1 DEF BidsBy, BidsIn, TablesOK
<1>6. Frozen(G) \in Nat /\ G \in SUBSET DOMAIN buyerbids
  <2>1. G \in SUBSET DOMAIN buyerbids
    BY <1>0
  <2> HIDE DEF G
  <2> QED BY <1>1, <2>1, FrozenIsSum
<1>7. Frozen({}) = 0
  <2>1. {} \in SUBSET DOMAIN buyerbids
    OBVIOUS
  <2>2. Frozen({}) = Sum(FrozenMoney, {})
    BY <1>1, <2>1, FrozenIsSum
  <2> QED BY <2>2, SumEmpty
<1>8. money'[a][d] = money[a][d] + (IF d = c THEN p[a] - For(a, from, quant) ELSE 0)
  <2> DEFINE new(x) == money[x][c] + p[x] + (IF x = Mart THEN quant - SumFunction(p) ELSE 0)
                                          - (IF x = from THEN quant ELSE 0)
  <2>1. /\ money' = [x \in Accounts |-> [money[x] EXCEPT ![c] = new(x)]]
        /\ money \in [Accounts -> [Currencies -> Nat]]
    BY <1>0, <1>1 DEF MoneyMoves, BalancesOK
  <2>2. new(a) = money[a][c] + p[a] + 0 - For(a, from, quant)
    BY <1>1 DEF For
  <2>3. money[a][c] \in Nat /\ p[a] \in Int /\ For(a, from, quant) \in Nat
    BY <1>0, <1>1, <2>1 DEF For
  <2> HIDE DEF new
  <2>4. money'[a][d] = IF d = c THEN new(a) ELSE money[a][d]
    BY <1>1, <2>1
  <2> QED BY <1>2, <2>2, <2>3, <2>4
<1>9. p[a] \in Int /\ For(a, from, quant) \in Nat
  BY <1>0, <1>1 DEF For
<1>10. held = Frozen(G)
  BY DEF HeldFor
<1> HIDE DEF B, G, held
<1>11. SumFunction([x \in Q |-> buyerbids'[x].frozen]) = Frozen(B) - Frozen(B \cap gone)
  BY <1>0, <1>1, <1>2, EraseFrozen
<1> HIDE DEF Q
<1>12. CASE d = c
  <2>1. Frozen(B \cap gone) = held
    BY <1>5, <1>10, <1>12
  <2>2. Worth(a, d)' = (money[a][d] + (p[a] - For(a, from, quant))) + (Frozen(B) - held)
    BY <1>4, <1>8, <1>11, <1>12, <2>1
  <2> QED BY <1>2, <1>6, <1>9, <1>10, <1>12, <2>2 DEF held
<1>13. CASE d # c
  <2>1. Frozen(B \cap gone) = 0
    BY <1>5, <1>7, <1>13
  <2>2. Worth(a, d)' = (money[a][d] + 0) + (Frozen(B) - 0)
    BY <1>4, <1>8, <1>11, <1>13, <2>1
  <2> QED BY <1>2, <1>6, <1>10, <1>13, <2>2 DEF held
<1> QED BY <1>12, <1>13

\* What a refund pays an account is what the refunded bids held for it.
LEMMA RefundIsHeld ==
    ASSUME NEW B, NEW a \in Accounts
    PROVE  RefundPay(B)[a] = HeldFor(a, B)
BY DEF RefundPay, HeldFor, Frozen

\* What a settlement pays an account.
LEMMA SettlementOf ==
    ASSUME NEW maker, NEW ipowner, NEW earned \in Nat, NEW a \in Accounts,
           NEW devfee, devfee = Fee(earned, gstate.dev_fee_rate),
           NEW ipfee, ipfee = IF ipowner = NoOwner THEN 0
                              ELSE Fee(earned, gstate.ipowner_fee_rate)
    PROVE  _settle_maker(maker, ipowner, earned)[a]
               = For(a, SPLIT_CONTRACT, devfee)
                     + (For(a, ipowner, ipfee) + For(a, maker, earned - devfee - ipfee))
<1>1. Positive(earned) = earned
  BY DEF Positive
<1> QED BY <1>1 DEF _settle_maker, PayBoth, PayOne, For

\* The two rates together stay below one, and every resting bid has a price that
\* a memo may carry.
RatesFit == gstate.dev_fee_rate + gstate.ipowner_fee_rate <= FeeScale
BidsPriced == \A b \in DOMAIN buyerbids : buyerbids[b].price \in Prices

TradeInv == RatesFit /\ BidsPriced

\* The two fees on an amount are no more than the amount.
LEMMA FeesFit ==
    ASSUME GlobalsOK, RatesFit, NEW gross \in Nat
    PROVE  /\ Fee(gross, gstate.dev_fee_rate) \in 0 .. gross
           /\ Fee(gross, gstate.ipowner_fee_rate) \in 0 .. gross
           /\ Fee(gross, gstate.dev_fee_rate) + Fee(gross, gstate.ipowner_fee_rate) <= gross
<1> DEFINE r == gstate.dev_fee_rate
           s == gstate.ipowner_fee_rate
           f == Fee(gross, r)
           g == Fee(gross, s)
<1>1. r \in Nat /\ s \in Nat /\ r + s <= FeeScale /\ FeeScale \in Nat \ {0}
  BY BoundsAreNaturals DEF GlobalsOK, RatesFit
<1> HIDE DEF r, s
<1>2. f \in Nat /\ f * FeeScale <= gross * r
  <2>1. gross * r \in Nat
    BY <1>1
  <2> QED BY <1>1, <2>1, Quotient DEF Fee
<1>3. g \in Nat /\ g * FeeScale <= gross * s
  <2>1. gross * s \in Nat
    BY <1>1
  <2> QED BY <1>1, <2>1, Quotient DEF Fee
<1> HIDE DEF f, g
<1>4. (f + g) * FeeScale <= gross * FeeScale
  <2>1. (r + s) * gross <= FeeScale * gross
    <3>1. r + s \in Nat
      BY <1>1
    <3> QED BY <1>1, <3>1, TimesMonotone
  <2>2. (r + s) * gross = gross * r + gross * s /\ FeeScale * gross = gross * FeeScale
    BY <1>1
  <2>3. (f + g) * FeeScale = f * FeeScale + g * FeeScale
    BY <1>1, <1>2, <1>3
  <2>4. /\ f * FeeScale \in Nat /\ g * FeeScale \in Nat
        /\ gross * r \in Nat /\ gross * s \in Nat /\ gross * FeeScale \in Nat
    BY <1>1, <1>2, <1>3
  <2> QED BY <1>2, <1>3, <2>1, <2>2, <2>3, <2>4
<1>5. f + g <= gross
  <2>1. SUFFICES ASSUME gross + 1 <= f + g PROVE FALSE
    BY <1>2, <1>3
  <2>2. (gross + 1) * FeeScale <= (f + g) * FeeScale
    <3>1. gross + 1 \in Nat /\ f + g \in Nat
      BY <1>2, <1>3
    <3> QED BY <1>1, <2>1, <3>1, TimesMonotone
  <2>3. (gross + 1) * FeeScale = gross * FeeScale + FeeScale
    BY <1>1
  <2>4. gross * FeeScale \in Nat /\ (f + g) * FeeScale \in Nat
    BY <1>1, <1>2, <1>3
  <2> QED BY <1>1, <1>4, <2>2, <2>3, <2>4
<1> QED BY <1>2, <1>3, <1>5 DEF f, g, r, s

\* The invariant holds at first and every transaction keeps it.
LEMMA InitTrade == Init => TradeInv
<1> SUFFICES ASSUME Init PROVE TradeInv
  OBVIOUS
<1>1. RatesFit
  BY BoundsAreNaturals DEF Init, RatesFit
<1>2. BidsPriced
  BY DEF Init, BidsPriced, EmptyTable
<1> QED BY <1>1, <1>2 DEF TradeInv

\* Only init moves the rates, and a bid keeps the price its payment came with.
LEMMA StepTrade == IInv /\ TradeInv /\ [Next]_vars => TradeInv'
<1> SUFFICES ASSUME IInv, TradeInv, [Next]_vars PROVE TradeInv'
  OBVIOUS
<1>0. /\ gstate'.dev_fee_rate = gstate.dev_fee_rate
      /\ gstate'.ipowner_fee_rate = gstate.ipowner_fee_rate
      => RatesFit'
  BY DEF TradeInv, RatesFit
<1>1. \A gone : buyerbids' = Erase(buyerbids, gone) => BidsPriced'
  BY DEF TradeInv, BidsPriced, Erase
<1>2. UNCHANGED buyerbids => BidsPriced'
  BY DEF TradeInv, BidsPriced
<1>3. CASE Configure
  <2>1. UNCHANGED buyerbids
    BY <1>3 DEF Configure, init, setfeecollec, addcoinconf, addnftconf, tables
  <2>2. ASSUME NEW u \in Managers, NEW v \in Managers, NEW r \in Rates, init(u, v, r)
        PROVE  RatesFit'
    <3>1. r \in Nat \X Nat /\ FeeScale \in Nat
      BY InputsAreNaturals, BoundsAreNaturals
    <3> QED BY <2>2, <3>1 DEF init, RatesFit, IInv, GlobalsOK
  <2>3. ASSUME NEW v \in Managers, setfeecollec(v) PROVE RatesFit'
    BY <1>0, <2>3 DEF setfeecollec, IInv, GlobalsOK
  <2>4. ASSUME NEW c \in Currencies, NEW b \in BOOLEAN, addcoinconf(c, b) PROVE RatesFit'
    BY <1>0, <2>4 DEF addcoinconf
  <2>5. ASSUME NEW nb \in NftBanks, NEW b \in BOOLEAN, addnftconf(nb, b) PROVE RatesFit'
    BY <1>0, <2>5 DEF addnftconf
  <2> QED BY <1>2, <1>3, <2>1, <2>2, <2>3, <2>4, <2>5 DEF Configure, TradeInv
<1>4. CASE Sell
  <2>1. gstate' = [gstate EXCEPT !.last_buy_order_idx = NextOrderId] /\ UNCHANGED buyerbids
    BY <1>4 DEF Sell, _sell_transfer
  <2>2. RatesFit'
    BY <1>0, <2>1 DEF IInv, GlobalsOK
  <2> QED BY <1>2, <2>1, <2>2 DEF TradeInv
<1>5. CASE Buy
  <2>1. PICK u \in Users, c \in Currencies, q \in Payments, p \in Prices,
             oid \in DOMAIN sellorders : _buy_transfer(u, c, q, oid, p)
    BY <1>5 DEF Buy
  <2>2. CASE BuyNow(u, c, q, oid, p)
    BY <1>0, <1>1, <2>2 DEF BuyNow, TakeFromOrder, TradeInv
  <2>3. CASE PlaceBid(u, c, q, oid, p)
    <3> DEFINE bid == gstate.last_deal_idx + 1
               row == [sell_order_id |-> oid, price |-> p, symbol |-> c.symbol,
                       frozen |-> BidFrozen(q, p), buyer |-> u]
    <3>1. /\ gstate' = [gstate EXCEPT !.last_deal_idx = bid]
          /\ buyerbids' = Emplace(buyerbids, bid, row)
      BY <2>3 DEF PlaceBid
    <3>2. RatesFit'
      BY <1>0, <3>1 DEF IInv, GlobalsOK
    <3>3. row.price = p
      OBVIOUS
    <3> HIDE DEF row, bid
    <3>4. BidsPriced'
      BY <3>1, <3>3 DEF TradeInv, BidsPriced, Emplace
    <3> QED BY <3>2, <3>4 DEF TradeInv
  <2> QED BY <2>1, <2>2, <2>3 DEF _buy_transfer
<1>6. CASE Close
  <2>1. ASSUME NEW u \in Users, NEW b \in BidIds, takebuybid(u, b) PROVE TradeInv'
    BY <1>0, <1>1, <2>1 DEF takebuybid, TakeFromOrder, TradeInv
  <2>2. ASSUME NEW u \in Users, NEW b \in BidIds, cancelbid(u, b) PROVE TradeInv'
    BY <1>0, <1>1, <2>2 DEF cancelbid, TradeInv
  <2>3. ASSUME NEW u \in Users, NEW o \in OrderIds, cancelorder(u, o) PROVE TradeInv'
    BY <1>0, <1>1, <2>3 DEF cancelorder, TakeFromOrder, TradeInv
  <2>4. ASSUME NEW u \in Users, NEW n \in Nfts, cancelorder_all(u, n.id) PROVE TradeInv'
    BY <1>0, <1>2, <2>4 DEF cancelorder_all, vars, TradeInv
  <2> QED BY <1>6, <2>1, <2>2, <2>3, <2>4 DEF Close
<1>7. CASE UNCHANGED vars
  BY <1>0, <1>2, <1>7 DEF vars, TradeInv
<1> QED BY <1>3, <1>4, <1>5, <1>6, <1>7 DEF Next

\* A step that trades nothing, and one that is a deal with its two fees.
NoDeal ==
    /\ \A u \in Users, n \in Nfts : Holding(u, n)' = Holding(u, n)
    /\ \A a \in Traders, c \in Currencies : Worth(a, c)' = Worth(a, c)

IpFee(n, gross) ==
    IF IpOwner[n] = NoOwner THEN 0 ELSE Fee(gross, gstate.ipowner_fee_rate)

Deal(seller, buyer, n, c, k, gross, devfee, ipfee) ==
    /\ k <= Holding(seller, n) /\ gross <= Worth(buyer, c)
    /\ \A u \in Users, m \in Nfts :
          Holding(u, m)' = Holding(u, m)
              + (IF m = n THEN For(u, buyer, k) - For(u, seller, k) ELSE 0)
    /\ \A a \in Traders, d \in Currencies :
          Worth(a, d)' = Worth(a, d)
              + (IF d = c THEN For(a, SPLIT_CONTRACT, devfee) + For(a, IpOwner[n], ipfee)
                                 + For(a, seller, gross - devfee - ipfee)
                                 - For(a, buyer, gross)
                 ELSE 0)

\* A price of the book that was paid for each of k NFTs.
Sale(seller, buyer, n, c, k, p) ==
    /\ k \in Nat \ {0} /\ p \in Prices \cap PostedPrices
    /\ Deal(seller, buyer, n, c, k, k * p, Fee(k * p, gstate.dev_fee_rate), IpFee(n, k * p))

\* What touches neither books nor balances trades nothing.
LEMMA UnchangedIsNoDeal ==
    ASSUME UNCHANGED <<sellorders, odextension, buyerbids, paidIn, money, nft>>
    PROVE  NoDeal
<1>1. ASSUME NEW u \in Users, NEW n \in Nfts PROVE Holding(u, n)' = Holding(u, n)
  BY DEF Holding, Listed, OrdersOf, OrderNft, _get_order_extension
<1>2. ASSUME NEW a \in Traders, NEW c \in Currencies PROVE Worth(a, c)' = Worth(a, c)
  BY DEF Worth, Frozen, BidsIn
<1> QED BY <1>1, <1>2 DEF NoDeal

\* What single bids hold.
LEMMA FrozenOne ==
    ASSUME GlobalsOK, TablesOK, NEW bid \in DOMAIN buyerbids
    PROVE  Frozen({bid}) = buyerbids[bid].frozen /\ Frozen({}) = 0
<1> DEFINE w == FrozenMoney
           gone == {bid}
<1>1. w[bid] = buyerbids[bid].frozen
  BY DEF FrozenMoney
<1>2. gone \in SUBSET DOMAIN buyerbids /\ {} \in SUBSET DOMAIN buyerbids
  OBVIOUS
<1>3. bid \in gone /\ \A y \in gone \ {bid} : w[y] = 0
  OBVIOUS
<1> HIDE DEF w, gone
<1>4. /\ Frozen(gone) = Sum(w, gone) /\ IsFiniteSet(gone) /\ w[bid] \in Int
      /\ Frozen({}) = Sum(w, {})
  BY <1>2, FrozenIsSum DEF w
<1>5. Sum(w, gone) = w[bid]
  BY <1>3, <1>4, SumSingle
<1> QED BY <1>1, <1>4, <1>5, SumEmpty DEF gone

\* A bid withdrawn gives its buyer back what it froze.
LEMMA CancelBidIsNoDeal ==
    ASSUME OneBankPerSymbol, IInv, MoneyInv, NEW u \in Users, NEW bid, cancelbid(u, bid)
    PROVE  NoDeal
<1> DEFINE row == buyerbids[bid]
           cur == Currency(_get_order_extension(row.sell_order_id).asset_contract, row.symbol)
           gone == {bid}
           pays == PayOne(Accounts, u, row.frozen)
<1>1. /\ bid \in DOMAIN buyerbids /\ u = row.buyer
      /\ MoneyMoves(cur, Mart, 0, pays)
      /\ buyerbids' = Erase(buyerbids, gone) /\ paidIn' = Erase(paidIn, gone)
      /\ UNCHANGED <<sellorders, odextension, nft>>
  BY DEF cancelbid
<1>2. /\ row.frozen \in Nat /\ GlobalsOK /\ TablesOK /\ paidIn[bid] \in Currencies
  <2>1. row \in BidRow /\ GlobalsOK /\ TablesOK /\ paidIn[bid] \in Currencies
    BY <1>1 DEF IInv, BookInv, TablesOK, IsTable
  <2> QED BY <2>1 DEF BidRow
<1>3. paidIn[bid] = cur
  <2>1. cur \in Currencies
    BY <1>1 DEF MoneyMoves
  <2>2. cur.symbol = row.symbol
    BY DEF Currency
  <2>3. paidIn[bid].symbol = row.symbol
    BY <1>1 DEF MoneyInv, SymbolsKept
  <2> HIDE DEF cur, row
  <2> QED BY <1>2, <2>1, <2>2, <2>3 DEF OneBankPerSymbol
<1>4. /\ gone \in SUBSET DOMAIN buyerbids /\ \A b \in gone : paidIn[b] = cur
      /\ Mart \in Accounts /\ pays \in [Accounts -> Int]
  BY <1>1, <1>2, <1>3 DEF Accounts, PayOne
<1>5. ASSUME NEW n \in Nfts, NEW x \in Users PROVE Holding(x, n)' = Holding(x, n)
  BY <1>1 DEF Holding, Listed, OrdersOf, OrderNft, _get_order_extension
<1>6. ASSUME NEW a \in Traders, NEW d \in Currencies PROVE Worth(a, d)' = Worth(a, d)
  <2> DEFINE held == HeldFor(a, gone)
  <2>1. {b \in gone : buyerbids[b].buyer = a} = IF a = u THEN {bid} ELSE {}
    BY <1>1
  <2>2. Frozen({bid}) = row.frozen /\ Frozen({}) = 0
    BY <1>1, <1>2, FrozenOne
  <2>3. held = (IF a = u THEN row.frozen ELSE 0)
    BY <2>1, <2>2 DEF HeldFor
  <2>4. pays[a] = (IF a = u THEN row.frozen ELSE 0) /\ For(a, Mart, 0) = 0
    BY DEF PayOne, Traders, Accounts, For
  <2>5. Worth(a, d) \in Nat
    BY WorthIs
  <2> HIDE DEF held, pays, gone, cur
  <2>6. Worth(a, d)' = Worth(a, d) + (IF d = cur THEN pays[a] - For(a, Mart, 0) - held ELSE 0)
    <3>1. Refunds(cur, Mart, 0, pays, gone)
      BY <1>1, <1>4 DEF Refunds
    <3> QED BY <3>1, EraseMovesWorth DEF held
  <2> QED BY <1>2, <2>3, <2>4, <2>5, <2>6
<1> QED BY <1>5, <1>6 DEF NoDeal

\* An order withdrawn gives back its NFTs and the refunded bids' money.
LEMMA CancelOrderIsNoDeal ==
    ASSUME IInv, NEW u \in Users, NEW oid, cancelorder(u, oid)
    PROVE  NoDeal
<1> DEFINE gone == _refund_buyer_bid(oid, 0)
           pays == RefundPay(gone)
           cur == OrderCurrency(oid)
           sold == sellorders[oid].frozen
<1>1. /\ oid \in DOMAIN sellorders /\ u = sellorders[oid].maker
      /\ TakeFromOrder(oid, sold, gone)
      /\ NftMoves(OrderNft(oid), Mart, u, sold)
      /\ MoneyMoves(cur, Mart, 0, pays)
  BY DEF cancelorder
<1>2. /\ gone \in SUBSET DOMAIN buyerbids /\ \A b \in gone : paidIn[b] = cur
  BY <1>1, RefundedInOrderCurrency
<1>3. sold \in Nat /\ sold <= sold /\ GlobalsOK /\ TablesOK
  <2>1. sellorders[oid] \in OrderRow /\ GlobalsOK /\ TablesOK
    BY <1>1 DEF IInv, BookInv, TablesOK, IsTable
  <2> QED BY <2>1 DEF OrderRow
<1> HIDE DEF gone
<1>4. /\ buyerbids' = Erase(buyerbids, gone) /\ paidIn' = Erase(paidIn, gone)
      /\ Mart \in Accounts
  BY <1>1 DEF TakeFromOrder, Accounts
<1>5. Pays(pays, Frozen(gone))
  BY <1>2, <1>3, RefundsPay
<1>6. pays \in [Accounts -> Int]
  BY <1>5 DEF Pays
<1>7. ASSUME NEW n \in Nfts, NEW x \in Users PROVE Holding(x, n)' = Holding(x, n)
  <2>1. Holding(x, n)' = Holding(x, n)
            + (IF n = OrderNft(oid) THEN For(x, u, sold) - For(x, u, sold) ELSE 0)
    <3> HIDE DEF sold
    <3> QED BY <1>1, <1>3, TakeMovesHolding DEF sold
  <2>2. Holding(x, n) \in Nat
    BY HoldingIs
  <2>3. For(x, u, sold) \in Nat
    BY <1>3 DEF For
  <2> QED BY <2>1, <2>2, <2>3
<1>8. ASSUME NEW a \in Traders, NEW d \in Currencies PROVE Worth(a, d)' = Worth(a, d)
  <2> DEFINE held == HeldFor(a, gone)
  <2>1. pays[a] = held
    BY RefundIsHeld DEF Traders, Accounts
  <2>2. For(a, Mart, 0) = 0
    BY DEF For
  <2>3. Worth(a, d) \in Nat
    BY WorthIs
  <2> HIDE DEF held, pays, cur
  <2>4. /\ held \in Nat
        /\ Worth(a, d)' = Worth(a, d)
               + (IF d = cur THEN pays[a] - For(a, Mart, 0) - held ELSE 0)
    <3>1. Refunds(cur, Mart, 0, pays, gone)
      BY <1>1, <1>2, <1>4, <1>6 DEF Refunds
    <3> QED BY <3>1, EraseMovesWorth DEF held
  <2> QED BY <2>1, <2>2, <2>3, <2>4
<1> QED BY <1>7, <1>8 DEF NoDeal

\* A sale listed: the NFTs leave the maker and count in its new order.
LEMMA SellIsNoDeal ==
    ASSUME IInv, NEW u \in Users, NEW n \in Nfts, NEW k \in Nat,
           NEW p \in Prices, NEW c \in Currencies, _sell_transfer(u, n, k, p, c)
    PROVE  NoDeal
<1> DEFINE oid == gstate.last_buy_order_idx + 1
           row == [token |-> n.id, price |-> p, symbol |-> c.symbol,
                   frozen |-> k, maker |-> u]
           ext == [nft_contract |-> n.bank, asset_contract |-> c.bank]
<1>1. /\ NftMoves(n, u, Mart, k)
      /\ sellorders' = Emplace(sellorders, oid, row)
      /\ odextension' = Emplace(odextension, oid, ext)
      /\ UNCHANGED <<buyerbids, paidIn, money>>
  BY DEF _sell_transfer, NextOrderId
<1>2. Mart \in Accounts /\ u \in Accounts /\ u # Mart /\ Mart \notin Users
  BY AccountsDistinct DEF Accounts
<1>3. oid \notin DOMAIN sellorders /\ DOMAIN odextension = DOMAIN sellorders
  <2>1. gstate.last_buy_order_idx \in Nat
    BY DEF IInv, GlobalsOK
  <2> QED BY <2>1 DEF IInv, BookInv, TablesOK, IsTable, OrderHasExtension
<1>4. row.token = n.id /\ row.maker = u /\ row.frozen = k /\ ext.nft_contract = n.bank
  OBVIOUS
<1> HIDE DEF oid, row, ext
<1>5. /\ DOMAIN sellorders' = DOMAIN sellorders \cup {oid}
      /\ DOMAIN odextension' = DOMAIN sellorders \cup {oid}
      /\ sellorders'[oid] = row /\ odextension'[oid] = ext
      /\ \A x \in DOMAIN sellorders :
            x # oid /\ sellorders'[x] = sellorders[x] /\ odextension'[x] = odextension[x]
  BY <1>1, <1>3 DEF Emplace
<1>6. ASSUME NEW x \in Users, NEW m \in Nfts PROVE Holding(x, m)' = Holding(x, m)
  <2> DEFINE O == OrdersBy(x, m)
             Q == {j \in OrdersOf(m) : sellorders[j].maker = x}'
             new == [j \in Q |-> sellorders'[j].frozen]
             w == FrozenNfts
             mine == n = m /\ x = u
  <2>1. /\ Listed(O) = Sum(w, O) /\ Listed(O) \in Nat /\ IsFiniteSet(O)
        /\ \A j \in O : w[j] \in Int /\ w[j] = sellorders[j].frozen
        /\ Holding(x, m) = nft[x][m] + Listed(O) /\ nft[x][m] \in Nat
    <3>1. O \in SUBSET DOMAIN sellorders /\ GlobalsOK /\ TablesOK
      BY HoldingIs DEF IInv, BookInv
    <3>2. \A j \in DOMAIN sellorders : w[j] = sellorders[j].frozen
      BY DEF FrozenNfts
    <3>3. Holding(x, m) = nft[x][m] + Listed(O) /\ nft[x][m] \in Nat
      BY HoldingIs
    <3> HIDE DEF O, w
    <3>4. /\ Listed(O) = Sum(w, O) /\ Listed(O) \in Nat /\ IsFiniteSet(O)
          /\ \A j \in DOMAIN sellorders : w[j] \in Nat \ {0}
      BY <3>1, ListedIsSum DEF w
    <3> QED BY <3>1, <3>2, <3>3, <3>4
  <2>2. Q = IF mine THEN O \cup {oid} ELSE O
    <3>1. [bank |-> n.bank, id |-> n.id] = m <=> n = m
      BY KeysArePairs
    <3>2. Q = {j \in DOMAIN sellorders' :
              /\ [bank |-> (IF j \in DOMAIN odextension' THEN odextension'[j]
                            ELSE [nft_contract |-> NTOKEN_BANK,
                                  asset_contract |-> MUSDT_BANK]).nft_contract,
                  id |-> sellorders'[j].token] = m
              /\ sellorders'[j].maker = x}
      BY DEF OrdersOf, OrderNft, _get_order_extension
    <3>3. \A j \in DOMAIN sellorders : j \in Q <=> j \in O
      BY <1>3, <1>5 DEF OrdersOf, OrderNft, _get_order_extension, OrdersBy
    <3>4. oid \in Q <=> mine
      <4>1. odextension'[oid].nft_contract = n.bank /\ sellorders'[oid].token = n.id
            /\ sellorders'[oid].maker = u
        BY <1>4, <1>5
      <4> QED BY <1>5, <3>1, <3>2, <4>1
    <3>5. Q \subseteq DOMAIN sellorders \cup {oid} /\ O \subseteq DOMAIN sellorders
      BY <1>5, <3>2 DEF OrdersBy, OrdersOf
    <3> HIDE DEF O, Q, mine
    <3> QED BY <1>3, <3>3, <3>4, <3>5
  <2>3. oid \notin O /\ \A j \in O : sellorders'[j].frozen = w[j]
    BY <1>3, <1>5, <2>1 DEF OrdersBy, OrdersOf
  <2>4. /\ Holding(x, m)' = nft'[x][m] + SumFunction(new)
        /\ DOMAIN new = Q
        /\ \A j \in O : new[j] = w[j]
        /\ mine => new[oid] = k
    BY <1>4, <1>5, <2>2, <2>3 DEF Holding, Listed
  <2>5. nft'[x][m] = nft[x][m] - (IF mine THEN k ELSE 0)
    <3>1. /\ nft'[u][m] = nft[u][m] - (IF n = m THEN k ELSE 0)
          /\ \A a \in Accounts \ {u, Mart} : nft'[a][m] = nft[a][m]
          /\ x \in Accounts /\ x # Mart
      BY <1>1, <1>2, NftMovesBy DEF IInv, Accounts
    <3>2. CASE x = u
      BY <3>1, <3>2
    <3>3. CASE x # u
      <4>1. nft'[x][m] = nft[x][m]
        BY <3>1, <3>3
      <4> QED BY <2>1, <3>3, <4>1
    <3> QED BY <3>2, <3>3
  <2> HIDE DEF O, Q, new, w, mine
  <2>6. Sum(new, O) = Sum(w, O)
    BY <2>1, <2>4, SumSame
  <2>7. SumFunction(new) = Sum(new, Q)
    BY <2>4, SumFunctionIsSum
  <2>8. CASE mine
    <3>1. \A j \in O \cup {oid} : new[j] \in Int
      BY <2>1, <2>4, <2>8
    <3>2. Sum(new, O \cup {oid}) = new[oid] + Sum(new, O)
      BY <2>1, <2>3, <3>1, SumAdd
    <3>3. nft'[x][m] = nft[x][m] - k
      BY <2>5, <2>8
    <3> QED BY <2>1, <2>2, <2>4, <2>6, <2>7, <2>8, <3>2, <3>3
  <2>9. CASE ~ mine
    <3>1. nft'[x][m] = nft[x][m]
      BY <2>1, <2>5, <2>9
    <3> QED BY <2>1, <2>2, <2>4, <2>6, <2>7, <2>9, <3>1
  <2> QED BY <2>8, <2>9
<1>7. ASSUME NEW a \in Traders, NEW d \in Currencies PROVE Worth(a, d)' = Worth(a, d)
  BY <1>1 DEF Worth, Frozen, BidsIn
<1> QED BY <1>6, <1>7 DEF NoDeal

\* A payment that rests: what leaves the buyer is frozen in its bid or sent back.
LEMMA PlaceBidIsNoDeal ==
    ASSUME NEW u \in Users, NEW c \in Currencies, NEW q \in Payments,
           NEW oid \in DOMAIN sellorders, NEW p \in Prices,
           IInv, PlaceBid(u, c, q, oid, p)
    PROVE  NoDeal
<1> DEFINE bid == gstate.last_deal_idx + 1
           frozen == BidFrozen(q, p)
           rest == q - (q \div p) * p
           row == [sell_order_id |-> oid, price |-> p, symbol |-> c.symbol,
                   frozen |-> frozen, buyer |-> u]
           pay == PayOne(Accounts, u, rest)
<1>1. /\ buyerbids' = Emplace(buyerbids, bid, row)
      /\ paidIn' = Emplace(paidIn, bid, c)
      /\ MoneyMoves(c, u, q, pay)
      /\ UNCHANGED <<sellorders, odextension, nft>>
  BY DEF PlaceBid
<1>2. /\ bid \notin DOMAIN buyerbids /\ DOMAIN paidIn = DOMAIN buyerbids
      /\ GlobalsOK /\ TablesOK /\ BalancesOK
  <2>1. gstate.last_deal_idx \in Nat
    BY DEF IInv, GlobalsOK
  <2> QED BY <2>1 DEF IInv, BookInv, TablesOK, IsTable
<1>3. frozen \in Nat /\ frozen + rest = q /\ rest \in Int /\ q \in Nat
  <2>1. q \in Nat /\ p \in Nat \ {0}
    BY InputsAreNaturals
  <2>2. q \div p \in Nat
    BY <2>1, Quotient
  <2>3. (q \div p) * p \in Nat
    BY <2>1, <2>2
  <2> QED BY <2>1, <2>3 DEF BidFrozen
<1>4. row.frozen = frozen /\ row.buyer = u
  OBVIOUS
<1>5. \A a \in Accounts : pay[a] = IF a = u THEN rest ELSE 0
  BY DEF PayOne
<1> HIDE DEF bid, frozen, rest, row, pay
<1>6. /\ DOMAIN buyerbids' = DOMAIN buyerbids \cup {bid}
      /\ buyerbids'[bid] = row /\ paidIn'[bid] = c
      /\ \A b \in DOMAIN buyerbids :
            b # bid /\ buyerbids'[b] = buyerbids[b] /\ paidIn'[b] = paidIn[b]
  BY <1>1, <1>2 DEF Emplace
<1>7. ASSUME NEW x \in Users, NEW n \in Nfts PROVE Holding(x, n)' = Holding(x, n)
  BY <1>1 DEF Holding, Listed, OrdersOf, OrderNft, _get_order_extension
<1>8. ASSUME NEW a \in Traders, NEW d \in Currencies PROVE Worth(a, d)' = Worth(a, d)
  <2> DEFINE B == BidsBy(a, d)
             Q == {b \in BidsIn(d) : buyerbids[b].buyer = a}'
             new == [x \in Q |-> buyerbids'[x].frozen]
             w == FrozenMoney
             mine == d = c /\ a = u
  <2>1. /\ Frozen(B) = Sum(w, B) /\ Frozen(B) \in Nat /\ IsFiniteSet(B)
        /\ \A x \in B : w[x] \in Int /\ w[x] = buyerbids[x].frozen
        /\ Worth(a, d) = money[a][d] + Frozen(B) /\ money[a][d] \in Nat
    <3>1. B \in SUBSET DOMAIN buyerbids
      BY WorthIs
    <3>2. \A x \in DOMAIN buyerbids : w[x] = buyerbids[x].frozen
      BY DEF FrozenMoney
    <3>3. Worth(a, d) = money[a][d] + Frozen(B) /\ money[a][d] \in Nat
      BY WorthIs
    <3> HIDE DEF B, w
    <3>4. /\ Frozen(B) = Sum(w, B) /\ Frozen(B) \in Nat /\ IsFiniteSet(B)
          /\ \A x \in DOMAIN buyerbids : w[x] \in Nat \ {0}
      BY <1>2, <3>1, FrozenIsSum DEF w
    <3> QED BY <3>1, <3>2, <3>3, <3>4
  <2>2. Q = IF mine THEN B \cup {bid} ELSE B
    BY <1>2, <1>4, <1>6 DEF BidsIn, BidsBy
  <2>3. bid \notin B /\ \A x \in B : buyerbids'[x].frozen = w[x]
    BY <1>2, <1>6, <2>1 DEF BidsIn, BidsBy
  <2>4. /\ Worth(a, d)' = money'[a][d] + SumFunction(new)
        /\ DOMAIN new = Q
        /\ \A x \in B : new[x] = w[x]
        /\ mine => new[bid] = frozen
    BY <1>4, <1>6, <2>2, <2>3 DEF Frozen, Worth
  <2>5. money'[a][d] = IF mine THEN money[a][d] + rest - q ELSE money[a][d]
    <3> DEFINE now(x) == money[x][c] + pay[x] + (IF x = Mart THEN q - SumFunction(pay) ELSE 0)
                                              - (IF x = u THEN q ELSE 0)
    <3>1. /\ money' = [x \in Accounts |-> [money[x] EXCEPT ![c] = now(x)]]
          /\ money \in [Accounts -> [Currencies -> Nat]]
          /\ a \in Accounts /\ a # Mart
      BY <1>1, <1>2, AccountsDistinct DEF MoneyMoves, BalancesOK, Traders, Accounts
    <3>2. money[a][c] \in Nat
      BY <3>1
    <3>3. now(a) = money[a][c] + pay[a] + 0 - (IF a = u THEN q ELSE 0)
      BY <3>1
    <3> HIDE DEF now
    <3>4. money'[a][d] = IF d = c THEN now(a) ELSE money[a][d]
      BY <3>1
    <3>5. CASE a = u
      BY <1>3, <1>5, <3>1, <3>2, <3>3, <3>4, <3>5
    <3>6. CASE a # u
      <4>1. pay[a] = 0 /\ now(a) = money[a][c]
        BY <1>5, <3>1, <3>2, <3>3, <3>6
      <4> QED BY <3>4, <3>6, <4>1
    <3> QED BY <3>5, <3>6
  <2> HIDE DEF B, Q, new, w, mine
  <2>6. Sum(new, B) = Sum(w, B)
    BY <2>1, <2>4, SumSame
  <2>7. SumFunction(new) = Sum(new, Q)
    BY <2>4, SumFunctionIsSum
  <2>8. CASE mine
    <3>1. \A x \in B \cup {bid} : new[x] \in Int
      BY <1>3, <2>1, <2>4, <2>8
    <3>2. Sum(new, B \cup {bid}) = new[bid] + Sum(new, B)
      BY <2>1, <2>3, <3>1, SumAdd
    <3>3. money'[a][d] = money[a][d] + rest - q
      BY <2>5, <2>8
    <3>4. Worth(a, d)' = (money[a][d] + rest - q) + (frozen + Frozen(B))
      BY <2>1, <2>2, <2>4, <2>6, <2>7, <2>8, <3>2, <3>3
    <3> QED BY <1>3, <2>1, <3>4
  <2>9. CASE ~ mine
    <3>1. money'[a][d] = money[a][d]
      BY <2>5, <2>9
    <3> QED BY <2>1, <2>2, <2>4, <2>6, <2>7, <2>9, <3>1
  <2> QED BY <2>8, <2>9
<1> QED BY <1>7, <1>8 DEF NoDeal

\* NFTs out of an order, and a batch that settles with its maker, refunds the bids
\* that leave and returns what the buyer paid beyond the price: a deal.
LEMMA TakeIsDeal ==
    ASSUME IInv, TradeInv, NEW oid \in DOMAIN sellorders, NEW sold \in Nat, NEW gone,
           NEW buyer \in Users, NEW c, NEW from, NEW quant, NEW pays, NEW gross \in Nat,
           sold <= sellorders[oid].frozen, TakeFromOrder(oid, sold, gone),
           NftMoves(OrderNft(oid), Mart, buyer, sold), Refunds(c, from, quant, pays, gone),
           \A a \in Traders :
              pays[a] = _settle_maker(sellorders[oid].maker, IpOwner[OrderNft(oid)], gross)[a]
                        + HeldFor(a, gone) + For(a, from, quant) - For(a, buyer, gross),
           gross <= Worth(buyer, c)
    PROVE  Deal(sellorders[oid].maker, buyer, OrderNft(oid), c, sold, gross,
                Fee(gross, gstate.dev_fee_rate), IpFee(OrderNft(oid), gross))
<1> DEFINE maker == sellorders[oid].maker
           n == OrderNft(oid)
           own == IpOwner[n]
           devfee == Fee(gross, gstate.dev_fee_rate)
           ipfee == IpFee(n, gross)
           rest == gross - devfee - ipfee
<1>1. /\ n \in Nfts /\ maker \in Users /\ quant \in Nat
      /\ own \in Users \cup {NoOwner}
  <2>1. sellorders[oid] \in OrderRow
    BY DEF IInv, BookInv, TablesOK, IsTable
  <2> QED BY <2>1, InputsAreNaturals DEF NftMoves, Refunds, OrderRow
<1>2. devfee \in Nat /\ ipfee \in Nat /\ rest \in Int
  <2>1. /\ Fee(gross, gstate.dev_fee_rate) \in 0 .. gross
        /\ Fee(gross, gstate.ipowner_fee_rate) \in 0 .. gross
    BY FeesFit DEF TradeInv, IInv
  <2> QED BY <2>1 DEF IpFee
<1>3. sold <= Holding(maker, n)
  <2>1. oid \in OrdersBy(maker, n)
    BY DEF OrdersBy, OrdersOf
  <2>2. /\ Holding(maker, n) = nft[maker][n] + Listed(OrdersBy(maker, n))
        /\ nft[maker][n] \in Nat /\ Listed(OrdersBy(maker, n)) \in Nat
        /\ sellorders[oid].frozen <= Listed(OrdersBy(maker, n))
    <3> HIDE DEF maker, n
    <3> QED BY <1>1, <2>1, HoldingIs
  <2>3. sellorders[oid].frozen \in Nat
    BY DEF IInv, BookInv, TablesOK, IsTable, OrderRow
  <2> HIDE DEF maker, n
  <2> QED BY <2>2, <2>3
<1>4. ASSUME NEW u \in Users, NEW m \in Nfts
      PROVE  Holding(u, m)' = Holding(u, m)
                 + (IF m = n THEN For(u, buyer, sold) - For(u, maker, sold) ELSE 0)
  BY TakeMovesHolding
<1>5. ASSUME NEW a \in Traders, NEW d \in Currencies
      PROVE  Worth(a, d)' = Worth(a, d)
                 + (IF d = c THEN For(a, SPLIT_CONTRACT, devfee) + For(a, own, ipfee)
                                    + For(a, maker, rest) - For(a, buyer, gross)
                    ELSE 0)
  <2> DEFINE settled == _settle_maker(maker, own, gross)[a]
  <2>1. /\ HeldFor(a, gone) \in Nat
        /\ Worth(a, d)' = Worth(a, d)
               + (IF d = c THEN pays[a] - For(a, from, quant) - HeldFor(a, gone) ELSE 0)
    BY EraseMovesWorth
  <2>2. pays[a] = settled + HeldFor(a, gone) + For(a, from, quant) - For(a, buyer, gross)
    OBVIOUS
  <2>3. settled = For(a, SPLIT_CONTRACT, devfee) + (For(a, own, ipfee) + For(a, maker, rest))
    <3>1. a \in Accounts
      BY DEF Accounts, Traders
    <3>2. ipfee = IF own = NoOwner THEN 0 ELSE Fee(gross, gstate.ipowner_fee_rate)
      BY DEF IpFee
    <3>3. devfee = Fee(gross, gstate.dev_fee_rate) /\ rest = gross - devfee - ipfee
      OBVIOUS
    <3> HIDE DEF maker, own, devfee, ipfee, rest
    <3> QED BY <3>1, <3>2, <3>3, SettlementOf
  <2> HIDE DEF settled, devfee, ipfee, rest, own, maker
  <2>4. /\ For(a, SPLIT_CONTRACT, devfee) \in Int /\ For(a, own, ipfee) \in Int
        /\ For(a, maker, rest) \in Int /\ For(a, buyer, gross) \in Int
        /\ For(a, from, quant) \in Int
    BY <1>1, <1>2 DEF For
  <2>5. Worth(a, d) \in Nat
    BY WorthIs
  <2>6. pays[a] - For(a, from, quant) - HeldFor(a, gone)
            = For(a, SPLIT_CONTRACT, devfee) + For(a, own, ipfee)
                  + For(a, maker, rest) - For(a, buyer, gross)
    BY <2>1, <2>2, <2>3, <2>4
  <2> QED BY <2>1, <2>6
<1> HIDE DEF devfee, ipfee, n, maker
<1>6. Deal(maker, buyer, n, c, sold, gross, devfee, ipfee)
  BY <1>3, <1>4, <1>5 DEF Deal
<1> QED BY <1>6 DEF devfee, ipfee, n, maker

\* What a payment buys and costs, where no product wraps.
LEMMA DealIsWhole ==
    ASSUME NEW o \in OrderRow, NEW quant \in Nat, quant <= IntMax, o.price <= quant,
           o.frozen * o.price \in 0 .. IntMax
    PROVE  LET deal == process_single_buy_order(o, quant)
           IN  /\ deal.bought \in Nat \ {0}
               /\ deal.earned = deal.bought * o.price
               /\ deal.earned \in 0 .. quant
               /\ Positive(Int64(quant - deal.earned)) = quant - deal.earned
<1> DEFINE deal == process_single_buy_order(o, quant)
           cost == o.frozen * o.price
           count == quant \div o.price
<1>1. o.frozen \in Nat \ {0} /\ o.price \in Nat \ {0} /\ IntMax \in Nat
  BY BoundsAreNaturals DEF OrderRow
<1>2. count \in Nat /\ count * o.price <= quant /\ quant < count * o.price + o.price
  BY <1>1, Quotient
<1>3. count # 0
  <2> HIDE DEF count
  <2>1. count = 0 => count * o.price = 0
    BY <1>1
  <2> QED BY <1>1, <1>2, <2>1
<1>4. Int64(cost) = cost /\ cost \in 0 .. IntMax
  <2>1. cost \in 0 .. IntMax
    OBVIOUS
  <2> HIDE DEF cost
  <2> QED BY <1>1, <2>1 DEF Int64
<1>5. /\ deal.bought = IF cost >= quant THEN count ELSE o.frozen
      /\ deal.earned = IF cost >= quant THEN count * o.price ELSE cost
  BY <1>4 DEF process_single_buy_order
<1>6. deal.earned = deal.bought * o.price
  BY <1>5
<1>7. count * o.price \in Nat
  BY <1>1, <1>2
<1> HIDE DEF deal, cost, count
<1>8. deal.bought \in Nat \ {0}
  BY <1>1, <1>2, <1>3, <1>5
<1>9. deal.earned \in 0 .. quant
  BY <1>2, <1>4, <1>5, <1>7
<1>10. Int64(quant - deal.earned) = quant - deal.earned
  BY <1>1, <1>9 DEF Int64
<1>11. Positive(quant - deal.earned) = quant - deal.earned
  BY <1>9 DEF Positive
<1> QED BY <1>6, <1>8, <1>9, <1>10, <1>11 DEF deal

\* What a batch pays an account is the sum of what its parts pay it.
LEMMA BothPay ==
    ASSUME NEW p, NEW q, NEW a, a \in DOMAIN p
    PROVE  PayBoth(p, q)[a] = p[a] + q[a]
BY DEF PayBoth

\* Refunds and settlements pay every account some integer.
LEMMA PartsPay ==
    ASSUME IInv, NEW gone \in SUBSET DOMAIN buyerbids,
           NEW maker \in Users, NEW own \in Users \cup {NoOwner}, NEW gross \in Nat
    PROVE  /\ _settle_maker(maker, own, gross) \in [Accounts -> Int]
           /\ RefundPay(gone) \in [Accounts -> Int]
           /\ \A a \in Accounts : RefundPay(gone)[a] = HeldFor(a, gone)
<1>1. GlobalsOK /\ TablesOK
  BY DEF IInv, BookInv
<1>2. Pays(_settle_maker(maker, own, gross), Positive(gross))
  BY <1>1, SettlementPays
<1>3. Pays(RefundPay(gone), Frozen(gone))
  BY <1>1, RefundsPay
<1>4. \A a \in Accounts : RefundPay(gone)[a] = HeldFor(a, gone)
  BY RefundIsHeld
<1> QED BY <1>2, <1>3, <1>4 DEF Pays

\* A purchase is a sale at the order's price.
LEMMA BuyNowIsSale ==
    ASSUME NEW u \in Users, NEW c \in Currencies, NEW q \in Payments,
           NEW oid \in DOMAIN sellorders, NEW p \in Prices,
           IInv, CustodyInv, TradeInv, AmountsFit, BuyNow(u, c, q, oid, p)
    PROVE  \E k : Sale(sellorders[oid].maker, u, OrderNft(oid), c, k, sellorders[oid].price)
<1> DEFINE o == sellorders[oid]
           maker == o.maker
           n == OrderNft(oid)
           own == IpOwner[n]
           deal == process_single_buy_order(o, q)
           k == deal.bought
           gross == deal.earned
           gone == IF k = o.frozen THEN _refund_buyer_bid(oid, 0) ELSE {}
           left == Positive(Int64(q - gross))
           settle == _settle_maker(maker, own, gross)
           back == PayOne(Accounts, u, left)
           pays == PayBoth(settle, PayBoth(RefundPay(gone), back))
<1>1. /\ TakeFromOrder(oid, k, gone)
      /\ NftMoves(n, Mart, u, k) /\ n \in Nfts
      /\ MoneyMoves(c, u, q, pays)
      /\ c = OrderCurrency(oid) /\ o.price <= p /\ q >= p
  BY DEF BuyNow, NftMoves, PaymentFits
<1>2. /\ o \in OrderRow /\ maker \in Users /\ q \in Nat /\ q <= IntMax
      /\ o.price \in Nat \ {0} /\ o.frozen \in Nat /\ p \in Nat
      /\ own \in Users \cup {NoOwner} /\ u \in Accounts /\ u # Mart
  <2>1. o \in OrderRow
    BY DEF IInv, BookInv, TablesOK, IsTable
  <2> QED BY <1>1, <2>1, InputsAreNaturals, AccountsDistinct DEF OrderRow, AmountsFit, Accounts
<1>3. o.frozen * o.price \in 0 .. IntMax
  BY <1>1, OfferFits
<1>4. /\ k \in Nat \ {0} /\ k <= o.frozen /\ gross = k * o.price /\ gross \in 0 .. q
      /\ left = q - gross
  <2>1. o.price <= q
    BY <1>1, <1>2
  <2> HIDE DEF o
  <2> QED BY <1>2, <1>3, <2>1, DealIsWhole, DealFits
<1>5. gone \in SUBSET DOMAIN buyerbids /\ \A b \in gone : paidIn[b] = c
  BY <1>1, RefundedInOrderCurrency
<1>6. \A a \in Accounts : back[a] = For(a, u, left)
  BY DEF PayOne, For
<1>7. back \in [Accounts -> Int]
  <2>1. left \in Int
    <3> HIDE DEF left, gross
    <3> QED BY <1>2, <1>4
  <2> HIDE DEF left
  <2> QED BY <2>1 DEF PayOne
<1> HIDE DEF deal, k, gross, gone, left, back
<1>8. /\ settle \in [Accounts -> Int] /\ RefundPay(gone) \in [Accounts -> Int]
      /\ \A a \in Accounts : RefundPay(gone)[a] = HeldFor(a, gone)
  <2>1. gross \in Nat
    BY <1>4
  <2> HIDE DEF maker, own
  <2> QED BY <1>2, <1>5, <2>1, PartsPay
<1>9. pays \in [Accounts -> Int]
      /\ \A a \in Accounts : pays[a] = settle[a] + (HeldFor(a, gone) + For(a, u, left))
  <2> HIDE DEF settle
  <2> QED BY <1>6, <1>7, <1>8, AccountsAreFinite, PayBothSum, BothPay DEF PayBoth
<1>10. Refunds(c, u, q, pays, gone)
  BY <1>1, <1>2, <1>5, <1>9 DEF Refunds, TakeFromOrder
<1>11. ASSUME NEW a \in Traders
       PROVE  pays[a] = settle[a] + HeldFor(a, gone) + For(a, u, q) - For(a, u, gross)
  <2>1. a \in Accounts
    BY DEF Traders, Accounts
  <2>2. /\ settle[a] \in Int /\ HeldFor(a, gone) \in Int
        /\ pays[a] = settle[a] + (HeldFor(a, gone) + For(a, u, left))
    BY <1>8, <1>9, <2>1
  <2>3. For(a, u, left) = For(a, u, q) - For(a, u, gross)
    BY <1>2, <1>4 DEF For
  <2>4. For(a, u, q) \in Int /\ For(a, u, gross) \in Int
    BY <1>2, <1>4 DEF For
  <2> HIDE DEF settle, pays
  <2> QED BY <2>2, <2>3, <2>4
<1>12. gross <= Worth(u, c)
  <2>1. /\ Worth(u, c) = money[u][c] + Frozen(BidsBy(u, c))
        /\ money[u][c] \in Nat /\ Frozen(BidsBy(u, c)) \in Nat
    BY WorthIs DEF Traders
  <2>2. money[u][c] >= q
    BY <1>1 DEF MoneyMoves
  <2> QED BY <1>2, <1>4, <2>1, <2>2
<1> HIDE DEF pays
<1>13. Deal(maker, u, n, c, k, gross, Fee(gross, gstate.dev_fee_rate), IpFee(n, gross))
  <2>1. gross \in Nat /\ k \in Nat
    BY <1>4
  <2>2. \A a \in Traders : pays[a] = _settle_maker(o.maker, IpOwner[OrderNft(oid)], gross)[a]
                               + HeldFor(a, gone) + For(a, u, q) - For(a, u, gross)
    BY <1>11
  <2> QED BY <1>1, <1>4, <1>10, <1>12, <2>1, <2>2, TakeIsDeal
<1>14. o.price \in Prices \cap PostedPrices
  BY DEF CustodyInv, PricesPosted, PostedPrices
<1>15. Sale(maker, u, n, c, k, o.price)
  BY <1>4, <1>13, <1>14 DEF Sale
<1> QED BY <1>15 DEF k

\* A bid taken is a sale at the bid's price.
LEMMA TakeBidIsSale ==
    ASSUME NEW u \in Users, NEW bid, IInv, TradeInv, takebuybid(u, bid)
    PROVE  \E k : \E oid \in DOMAIN sellorders, c \in Currencies :
              /\ OrderNft(oid) \in Nfts /\ buyerbids[bid].buyer \in Users
              /\ sellorders[oid].maker \in Users
              /\ Sale(sellorders[oid].maker, buyerbids[bid].buyer, OrderNft(oid), c, k,
                      buyerbids[bid].price)
<1> DEFINE row == buyerbids[bid]
           price == row.price
           buyer == row.buyer
           oid == row.sell_order_id
           o == sellorders[oid]
           maker == o.maker
           n == OrderNft(oid)
           own == IpOwner[n]
           c == OrderCurrency(oid)
           count == row.frozen \div row.price
           k == IF count < o.frozen THEN count ELSE o.frozen
           rest == IF count < o.frozen THEN {} ELSE _refund_buyer_bid(oid, bid)
           gone == rest \cup {bid}
           gross == k * price
           left == (count - k) * row.price
           settle == _settle_maker(maker, own, gross)
           back == PayOne(Accounts, buyer, left)
           pays == PayBoth(settle, PayBoth(RefundPay(rest), back))
<1>1. /\ bid \in DOMAIN buyerbids /\ oid \in DOMAIN sellorders
      /\ TakeFromOrder(oid, k, gone)
      /\ NftMoves(n, Mart, buyer, k) /\ n \in Nfts
      /\ MoneyMoves(c, Mart, 0, pays) /\ c \in Currencies
  BY DEF takebuybid, NftMoves, MoneyMoves
<1>2. /\ maker \in Users /\ o.frozen \in Nat \ {0}
      /\ row.frozen \in Nat \ {0} /\ price \in Nat \ {0} /\ buyer \in Users
      /\ GlobalsOK /\ TablesOK /\ own \in Users \cup {NoOwner}
  <2>1. o \in OrderRow /\ row \in BidRow /\ GlobalsOK /\ TablesOK
    BY <1>1 DEF IInv, BookInv, TablesOK, IsTable
  <2>2. own \in Users \cup {NoOwner}
    BY <1>1, InputsAreNaturals
  <2> HIDE DEF o, row
  <2> QED BY <2>1, <2>2 DEF OrderRow, BidRow
<1>3. PICK j \in Nat : row.frozen = j * price
  BY <1>1 DEF IInv, BookInv, RestingBidsBelowAsk
<1>4. count \in Nat \ {0} /\ count * price = row.frozen
  <2>1. count = (j * price) \div price
    BY <1>3
  <2> HIDE DEF price, row
  <2>2. (j * price) \div price = j
    BY <1>2, QuotientOfProduct
  <2>3. j # 0
    <3>1. j = 0 => j * price = 0
      BY <1>2
    <3> QED BY <1>2, <1>3, <3>1
  <2>4. count = j
    BY <2>1, <2>2
  <2> HIDE DEF count
  <2> QED BY <1>3, <2>3, <2>4
<1>5. /\ k \in Nat \ {0} /\ k <= o.frozen /\ gross \in Nat /\ left \in Int
      /\ gross + left = row.frozen /\ gross <= row.frozen
  <2> HIDE DEF count, price, row, o
  <2>1. k \in Nat \ {0} /\ k <= o.frozen /\ k <= count
    BY <1>2, <1>4
  <2>2. left = (count - k) * price
    BY DEF price
  <2> HIDE DEF k, left
  <2>3. (count - k) * price = count * price - k * price
    BY <1>2, <1>4, <2>1
  <2>4. count * price \in Nat /\ k * price \in Nat
    BY <1>2, <1>4, <2>1
  <2>5. k * price <= count * price
    BY <1>2, <1>4, <2>1, TimesMonotone
  <2> HIDE DEF gross
  <2>6. gross = k * price
    BY DEF gross
  <2>7. gross + left = count * price /\ left \in Int
    BY <2>2, <2>3, <2>4, <2>6
  <2> QED BY <1>4, <2>1, <2>4, <2>5, <2>6, <2>7
<1>6. /\ rest \in SUBSET DOMAIN buyerbids /\ bid \notin rest
      /\ gone \in SUBSET DOMAIN buyerbids /\ \A b \in gone : paidIn[b] = c
  <2>1. paidIn[bid] = c
    BY <1>1 DEF IInv, BookInv, BidBackedByOrderBank
  <2> QED BY <1>1, <2>1, RefundedInOrderCurrency
<1>7. \A a \in Accounts : back[a] = For(a, buyer, left)
  BY DEF PayOne, For
<1>8. back \in [Accounts -> Int]
  <2>1. left \in Int
    BY <1>5
  <2> HIDE DEF left
  <2> QED BY <2>1 DEF PayOne
<1> HIDE DEF row, price, buyer, oid, o, maker, n, own, c, count, k, rest, gross, left, back
<1>9. /\ settle \in [Accounts -> Int] /\ RefundPay(rest) \in [Accounts -> Int]
      /\ \A a \in Accounts : RefundPay(rest)[a] = HeldFor(a, rest)
  BY <1>2, <1>5, <1>6, PartsPay
<1>10. pays \in [Accounts -> Int]
      /\ \A a \in Accounts : pays[a] = settle[a] + (HeldFor(a, rest) + For(a, buyer, left))
  <2> HIDE DEF settle
  <2> QED BY <1>7, <1>8, <1>9, AccountsAreFinite, PayBothSum, BothPay DEF PayBoth
<1>11. Refunds(c, Mart, 0, pays, gone)
  BY <1>1, <1>6, <1>10 DEF Refunds, TakeFromOrder, Accounts
<1>12. ASSUME NEW a \in Traders
       PROVE  HeldFor(a, gone) = HeldFor(a, rest) + For(a, buyer, row.frozen)
              /\ HeldFor(a, rest) \in Nat
  <2> DEFINE R == {b \in rest : buyerbids[b].buyer = a}
             G == {b \in gone : buyerbids[b].buyer = a}
             w == FrozenMoney
  <2>1. /\ R \in SUBSET DOMAIN buyerbids /\ G \in SUBSET DOMAIN buyerbids /\ bid \notin R
        /\ G = IF a = buyer THEN R \cup {bid} ELSE R
    BY <1>1, <1>6 DEF buyer, row
  <2>2. HeldFor(a, gone) = Frozen(G) /\ HeldFor(a, rest) = Frozen(R)
    BY DEF HeldFor
  <2>3. w[bid] = row.frozen
    BY <1>1 DEF FrozenMoney, row
  <2> HIDE DEF R, G, w
  <2>4. /\ Frozen(R) = Sum(w, R) /\ Frozen(R) \in Nat /\ IsFiniteSet(R)
        /\ Frozen(G) = Sum(w, G)
        /\ \A x \in DOMAIN buyerbids : w[x] \in Nat \ {0}
    BY <1>2, <2>1, FrozenIsSum DEF w
  <2>5. CASE a = buyer
    <3>1. \A y \in R \cup {bid} : w[y] \in Int
      BY <1>1, <2>1, <2>4
    <3>2. Sum(w, R \cup {bid}) = w[bid] + Sum(w, R)
      BY <2>1, <2>4, <3>1, SumAdd
    <3>3. For(a, buyer, row.frozen) = row.frozen
      BY <2>5 DEF For
    <3>4. G = R \cup {bid}
      BY <2>1, <2>5
    <3>5. Frozen(G) = row.frozen + Frozen(R)
      BY <2>3, <2>4, <3>2, <3>4
    <3> QED BY <1>2, <2>2, <2>4, <3>3, <3>5
  <2>6. CASE a # buyer
    <3>1. For(a, buyer, row.frozen) = 0 /\ G = R
      BY <2>1, <2>6 DEF For
    <3> QED BY <2>2, <2>4, <3>1
  <2> QED BY <2>5, <2>6
<1>13. ASSUME NEW a \in Traders
       PROVE  pays[a] = settle[a] + HeldFor(a, gone) + For(a, Mart, 0) - For(a, buyer, gross)
  <2>1. a \in Accounts
    BY DEF Traders, Accounts
  <2>2. /\ settle[a] \in Int /\ HeldFor(a, rest) \in Int
        /\ pays[a] = settle[a] + (HeldFor(a, rest) + For(a, buyer, left))
        /\ HeldFor(a, gone) = HeldFor(a, rest) + For(a, buyer, row.frozen)
    BY <1>9, <1>10, <1>12, <2>1
  <2>3. For(a, buyer, left) = For(a, buyer, row.frozen) - For(a, buyer, gross)
    BY <1>2, <1>5 DEF For
  <2>4. /\ For(a, buyer, row.frozen) \in Int /\ For(a, buyer, gross) \in Int
        /\ For(a, Mart, 0) = 0
    BY <1>2, <1>5 DEF For
  <2> HIDE DEF settle, pays
  <2> QED BY <2>2, <2>3, <2>4
<1>14. gross <= Worth(buyer, c)
  <2>1. bid \in BidsBy(buyer, c)
    BY <1>1, <1>2, <1>6 DEF BidsBy, BidsIn, TablesOK, buyer, row
  <2>2. /\ Worth(buyer, c) = money[buyer][c] + Frozen(BidsBy(buyer, c))
        /\ money[buyer][c] \in Nat /\ Frozen(BidsBy(buyer, c)) \in Nat
        /\ buyerbids[bid].frozen <= Frozen(BidsBy(buyer, c))
    BY <1>1, <1>2, <2>1, WorthIs DEF Traders
  <2>3. row.frozen <= Frozen(BidsBy(buyer, c))
    BY <2>2 DEF row
  <2> QED BY <1>2, <1>5, <2>2, <2>3
<1> HIDE DEF pays, gone
<1>15. Deal(maker, buyer, n, c, k, gross, Fee(gross, gstate.dev_fee_rate), IpFee(n, gross))
  <2>1. k \in Nat /\ k <= sellorders[oid].frozen /\ NftMoves(OrderNft(oid), Mart, buyer, k)
    BY <1>1, <1>5 DEF o, n
  <2>2. \A a \in Traders :
           pays[a] = _settle_maker(sellorders[oid].maker, IpOwner[OrderNft(oid)], gross)[a]
                     + HeldFor(a, gone) + For(a, Mart, 0) - For(a, buyer, gross)
    BY <1>13 DEF maker, own, n, o
  <2>3. Deal(sellorders[oid].maker, buyer, OrderNft(oid), c, k, gross,
             Fee(gross, gstate.dev_fee_rate), IpFee(OrderNft(oid), gross))
    BY <1>1, <1>2, <1>5, <1>11, <1>14, <2>1, <2>2, TakeIsDeal
  <2> QED BY <2>3 DEF maker, o, n
<1>16. price \in Prices \cap PostedPrices
  BY <1>1 DEF TradeInv, BidsPriced, PostedPrices, price, row
<1>17. Sale(maker, buyer, n, c, k, price)
  BY <1>5, <1>15, <1>16 DEF Sale, gross
<1> QED BY <1>1, <1>2, <1>17 DEF maker, o, n, buyer, price, row

\* Every step is a sale or trades nothing.
SomeSale ==
    \E k, p : \E seller, buyer \in Users, n \in Nfts, c \in Currencies :
        Sale(seller, buyer, n, c, k, p)

\* One case per action; only BuyNow and takebuybid are sales.
LEMMA StepIsSale ==
    ASSUME OneBankPerSymbol, AmountsFit
    PROVE  IInv /\ CustodyInv /\ MoneyInv /\ TradeInv /\ [Next]_vars => NoDeal \/ SomeSale
<1> SUFFICES ASSUME IInv, CustodyInv, MoneyInv, TradeInv, [Next]_vars
             PROVE  NoDeal \/ SomeSale
  OBVIOUS
<1>0. \A oid \in DOMAIN sellorders : sellorders[oid].maker \in Users
  <2>1. \A oid \in DOMAIN sellorders : sellorders[oid] \in OrderRow
    BY DEF IInv, BookInv, TablesOK, IsTable
  <2> QED BY <2>1 DEF OrderRow
<1>1. CASE Configure \/ UNCHANGED vars
  BY <1>1, UnchangedIsNoDeal
  DEF Configure, init, setfeecollec, addcoinconf, addnftconf, tables, vars
<1>2. CASE Sell
  <2>1. PICK u \in Users, n \in Nfts, p \in Prices, c \in Currencies, k \in Nat :
             _sell_transfer(u, n, k, p, c)
    <3>1. \A u \in Users, n \in Nfts : nft[u][n] \in Nat
      BY DEF IInv, BalancesOK, Accounts
    <3> QED BY <1>2, <3>1 DEF Sell
  <2> QED BY <2>1, SellIsNoDeal
<1>3. CASE Buy
  <2>1. PICK u \in Users, c \in Currencies, q \in Payments, p \in Prices,
             oid \in DOMAIN sellorders : _buy_transfer(u, c, q, oid, p)
    BY <1>3 DEF Buy
  <2>2. CASE BuyNow(u, c, q, oid, p)
    <3>1. OrderNft(oid) \in Nfts
      BY <2>2 DEF BuyNow, NftMoves
    <3>2. \E k : Sale(sellorders[oid].maker, u, OrderNft(oid), c, k, sellorders[oid].price)
      BY <2>2, BuyNowIsSale
    <3> QED BY <1>0, <3>1, <3>2 DEF SomeSale
  <2>3. CASE PlaceBid(u, c, q, oid, p)
    BY <2>3, PlaceBidIsNoDeal
  <2> QED BY <2>1, <2>2, <2>3 DEF _buy_transfer
<1>4. CASE Close
  <2>1. ASSUME NEW u \in Users, NEW b \in BidIds, takebuybid(u, b) PROVE SomeSale
    BY <2>1, TakeBidIsSale DEF SomeSale
  <2>2. ASSUME NEW u \in Users, NEW b \in BidIds, cancelbid(u, b) PROVE NoDeal
    BY <2>2, CancelBidIsNoDeal
  <2>3. ASSUME NEW u \in Users, NEW o \in OrderIds, cancelorder(u, o) PROVE NoDeal
    BY <2>3, CancelOrderIsNoDeal
  <2>4. ASSUME NEW u \in Users, NEW n \in Nfts, cancelorder_all(u, n.id) PROVE NoDeal
    BY <2>4, UnchangedIsNoDeal DEF cancelorder_all, vars
  <2> QED BY <1>4, <2>1, <2>2, <2>3, <2>4 DEF Close
<1> QED BY <1>1, <1>2, <1>3, <1>4 DEF Next

\* A maker's loss of NFTs is paid for, at a price on the table and less the two fees.
PaidFor ==
    \A u \in Users, n \in Nfts :
        Holding(u, n)' < Holding(u, n) =>
            \E c \in Currencies, p \in PostedPrices :
                LET gross == (Holding(u, n) - Holding(u, n)') * p
                    ipfee == IF IpOwner[n] \in {u, NoOwner} THEN 0
                             ELSE Fee(gross, gstate.ipowner_fee_rate)
                IN  Worth(u, c)' - Worth(u, c)
                        = gross - Fee(gross, gstate.dev_fee_rate) - ipfee

\* In a sale the seller alone loses NFTs, and what it earns is what a sale pays.
LEMMA SaleIsPaidFor == IInv /\ TradeInv /\ (NoDeal \/ SomeSale) => PaidFor
<1> SUFFICES ASSUME IInv, TradeInv, NoDeal \/ SomeSale, NEW u \in Users, NEW n \in Nfts,
                    Holding(u, n)' < Holding(u, n)
             PROVE  \E c \in Currencies, p \in PostedPrices :
                        LET gross == (Holding(u, n) - Holding(u, n)') * p
                            ipfee == IF IpOwner[n] \in {u, NoOwner} THEN 0
                                     ELSE Fee(gross, gstate.ipowner_fee_rate)
                        IN  Worth(u, c)' - Worth(u, c)
                                = gross - Fee(gross, gstate.dev_fee_rate) - ipfee
  BY DEF PaidFor
<1>1. Holding(u, n) \in Nat
  BY HoldingIs
<1>1a. PICK k, p : \E seller, buyer \in Users, m \in Nfts, c \in Currencies :
           Sale(seller, buyer, m, c, k, p)
  BY <1>1 DEF SomeSale, NoDeal
<1>2. PICK seller \in Users, buyer \in Users, m \in Nfts, c \in Currencies :
           Sale(seller, buyer, m, c, k, p)
  BY <1>1a
<1> DEFINE gross == k * p
           devfee == Fee(gross, gstate.dev_fee_rate)
           ipfee == IpFee(m, gross)
<1>3. /\ k \in Nat \ {0} /\ p \in Prices \cap PostedPrices /\ p \in Nat
      /\ Deal(seller, buyer, m, c, k, gross, devfee, ipfee)
  BY <1>2, InputsAreNaturals DEF Sale
<1>4. Holding(u, n)' = Holding(u, n)
          + (IF n = m THEN For(u, buyer, k) - For(u, seller, k) ELSE 0)
  BY <1>3 DEF Deal
<1>5. n = m /\ u = seller /\ u # buyer /\ Holding(u, n) - Holding(u, n)' = k
  <2>1. n = m
    BY <1>1, <1>4
  <2>2. For(u, buyer, k) < For(u, seller, k)
    BY <1>1, <1>3, <1>4, <2>1 DEF For
  <2>3. u = seller /\ u # buyer
    BY <1>3, <2>2 DEF For
  <2> QED BY <1>1, <1>3, <1>4, <2>1, <2>3 DEF For
<1>6. devfee \in Int /\ ipfee \in Int /\ gross \in Nat
  <2>1. gross \in Nat
    BY <1>3
  <2> HIDE DEF gross
  <2>2. /\ Fee(gross, gstate.dev_fee_rate) \in 0 .. gross
        /\ Fee(gross, gstate.ipowner_fee_rate) \in 0 .. gross
    BY <2>1, FeesFit DEF TradeInv, IInv
  <2> QED BY <2>1, <2>2 DEF IpFee
<1> DEFINE rest == gross - devfee - ipfee
<1>7. Worth(u, c)' = Worth(u, c) + (For(u, SPLIT_CONTRACT, devfee) + For(u, IpOwner[m], ipfee)
                                        + For(u, seller, rest) - For(u, buyer, gross))
  BY <1>3 DEF Deal, Traders
<1>8. /\ For(u, SPLIT_CONTRACT, devfee) = 0 /\ For(u, seller, rest) = rest
      /\ For(u, buyer, gross) = 0
      /\ For(u, IpOwner[m], ipfee) = IF IpOwner[m] = u THEN ipfee ELSE 0
  BY <1>5, AccountsDistinct DEF For
<1>9. Worth(u, c) \in Nat
  BY WorthIs DEF Traders
<1>10. ipfee = IF IpOwner[n] = NoOwner THEN 0 ELSE Fee(gross, gstate.ipowner_fee_rate)
  BY <1>5 DEF IpFee
<1>11. (Holding(u, n) - Holding(u, n)') * p = gross
  BY <1>5
<1>12. devfee = Fee(gross, gstate.dev_fee_rate)
  OBVIOUS
<1> HIDE DEF gross, devfee, ipfee
<1>13. Worth(u, c)' - Worth(u, c)
           = gross - devfee - (IF IpOwner[n] \in {u, NoOwner} THEN 0
                               ELSE Fee(gross, gstate.ipowner_fee_rate))
  <2>1. CASE IpOwner[m] = u
    <3>1. u # NoOwner
      BY AccountsDistinct DEF Accounts
    <3>2. Worth(u, c)' = Worth(u, c) + (0 + ipfee + (gross - devfee - ipfee) - 0)
      BY <1>7, <1>8, <2>1
    <3>3. Worth(u, c)' - Worth(u, c) = gross - devfee - 0
      BY <1>6, <1>9, <3>2
    <3> QED BY <1>5, <2>1, <3>3
  <2>2. CASE IpOwner[m] # u
    <3>1. Worth(u, c)' = Worth(u, c) + (0 + 0 + (gross - devfee - ipfee) - 0)
      BY <1>7, <1>8, <2>2
    <3>2. Worth(u, c)' - Worth(u, c) = gross - devfee - ipfee
      BY <1>6, <1>9, <3>1
    <3>3. ipfee = IF IpOwner[n] \in {u, NoOwner} THEN 0
                  ELSE Fee(gross, gstate.ipowner_fee_rate)
      BY <1>5, <1>10, <2>2
    <3> QED BY <3>2, <3>3
  <2> QED BY <2>1, <2>2
<1>14. p \in PostedPrices
  BY <1>3
<1> QED BY <1>11, <1>12, <1>13, <1>14

\* The invariant of the trades.
MarketInv == IInv /\ CustodyInv /\ MoneyInv /\ TradeInv

\* It holds throughout, given the two assumptions of solvency.
LEMMA MarketInvariant ==
    ASSUME OneBankPerSymbol, AmountsFit
    PROVE  Spec => []MarketInv
<1>1. MarketInv /\ [Next]_vars => MarketInv'
  BY StepInv, StepCustody, StepMoney, StepTrade DEF MarketInv
<1>2. Init => MarketInv
  BY InitInv, InitCustody, InitMoney, InitTrade DEF MarketInv
<1> QED BY <1>1, <1>2, PTL DEF Spec

\* Whoever parts with NFTs, at once or bid by bid, is paid a posted price for each of
\* them less exactly the two fees, in whatever order payments, bids and takings come.
THEOREM MakersArePaid ==
    ASSUME OneBankPerSymbol, AmountsFit
    PROVE  Spec => MakerIsPaid
<1>1. MarketInv /\ [Next]_vars => PaidFor
  BY StepIsSale, SaleIsPaidFor DEF MarketInv
<1>2. PaidFor =>
        \A u \in Users, n \in Nfts :
          Holding(u, n)' < Holding(u, n) =>
              \E c \in Currencies, p \in PostedPrices :
                  LET gross == (Holding(u, n) - Holding(u, n)') * p
                      ipfee == IF IpOwner[n] \in {u, NoOwner} THEN 0
                               ELSE Fee(gross, gstate.ipowner_fee_rate)
                  IN  Worth(u, c)' - Worth(u, c)
                          = gross - Fee(gross, gstate.dev_fee_rate) - ipfee
  BY DEF PaidFor
<1> QED BY <1>1, <1>2, MarketInvariant, PTL DEF Spec, MakerIsPaid

------------------------------------------------------------------------------
(* The market implements the exchange *)

worthBar == [a \in Traders |-> [c \in Currencies |-> Worth(a, c)]]
holdingBar == [u \in Users |-> [n \in Nfts |-> Holding(u, n)]]

\* A sale of the market is a trade of the exchange.
LEMMA SaleIsTrade == IInv /\ TradeInv /\ SomeSale => Market!Next
<1> SUFFICES ASSUME IInv, TradeInv, SomeSale PROVE Market!Next
  OBVIOUS
<1>0. PICK k, p : \E seller, buyer \in Users, n \in Nfts, c \in Currencies :
           Sale(seller, buyer, n, c, k, p)
  BY DEF SomeSale
<1>1. PICK seller \in Users, buyer \in Users, n \in Nfts, c \in Currencies :
           Sale(seller, buyer, n, c, k, p)
  BY <1>0
<1> DEFINE gross == k * p
           devfee == Fee(gross, gstate.dev_fee_rate)
           ipfee == IpFee(n, gross)
           rest == gross - devfee - ipfee
<1>2. /\ k \in Nat \ {0} /\ p \in Prices /\ p \in Nat
      /\ Deal(seller, buyer, n, c, k, gross, devfee, ipfee)
  BY <1>1, InputsAreNaturals DEF Sale
<1>3. gross \in Nat
  BY <1>2
<1>4. devfee \in 0 .. gross /\ ipfee \in 0 .. gross /\ devfee + ipfee <= gross
  <2> HIDE DEF gross
  <2>1. /\ Fee(gross, gstate.dev_fee_rate) \in 0 .. gross
        /\ Fee(gross, gstate.ipowner_fee_rate) \in 0 .. gross
        /\ Fee(gross, gstate.dev_fee_rate) + Fee(gross, gstate.ipowner_fee_rate) <= gross
    BY <1>3, FeesFit DEF TradeInv, IInv
  <2> QED BY <1>3, <2>1 DEF IpFee
<1>5. IpOwner[n] \in Users \/ ipfee = 0
  BY InputsAreNaturals DEF IpFee
<1> HIDE DEF gross, devfee, ipfee, rest
<1>6. k \in 1 .. holdingBar[seller][n] /\ gross <= worthBar[buyer][c]
  <2>1. /\ holdingBar[seller][n] = Holding(seller, n) /\ worthBar[buyer][c] = Worth(buyer, c)
        /\ Holding(seller, n) \in Nat
    BY HoldingIs DEF holdingBar, worthBar, Traders
  <2> QED BY <1>2, <2>1 DEF Deal
<1>7. holdingBar' = [u \in Users |->
          [holdingBar[u] EXCEPT ![n] =
              @ + Market!Gives(u, buyer, k) - Market!Gives(u, seller, k)]]
  <2>1. \A u \in Users, m \in Nfts : Holding(u, m)' = Holding(u, m)
            + (IF m = n THEN For(u, buyer, k) - For(u, seller, k) ELSE 0)
    BY <1>2 DEF Deal
  <2>2. \A u \in Users, m \in Nfts : Holding(u, m) \in Nat
    BY HoldingIs
  <2>3. \A u \in Users : For(u, buyer, k) \in Nat /\ For(u, seller, k) \in Nat
    BY <1>2 DEF For
  <2>4. \A u \in Users, m \in Nfts : Holding(u, m)' =
            IF m = n THEN Holding(u, m) + For(u, buyer, k) - For(u, seller, k)
            ELSE Holding(u, m)
    BY <2>1, <2>2, <2>3
  <2>5. \A u \in Users : [m \in Nfts |-> Holding(u, m)'] =
            [[m \in Nfts |-> Holding(u, m)] EXCEPT ![n] =
                 @ + For(u, buyer, k) - For(u, seller, k)]
    BY <2>4
  <2>6. /\ \A u \in Users : holdingBar[u] = [m \in Nfts |-> Holding(u, m)]
        /\ holdingBar' = [u \in Users |-> [m \in Nfts |-> Holding(u, m)']]
        /\ \A a, b, x : Market!Gives(a, b, x) = For(a, b, x)
    BY DEF holdingBar, For, Market!Gives
  <2> QED BY <2>5, <2>6
<1>8. worthBar' = [a \in Traders |->
          [worthBar[a] EXCEPT ![c] =
              @ - Market!Gives(a, buyer, gross)
                + Market!Gives(a, seller, gross - devfee - ipfee)
                + Market!Gives(a, SPLIT_CONTRACT, devfee) + Market!Gives(a, IpOwner[n], ipfee)]]
  <2>1. \A a \in Traders, d \in Currencies : Worth(a, d)' = Worth(a, d)
            + (IF d = c THEN For(a, SPLIT_CONTRACT, devfee) + For(a, IpOwner[n], ipfee)
                               + For(a, seller, rest) - For(a, buyer, gross)
               ELSE 0)
    BY <1>2 DEF Deal, rest
  <2>2. \A a \in Traders, d \in Currencies : Worth(a, d) \in Nat
    BY WorthIs
  <2>3. \A a \in Traders : /\ For(a, buyer, gross) \in Int /\ For(a, seller, rest) \in Int
                           /\ For(a, SPLIT_CONTRACT, devfee) \in Int
                           /\ For(a, IpOwner[n], ipfee) \in Int
    BY <1>3, <1>4 DEF For, rest
  <2>4. \A a \in Traders, d \in Currencies : Worth(a, d)' =
            IF d = c THEN Worth(a, d) - For(a, buyer, gross) + For(a, seller, rest)
                            + For(a, SPLIT_CONTRACT, devfee) + For(a, IpOwner[n], ipfee)
            ELSE Worth(a, d)
    <3> TAKE a \in Traders, d \in Currencies
    <3>1. CASE d = c
      BY <2>1, <2>2, <2>3, <3>1
    <3>2. CASE d # c
      BY <2>1, <2>2, <3>2
    <3> QED BY <3>1, <3>2
  <2>5. \A a \in Traders : [d \in Currencies |-> Worth(a, d)'] =
            [[d \in Currencies |-> Worth(a, d)] EXCEPT ![c] =
                 @ - For(a, buyer, gross) + For(a, seller, rest)
                   + For(a, SPLIT_CONTRACT, devfee) + For(a, IpOwner[n], ipfee)]
    BY <2>4
  <2>6. /\ \A a \in Traders : worthBar[a] = [d \in Currencies |-> Worth(a, d)]
        /\ worthBar' = [a \in Traders |-> [d \in Currencies |-> Worth(a, d)']]
        /\ \A a, b, x : Market!Gives(a, b, x) = For(a, b, x)
    BY DEF worthBar, For, Market!Gives
  <2> QED BY <2>5, <2>6 DEF rest
<1>9. Market!Trade(seller, buyer, n, c, k, p, devfee, ipfee)
  BY <1>4, <1>6, <1>7, <1>8 DEF Market!Trade, worthBar, holdingBar, Traders, gross
<1> QED BY <1>2, <1>4, <1>5, <1>6, <1>9 DEF Market!Next, holdingBar, gross

\* Every transaction is one trade of the exchange or changes nobody's worth and
\* holding, whatever was listed, rested, refunded or left behind before: the order
\* book, the refund limit and the two tables of the market cannot be told from outside.
THEOREM MarketImplementsExchange ==
    ASSUME OneBankPerSymbol, AmountsFit
    PROVE  Spec => ImplementsExchange
<1>1. Init => /\ \A u \in Users : \A n \in Nfts : holdingBar[u][n] >= 0
              /\ \A a \in Traders : \A c \in Currencies : worthBar[a][c] >= 0
  <2> SUFFICES ASSUME IInv
               PROVE  /\ \A u \in Users : \A n \in Nfts : holdingBar[u][n] >= 0
                      /\ \A a \in Traders : \A c \in Currencies : worthBar[a][c] >= 0
    BY InitInv
  <2>1. \A u \in Users, n \in Nfts : Holding(u, n) \in Nat
    BY HoldingIs
  <2>2. \A a \in Traders, c \in Currencies : Worth(a, c) \in Nat
    BY WorthIs
  <2> QED BY <2>1, <2>2 DEF holdingBar, worthBar
<1>2. MarketInv /\ [Next]_vars => [Market!Next]_<<worthBar, holdingBar>>
  <2>1. NoDeal => UNCHANGED <<worthBar, holdingBar>>
    BY DEF NoDeal, worthBar, holdingBar
  <2> QED BY <2>1, StepIsSale, SaleIsTrade DEF MarketInv
<1> QED BY <1>1, <1>2, MarketInvariant, PTL
        DEF Spec, ImplementsExchange, Market!Spec, worthBar, holdingBar, Traders
------------------------------------------------------------------------------
(* Which bids a closing order leaves behind *)

\* Of the elements below a late one, those with fewer than M before them are at least
\* M, if there are as many at all.
LEMMA FirstOnesAreEnough ==
    ASSUME NEW W, IsFiniteSet(W), W \subseteq Int, NEW M \in Nat, NEW late \in Int,
           ~ (Cardinality({a \in W : a < late}) < M)
    PROVE  Cardinality({b \in W : b < late /\ Cardinality({a \in W : a < b}) < M}) >= M
<1> DEFINE L == {a \in W : a < late}
           R == {b \in W : b < late /\ Cardinality({a \in W : a < b}) < M}
<1>1. /\ L \subseteq W /\ R \subseteq L
  OBVIOUS
<1>2. IsFiniteSet(L) /\ IsFiniteSet(R) /\ IsFiniteSet(L \ R)
  BY <1>1, FS_Subset
<1>3. Cardinality(L) \in Nat /\ Cardinality(R) \in Nat
  BY <1>2, FS_CardinalityType
<1>4. SUFFICES ASSUME Cardinality(R) < M PROVE FALSE
  BY <1>3
<1>5. L \ R # {}
  <2>1. L # R
    BY <1>3, <1>4
  <2> QED BY <1>1, <2>1
<1>6. PICK x \in L \ R : \A y \in L \ R : x <= y
  <2> DEFINE h == [y \in L \ R |-> y]
             D == L \ R
  <2>1. \A y \in D : h[y] = y /\ h[y] \in Int
    BY <1>1
  <2> HIDE DEF h, D
  <2>2. PICK x \in D : \A y \in D : h[x] <= h[y]
    BY <1>2, <1>5, <2>1, LeastOf DEF D
  <2> QED BY <2>1, <2>2 DEF D
<1> DEFINE B == {a \in W : a < x}
<1>7. B \subseteq R
  <2> SUFFICES ASSUME NEW a \in W, a < x, a \notin R PROVE FALSE
    OBVIOUS
  <2>1. a \in L
    BY <1>1, <1>6
  <2>2. x <= a
    BY <1>6, <2>1
  <2>3. a \in Int /\ x \in Int
    BY <1>1
  <2> QED BY <2>2, <2>3
<1>8. Cardinality(B) <= Cardinality(R) /\ Cardinality(B) \in Nat
  BY <1>2, <1>7, FS_Subset, FS_CardinalityType
<1>9. Cardinality(B) < M
  BY <1>3, <1>4, <1>8
<1> QED BY <1>6, <1>9

\* An order that closes refunds the oldest of its bids.
LEMMA RefundsOldest ==
    ASSUME GlobalsOK, TablesOK, NEW oid, NEW taken, NEW gone,
           _refund_buyer_bid(oid, taken) \subseteq gone, taken \in gone \/ taken \notin BidsOn(oid),
           buyerbids' = Erase(buyerbids, gone),
           NEW late \in BidsOn(oid) \cap DOMAIN buyerbids'
    PROVE  Cardinality({b \in BidsOn(oid) \ DOMAIN buyerbids' : b < late}) >= MAX_REFUND_COUNT
<1> DEFINE W == BidsOn(oid) \ {taken}
           R == {b \in W : b < late /\ Cardinality({a \in W : a < b}) < MAX_REFUND_COUNT}
           G == {b \in BidsOn(oid) \ DOMAIN buyerbids' : b < late}
<1>1. /\ gstate.last_deal_idx \in Nat /\ MAX_REFUND_COUNT \in Nat
      /\ DOMAIN buyerbids \subseteq 1 .. gstate.last_deal_idx
      /\ BidsOn(oid) \subseteq DOMAIN buyerbids
  BY BoundsAreNaturals DEF GlobalsOK, TablesOK, IsTable, BidsOn
<1>2. W \subseteq Int /\ late \in Int
  BY <1>1
<1>3. IsFiniteSet(W) /\ IsFiniteSet(G)
  <2>1. IsFiniteSet(DOMAIN buyerbids) /\ W \subseteq DOMAIN buyerbids
        /\ G \subseteq DOMAIN buyerbids
    BY <1>1, BookIsFinite
  <2> QED BY <2>1, FS_Subset
<1>4. DOMAIN buyerbids' = DOMAIN buyerbids \ gone
  BY DEF Erase
<1>5. late \in W /\ late \notin _refund_buyer_bid(oid, taken)
  BY <1>4
<1>6. ~ (Cardinality({a \in W : a < late}) < MAX_REFUND_COUNT)
  BY <1>5 DEF _refund_buyer_bid
<1>7. Cardinality(R) >= MAX_REFUND_COUNT
  <2> HIDE DEF W
  <2> QED BY <1>1, <1>2, <1>3, <1>6, FirstOnesAreEnough
<1>8. R \subseteq G
  BY <1>4 DEF _refund_buyer_bid
<1>9. Cardinality(R) <= Cardinality(G) /\ Cardinality(R) \in Nat /\ Cardinality(G) \in Nat
  BY <1>3, <1>8, FS_Subset, FS_CardinalityType
<1> HIDE DEF R, G
<1>10. Cardinality(G) >= MAX_REFUND_COUNT
  BY <1>1, <1>7, <1>9
<1> QED BY <1>10 DEF G

\* What OnlyLateBidsStayBehind says of one step.
LateOnly ==
    \A oid \in DOMAIN sellorders \ DOMAIN sellorders' :
        \A late \in BidsOn(oid) \cap DOMAIN buyerbids' :
            Cardinality({b \in BidsOn(oid) \ DOMAIN buyerbids' : b < late})
                >= MAX_REFUND_COUNT

\* An order leaves only when it is sold out, and then takes its refunds along.
LEMMA TakeLeavesLate ==
    ASSUME GlobalsOK, TablesOK, NEW oid \in DOMAIN sellorders, NEW sold, NEW gone, NEW taken,
           TakeFromOrder(oid, sold, gone),
           taken \in gone \/ taken \notin BidsOn(oid),
           sold = sellorders[oid].frozen => _refund_buyer_bid(oid, taken) \subseteq gone
    PROVE  LateOnly
<1>1. CASE sold = sellorders[oid].frozen
  <2>1. /\ DOMAIN sellorders' = DOMAIN sellorders \ {oid}
        /\ buyerbids' = Erase(buyerbids, gone)
    BY <1>1 DEF TakeFromOrder, Erase
  <2>2. \A late \in BidsOn(oid) \cap DOMAIN buyerbids' :
           Cardinality({b \in BidsOn(oid) \ DOMAIN buyerbids' : b < late}) >= MAX_REFUND_COUNT
    BY <1>1, <2>1, RefundsOldest
  <2> QED BY <2>1, <2>2 DEF LateOnly
<1>2. CASE sold # sellorders[oid].frozen
  <2>1. DOMAIN sellorders' = DOMAIN sellorders
    BY <1>2 DEF TakeFromOrder
  <2> QED BY <2>1 DEF LateOnly
<1> QED BY <1>1, <1>2

\* Every step that ends an order refunds its oldest bids first.
LEMMA StepLeavesLate == IInv /\ [Next]_vars => LateOnly
<1> SUFFICES ASSUME IInv, [Next]_vars PROVE LateOnly
  OBVIOUS
<1>0. /\ GlobalsOK /\ TablesOK
      /\ \A oid : 0 \notin BidsOn(oid)
  BY DEF IInv, BookInv, TablesOK, IsTable, BidsOn, GlobalsOK
<1>1. DOMAIN sellorders \subseteq DOMAIN sellorders' => LateOnly
  BY DEF LateOnly
<1>2. CASE Configure \/ UNCHANGED vars
  BY <1>1, <1>2 DEF Configure, init, setfeecollec, addcoinconf, addnftconf, tables, vars
<1>3. CASE Sell
  BY <1>1, <1>3 DEF Sell, _sell_transfer, Emplace
<1>4. CASE Buy
  <2>1. PICK u \in Users, c \in Currencies, q \in Payments, p \in Prices,
             oid \in DOMAIN sellorders : _buy_transfer(u, c, q, oid, p)
    BY <1>4 DEF Buy
  <2>2. CASE BuyNow(u, c, q, oid, p)
    <3> DEFINE sold == process_single_buy_order(sellorders[oid], q).bought
               gone == IF sold = sellorders[oid].frozen THEN _refund_buyer_bid(oid, 0) ELSE {}
    <3>1. TakeFromOrder(oid, sold, gone)
      BY <2>2 DEF BuyNow
    <3>2. sold = sellorders[oid].frozen => _refund_buyer_bid(oid, 0) \subseteq gone
      OBVIOUS
    <3> HIDE DEF sold, gone
    <3> QED BY <1>0, <3>1, <3>2, TakeLeavesLate
  <2>3. CASE PlaceBid(u, c, q, oid, p)
    BY <1>1, <2>3 DEF PlaceBid
  <2> QED BY <2>1, <2>2, <2>3 DEF _buy_transfer
<1>5. CASE Close
  <2>1. ASSUME NEW u \in Users, NEW b \in BidIds, takebuybid(u, b) PROVE LateOnly
    <3> DEFINE row == buyerbids[b]
               oid == row.sell_order_id
               count == row.frozen \div row.price
               size == sellorders[oid].frozen
               sold == IF count < size THEN count ELSE size
               rest == IF count < size THEN {} ELSE _refund_buyer_bid(oid, b)
               gone == rest \cup {b}
    <3>1. /\ oid \in DOMAIN sellorders /\ b \in DOMAIN buyerbids
          /\ TakeFromOrder(oid, sold, gone)
      BY <2>1 DEF takebuybid
    <3>2. size \in Nat /\ count \in Nat
      <4>1. sellorders[oid] \in OrderRow /\ row \in BidRow
        BY <3>1 DEF IInv, BookInv, TablesOK, IsTable
      <4>2. row.frozen \in Nat /\ row.price \in Nat \ {0}
        <5> HIDE DEF row
        <5> QED BY <4>1 DEF BidRow
      <4> HIDE DEF row
      <4> QED BY <4>1, <4>2, Quotient DEF OrderRow
    <3>3. sold = size => _refund_buyer_bid(oid, b) \subseteq gone
      <4> HIDE DEF count, size
      <4> QED BY <3>2
    <3>4. b \in gone
      OBVIOUS
    <3>5. sold = sellorders[oid].frozen => _refund_buyer_bid(oid, b) \subseteq gone
      BY <3>3
    <3> HIDE DEF row, oid, count, size, sold, gone
    <3> QED BY <1>0, <3>1, <3>4, <3>5, TakeLeavesLate
  <2>2. ASSUME NEW u \in Users, NEW b \in BidIds, cancelbid(u, b) PROVE LateOnly
    BY <1>1, <2>2 DEF cancelbid
  <2>3. ASSUME NEW u \in Users, NEW o \in OrderIds, cancelorder(u, o) PROVE LateOnly
    <3>1. /\ o \in DOMAIN sellorders
          /\ TakeFromOrder(o, sellorders[o].frozen, _refund_buyer_bid(o, 0))
      BY <2>3 DEF cancelorder
    <3> QED BY <1>0, <3>1, TakeLeavesLate
  <2>4. ASSUME NEW u \in Users, NEW n \in Nfts, cancelorder_all(u, n.id) PROVE LateOnly
    BY <1>1, <2>4 DEF cancelorder_all, vars
  <2> QED BY <1>5, <2>1, <2>2, <2>3, <2>4 DEF Close
<1> QED BY <1>2, <1>3, <1>4, <1>5 DEF Next

\* However an order ends, a bid it leaves behind is one beyond the refund limit: as
\* many older bids as the limit allows were paid back in that transaction.
THEOREM LateBidsStayBehind == Spec => OnlyLateBidsStayBehind
<1>1. IInv /\ [Next]_vars => LateOnly
  BY StepLeavesLate
<1>2. LateOnly =>
        \A oid \in DOMAIN sellorders \ DOMAIN sellorders' :
          \A late \in BidsOn(oid) \cap DOMAIN buyerbids' :
              Cardinality({b \in BidsOn(oid) \ DOMAIN buyerbids' : b < late})
                  >= MAX_REFUND_COUNT
  BY DEF LateOnly
<1> QED BY <1>1, <1>2, Invariant, PTL DEF Spec, OnlyLateBidsStayBehind
------------------------------------------------------------------------------
(* What the market holds can be taken out *)

\* Every order is of an NFT there is, at a price in a currency there is.
OrdersNamed ==
    \A oid \in DOMAIN sellorders : OrderNft(oid) \in Nfts /\ OrderCurrency(oid) \in Currencies

\* Only a sale makes an order, and it names what was sent and an offered currency.
LEMMA StepNamed == IInv /\ OrdersNamed /\ [Next]_vars => OrdersNamed'
<1> SUFFICES ASSUME IInv, OrdersNamed, [Next]_vars PROVE OrdersNamed'
  OBVIOUS
<1>1. /\ DOMAIN odextension = DOMAIN sellorders
      /\ DOMAIN odextension' = DOMAIN sellorders'
      /\ IsTable(sellorders, 1 .. gstate.last_buy_order_idx, OrderRow)
      /\ IsTable(odextension, 1 .. gstate.last_buy_order_idx, ExtensionRow)
  BY StepInv DEF IInv, BookInv, OrderHasExtension, TablesOK
<1>2. ASSUME NEW x \in DOMAIN sellorders \cap DOMAIN sellorders'
      PROVE  OrderNft(x)' \in Nfts /\ OrderCurrency(x)' \in Currencies
  <2>1. /\ sellorders'[x] = [sellorders[x] EXCEPT !.frozen = sellorders'[x].frozen]
        /\ odextension'[x] = odextension[x]
    BY StepKeepsTerms DEF SameTerms
  <2>2. sellorders[x] \in OrderRow
    BY <1>1 DEF IsTable
  <2>3. sellorders'[x].token = sellorders[x].token /\ sellorders'[x].symbol = sellorders[x].symbol
    BY <2>1, <2>2 DEF OrderRow
  <2>4. OrderNft(x)' = OrderNft(x) /\ OrderCurrency(x)' = OrderCurrency(x)
    BY <1>1, <2>1, <2>3 DEF OrderNft, OrderCurrency, _get_order_extension, Currency
  <2> QED BY <2>4 DEF OrdersNamed
<1>3. (\A x \in DOMAIN sellorders' : x \in DOMAIN sellorders) => OrdersNamed'
  BY <1>2 DEF OrdersNamed
<1>4. CASE Sell
  <2>1. PICK u \in Users, n \in Nfts, p \in Prices, c \in Currencies :
            \E k \in 1 .. nft[u][n] : _sell_transfer(u, n, k, p, c)
    BY <1>4 DEF Sell
  <2>2. PICK k : _sell_transfer(u, n, k, p, c)
    BY <2>1
  <2>3. PICK oid, row, ext :
            /\ sellorders' = Emplace(sellorders, oid, row)
            /\ odextension' = Emplace(odextension, oid, ext)
            /\ row.token = n.id /\ row.symbol = c.symbol
            /\ ext.nft_contract = n.bank /\ ext.asset_contract = c.bank
    <3> DEFINE row == [token |-> n.id, price |-> p, symbol |-> c.symbol,
                       frozen |-> k, maker |-> u]
               ext == [nft_contract |-> n.bank, asset_contract |-> c.bank]
    <3>1. /\ sellorders' = Emplace(sellorders, NextOrderId, row)
          /\ odextension' = Emplace(odextension, NextOrderId, ext)
      BY <2>2 DEF _sell_transfer
    <3>2. row.token = n.id /\ row.symbol = c.symbol
          /\ ext.nft_contract = n.bank /\ ext.asset_contract = c.bank
      OBVIOUS
    <3> HIDE DEF row, ext
    <3> QED BY <3>1, <3>2
  <2>4. DOMAIN sellorders' = DOMAIN sellorders \cup {oid} /\ sellorders'[oid] = row
    <3>1. sellorders' = Emplace(sellorders, oid, row)
      BY <2>3
    <3> QED BY <3>1 DEF Emplace
  <2>5. oid \in DOMAIN odextension' /\ odextension'[oid] = ext
    <3>1. odextension' = Emplace(odextension, oid, ext)
      BY <2>3
    <3> QED BY <3>1 DEF Emplace
  <2>6. OrderNft(oid)' = n /\ OrderCurrency(oid)' = c
    <3>1. /\ [bank |-> n.bank, id |-> n.id] = n
          /\ [bank |-> c.bank, symbol |-> c.symbol] = c
      BY KeysArePairs
    <3>2. /\ OrderNft(oid)' = [bank |-> ext.nft_contract, id |-> row.token]
          /\ OrderCurrency(oid)' = [bank |-> ext.asset_contract, symbol |-> row.symbol]
      BY <2>4, <2>5 DEF OrderNft, OrderCurrency, _get_order_extension, Currency
    <3> QED BY <2>3, <3>1, <3>2
  <2>7. ASSUME NEW x \in DOMAIN sellorders'
        PROVE  OrderNft(x)' \in Nfts /\ OrderCurrency(x)' \in Currencies
    <3>1. CASE x = oid
      BY <2>6, <3>1
    <3>2. CASE x \in DOMAIN sellorders
      BY <1>2, <3>2
    <3> QED BY <2>4, <3>1, <3>2
  <2> QED BY <2>7 DEF OrdersNamed
<1>5. CASE Configure \/ UNCHANGED vars
  BY <1>3, <1>5 DEF Configure, init, setfeecollec, addcoinconf, addnftconf, tables, vars
<1>6. CASE Buy
  BY <1>3, <1>6 DEF Buy, _buy_transfer, BuyNow, PlaceBid, TakeFromOrder, Erase
<1>7. CASE Close
  BY <1>3, <1>7 DEF Close, takebuybid, cancelbid, cancelorder, cancelorder_all,
                    TakeFromOrder, Erase, vars
<1> QED BY <1>4, <1>5, <1>6, <1>7 DEF Next

LEMMA InitNamed == Init => OrdersNamed
BY DEF Init, OrdersNamed, EmptyTable

\* The checks that the token contracts make: of MoneyMoves, and of NftMoves out of the market.
CanMove(c, from, quant, p) ==
    /\ c \in Currencies
    /\ money[from][c] >= quant
    /\ p \in [Accounts -> Nat]
    /\ SumFunction(p) \in 0 .. money[Mart][c] + quant
CanSend(n, count) == n \in Nfts /\ nft[Mart][n] >= count

\* The balances after a batch and after a delivery.
Moved(c, from, quant, p) ==
    [a \in Accounts |->
        [money[a] EXCEPT ![c] =
            @ + p[a] + (IF a = Mart THEN quant - SumFunction(p) ELSE 0)
                     - (IF a = from THEN quant ELSE 0)]]
Sent(n, to, count) ==
    [a \in Accounts |->
        [nft[a] EXCEPT ![n] = @ + (IF a = to THEN count ELSE 0)
                                - (IF a = Mart THEN count ELSE 0)]]

\* The checks are all that stands between a batch, or a delivery, and its effect.
LEMMA MoveIs ==
    ASSUME NEW c, NEW from, NEW quant, NEW p
    PROVE  MoneyMoves(c, from, quant, p)
              <=> CanMove(c, from, quant, p) /\ money' = Moved(c, from, quant, p)
BY DEF MoneyMoves, CanMove, Moved

LEMMA SendIs ==
    ASSUME NEW n, NEW to, NEW count
    PROVE  NftMoves(n, Mart, to, count) <=> CanSend(n, count) /\ nft' = Sent(n, to, count)
BY DEF NftMoves, CanSend, Sent

\* The parts of a batch go out when the market has what they come to.
LEMMA BatchCanMove ==
    ASSUME BalancesOK, NEW c \in Currencies, NEW from \in Accounts, NEW quant \in Nat,
           money[from][c] >= quant, NEW p, NEW total \in Nat, Pays(p, total),
           \A a \in Accounts : p[a] >= 0, total <= money[Mart][c] + quant
    PROVE  CanMove(c, from, quant, p)
<1>1. p \in [Accounts -> Int] /\ SumFunction(p) = total
  BY DEF Pays
<1>2. p \in [Accounts -> Nat]
  BY <1>1
<1>3. money[Mart][c] \in Nat
  BY DEF BalancesOK, Accounts
<1> QED BY <1>1, <1>2, <1>3 DEF CanMove

\* No part of a settlement, of refunds and of change is negative.
LEMMA PartsArePositive ==
    ASSUME IInv, TradeInv, NEW maker \in Users, NEW own \in Users \cup {NoOwner},
           NEW gross \in Nat, NEW gone \in SUBSET DOMAIN buyerbids,
           NEW u \in Users, NEW left \in Nat, NEW a \in Accounts
    PROVE  PayBoth(_settle_maker(maker, own, gross),
                   PayBoth(RefundPay(gone), PayOne(Accounts, u, left)))[a] >= 0
<1> DEFINE s == _settle_maker(maker, own, gross)
           r == RefundPay(gone)
           l == PayOne(Accounts, u, left)
           devfee == Fee(gross, gstate.dev_fee_rate)
           fee == Fee(gross, gstate.ipowner_fee_rate)
           ipfee == IF own = NoOwner THEN 0 ELSE fee
           rest == gross - devfee - ipfee
<1>1. GlobalsOK /\ TablesOK /\ RatesFit
  BY DEF IInv, BookInv, TradeInv
<1>2. devfee \in 0 .. gross /\ fee \in 0 .. gross /\ devfee + fee <= gross
  BY <1>1, FeesFit
<1>3. s[a] = For(a, SPLIT_CONTRACT, devfee) + (For(a, own, ipfee) + For(a, maker, rest))
  BY SettlementOf
<1>4. /\ s \in [Accounts -> Int] /\ r \in [Accounts -> Int]
      /\ r[a] = HeldFor(a, gone)
  BY PartsPay
<1>5. r[a] \in Nat
  <2>1. {b \in gone : buyerbids[b].buyer = a} \in SUBSET DOMAIN buyerbids
    OBVIOUS
  <2>2. Frozen({b \in gone : buyerbids[b].buyer = a}) \in Nat
    BY <1>1, <2>1, FrozenIsSum
  <2> QED BY <1>4, <2>2 DEF HeldFor
<1>6. l[a] \in Nat
  BY DEF PayOne
<1>7. DOMAIN s = Accounts /\ DOMAIN r = Accounts
  BY <1>4
<1> HIDE DEF s, r, l, devfee, fee
<1>8. devfee \in Nat /\ ipfee \in Nat /\ rest \in Nat
  BY <1>2
<1> HIDE DEF ipfee, rest
<1>9. s[a] \in Nat
  BY <1>3, <1>8 DEF For
<1>10. PayBoth(s, PayBoth(r, l))[a] = s[a] + (r[a] + l[a])
  <2>1. PayBoth(r, l)[a] = r[a] + l[a]
    BY <1>7, BothPay
  <2> QED BY <1>7, <2>1, BothPay
<1>11. s[a] + (r[a] + l[a]) >= 0
  BY <1>5, <1>6, <1>9
<1> QED BY <1>10, <1>11 DEF s, r, l

\* What some bids of a currency froze is in the market.
LEMMA FrozenIsThere ==
    ASSUME IInv, MoneyInv, NEW c \in Currencies, NEW B \in SUBSET DOMAIN buyerbids,
           \A b \in B : paidIn[b] = c
    PROVE  /\ Frozen(B) \in Nat /\ money[Mart][c] \in Nat
           /\ Frozen(B) <= money[Mart][c]
<1> DEFINE all == BidsIn(c)
           w == FrozenMoney
<1>1. GlobalsOK /\ TablesOK /\ BalancesOK /\ all \in SUBSET DOMAIN buyerbids /\ B \in SUBSET all
  BY DEF IInv, BookInv, BidsIn
<1>2. money[Mart][c] = Frozen(all)
  BY DEF MoneyInv, Solvent
<1> HIDE DEF all, w
<1>3. /\ Frozen(all) = Sum(w, all) /\ Frozen(all) \in Nat /\ IsFiniteSet(all)
      /\ \A x \in all : w[x] \in Nat /\ w[x] \in Int
  BY <1>1, FrozenIsSum DEF w
<1>4. Frozen(B) = Sum(w, B) /\ Frozen(B) \in Nat
  BY <1>1, FrozenIsSum DEF w
<1>5. Sum(w, all) = Sum(w, B) + Sum(w, all \ B)
  BY <1>1, <1>3, SumSplit
<1>6. Sum(w, all \ B) \in Nat
  <2>1. all \ B \in SUBSET all
    OBVIOUS
  <2> QED BY <1>3, <2>1, SumNat
<1> QED BY <1>2, <1>3, <1>4, <1>5, <1>6

\* An order's NFTs are in the market.
LEMMA OfferIsThere ==
    ASSUME IInv, CustodyInv, OrdersNamed, NEW oid \in DOMAIN sellorders, NEW count \in Nat,
           count <= sellorders[oid].frozen
    PROVE  CanSend(OrderNft(oid), count)
<1> DEFINE n == OrderNft(oid)
           O == OrdersOf(n)
           w == FrozenNfts
<1>1. n \in Nfts
  BY DEF OrdersNamed
<1>2. O \in SUBSET DOMAIN sellorders /\ oid \in O /\ GlobalsOK /\ TablesOK
  BY DEF OrdersOf, IInv, BookInv
<1>3. w[oid] = sellorders[oid].frozen
  BY DEF FrozenNfts
<1>4. nft[Mart][n] = Listed(O)
  BY <1>1 DEF CustodyInv, NftCustody
<1> HIDE DEF n, O, w
<1>5. /\ Listed(O) = Sum(w, O) /\ Listed(O) \in Nat /\ IsFiniteSet(O)
      /\ \A x \in O : w[x] \in Nat
  BY <1>2, ListedIsSum DEF w
<1>6. w[oid] <= Sum(w, O) /\ w[oid] \in Nat
  BY <1>2, <1>5, SumCovers
<1> QED BY <1>1, <1>3, <1>4, <1>5, <1>6 DEF CanSend, n

\* What cancelorder, cancelbid, takebuybid and a purchase need of the market's balances.
CanCancelOrder(oid) ==
    /\ CanSend(OrderNft(oid), sellorders[oid].frozen)
    /\ CanMove(OrderCurrency(oid), Mart, 0, RefundPay(_refund_buyer_bid(oid, 0)))
BidCurrency(row) ==
    Currency(_get_order_extension(row.sell_order_id).asset_contract, row.symbol)
CanCancelBid(b) ==
    LET row == buyerbids[b]
    IN  CanMove(BidCurrency(row), Mart, 0, PayOne(Accounts, row.buyer, row.frozen))
CanTakeBid(b) ==
    LET oid == buyerbids[b].sell_order_id
    IN  CanSend(OrderNft(oid), TakenNfts(b)) /\ CanMove(OrderCurrency(oid), Mart, 0, TakenBatch(b))
CanBuy(u, q, oid) ==
    /\ CanSend(OrderNft(oid), process_single_buy_order(sellorders[oid], q).bought)
    /\ CanMove(OrderCurrency(oid), u, q, DealBatch(u, q, oid))

\* That, and who calls, is all that each of them needs: the rest of it is assignments.
LEMMA CancelOrderIs ==
    ASSUME NEW u, NEW oid \in DOMAIN sellorders
    PROVE  cancelorder(u, oid) <=>
              /\ u = sellorders[oid].maker
              /\ CanCancelOrder(oid)
              /\ TakeFromOrder(oid, sellorders[oid].frozen, _refund_buyer_bid(oid, 0))
              /\ nft' = Sent(OrderNft(oid), u, sellorders[oid].frozen)
              /\ money' = Moved(OrderCurrency(oid), Mart, 0,
                                RefundPay(_refund_buyer_bid(oid, 0)))
              /\ UNCHANGED <<gstate, gstate1>>
BY MoveIs, SendIs DEF cancelorder, CanCancelOrder

LEMMA CancelBidIs ==
    ASSUME NEW u, NEW b \in DOMAIN buyerbids
    PROVE  cancelbid(u, b) <=>
              /\ u = buyerbids[b].buyer
              /\ CanCancelBid(b)
              /\ money' = Moved(BidCurrency(buyerbids[b]), Mart, 0,
                                PayOne(Accounts, u, buyerbids[b].frozen))
              /\ buyerbids' = Erase(buyerbids, {b})
              /\ paidIn' = Erase(paidIn, {b})
              /\ UNCHANGED <<gstate, gstate1, sellorders, odextension, nft>>
BY MoveIs DEF cancelbid, CanCancelBid, BidCurrency

LEMMA TakeBidIs ==
    ASSUME NEW u, NEW b \in DOMAIN buyerbids
    PROVE  LET oid == buyerbids[b].sell_order_id
           IN  takebuybid(u, b) <=>
                  /\ oid \in DOMAIN sellorders
                  /\ u = sellorders[oid].maker
                  /\ CanTakeBid(b)
                  /\ TakeFromOrder(oid, TakenNfts(b), TakenGone(b) \cup {b})
                  /\ nft' = Sent(OrderNft(oid), buyerbids[b].buyer, TakenNfts(b))
                  /\ money' = Moved(OrderCurrency(oid), Mart, 0, TakenBatch(b))
                  /\ UNCHANGED <<gstate, gstate1>>
BY MoveIs, SendIs DEF takebuybid, CanTakeBid, TakenNfts, TakenGone, TakenBatch

LEMMA BuyIs ==
    ASSUME NEW u, NEW q, NEW price, NEW oid \in DOMAIN sellorders
    PROVE  LET bought == process_single_buy_order(sellorders[oid], q).bought
               c == OrderCurrency(oid)
           IN  BuyNow(u, c, q, oid, price) <=>
                  /\ PaymentFits(oid, c, q, price)
                  /\ sellorders[oid].price <= price
                  /\ CanBuy(u, q, oid)
                  /\ TakeFromOrder(oid, bought, DealGone(q, oid))
                  /\ nft' = Sent(OrderNft(oid), u, bought)
                  /\ money' = Moved(c, u, q, DealBatch(u, q, oid))
                  /\ UNCHANGED <<gstate, gstate1>>
BY MoveIs, SendIs DEF BuyNow, CanBuy, DealGone, DealBatch

\* The bids whose order is gone, and with it the name of the contract they were paid in,
\* when that is not the default one.
Stranded ==
    {b \in DOMAIN buyerbids :
        buyerbids[b].sell_order_id \notin DOMAIN sellorders /\ paidIn[b].bank # MUSDT_BANK}

OpenInv == MarketInv /\ OrdersNamed

LEMMA OpenInvariant ==
    ASSUME OneBankPerSymbol, AmountsFit
    PROVE  Spec => []OpenInv
<1>1. Spec => []MarketInv
  BY MarketInvariant
<1>2. MarketInv /\ OrdersNamed /\ [Next]_vars => OrdersNamed'
  BY StepNamed DEF MarketInv
<1>3. Init => OrdersNamed
  BY InitNamed
<1>4. OpenInv <=> MarketInv /\ OrdersNamed
  BY DEF OpenInv
<1> QED BY <1>1, <1>2, <1>3, <1>4, PTL DEF Spec

\* An order can be withdrawn at any time.
LEMMA OrderComesBack ==
    ASSUME OpenInv, NEW oid \in DOMAIN sellorders
    PROVE  CanCancelOrder(oid)
<1> DEFINE gone == _refund_buyer_bid(oid, 0)
           c == OrderCurrency(oid)
<1>1. IInv /\ CustodyInv /\ MoneyInv /\ GlobalsOK /\ TablesOK /\ BalancesOK /\ OrdersNamed
  BY DEF OpenInv, MarketInv, IInv, BookInv
<1>2. sellorders[oid].frozen \in Nat
  BY <1>1 DEF TablesOK, IsTable, OrderRow
<1>3. CanSend(OrderNft(oid), sellorders[oid].frozen)
  BY <1>1, <1>2, OfferIsThere
<1>4. gone \in SUBSET DOMAIN buyerbids /\ \A b \in gone : paidIn[b] = c
  BY <1>1, RefundedInOrderCurrency
<1>5. c \in Currencies /\ Mart \in Accounts
  BY <1>1 DEF OrdersNamed, Accounts
<1> HIDE DEF gone, c
<1>6. Frozen(gone) \in Nat /\ money[Mart][c] \in Nat /\ Frozen(gone) <= money[Mart][c]
  BY <1>1, <1>4, <1>5, FrozenIsThere
<1>7. Pays(RefundPay(gone), Frozen(gone))
  BY <1>1, <1>4, RefundsPay
<1>8. \A a \in Accounts : RefundPay(gone)[a] >= 0
  <2> TAKE a \in Accounts
  <2>1. {b \in gone : buyerbids[b].buyer = a} \in SUBSET DOMAIN buyerbids
    BY <1>4
  <2>2. Frozen({b \in gone : buyerbids[b].buyer = a}) \in Nat
    BY <1>1, <2>1, FrozenIsSum
  <2>3. RefundPay(gone)[a] \in Nat
    BY <2>2, RefundIsHeld DEF HeldFor
  <2> QED BY <2>3
<1>9. CanMove(c, Mart, 0, RefundPay(gone))
  <2>1. money[Mart][c] >= 0 /\ Frozen(gone) <= money[Mart][c] + 0
    BY <1>6
  <2> QED BY <1>1, <1>5, <1>6, <1>7, <1>8, <2>1, BatchCanMove
<1> QED BY <1>3, <1>9 DEF CanCancelOrder, gone, c

\* A bid can be withdrawn at any time, unless it is stranded; then never.
LEMMA BidComesBack ==
    ASSUME OneBankPerSymbol, OpenInv, NEW b \in DOMAIN buyerbids
    PROVE  CanCancelBid(b) <=> b \notin Stranded
<1> DEFINE row == buyerbids[b]
           oid == row.sell_order_id
           c == Currency(_get_order_extension(oid).asset_contract, row.symbol)
           p == PayOne(Accounts, row.buyer, row.frozen)
<1>1. IInv /\ MoneyInv /\ GlobalsOK /\ TablesOK /\ BalancesOK /\ Mart \in Accounts
  BY DEF OpenInv, MarketInv, IInv, BookInv, Accounts
<1>2. /\ row.frozen \in Nat /\ row.buyer \in Users /\ paidIn[b] \in Currencies
      /\ paidIn[b].symbol = row.symbol
      /\ paidIn[b] = [bank |-> paidIn[b].bank, symbol |-> paidIn[b].symbol]
  <2>1. row \in BidRow /\ paidIn[b] \in Currencies
    BY <1>1 DEF TablesOK, IsTable
  <2> QED BY <1>1, <2>1, KeysArePairs DEF BidRow, MoneyInv, SymbolsKept
<1>3. ASSUME b \notin Stranded PROVE c = paidIn[b]
  <2>1. CASE oid \in DOMAIN sellorders
    <3>1. paidIn[b] = Currency(_get_order_extension(oid).asset_contract, sellorders[oid].symbol)
      BY <1>1, <2>1 DEF IInv, BookInv, BidBackedByOrderBank, OrderCurrency
    <3> QED BY <1>2, <3>1 DEF Currency
  <2>2. CASE oid \notin DOMAIN sellorders
    <3>1. paidIn[b].bank = MUSDT_BANK
      BY <1>3, <2>2 DEF Stranded
    <3>2. _get_order_extension(oid).asset_contract = MUSDT_BANK
      BY <1>1, <2>2 DEF IInv, BookInv, OrderHasExtension, _get_order_extension
    <3> QED BY <1>2, <3>1, <3>2 DEF Currency
  <2> QED BY <2>1, <2>2
<1>4. ASSUME b \in Stranded PROVE c \notin Currencies
  <2>1. oid \notin DOMAIN sellorders /\ paidIn[b].bank # MUSDT_BANK
    BY <1>4 DEF Stranded
  <2>2. c.bank = MUSDT_BANK /\ c.symbol = paidIn[b].symbol
    BY <1>1, <1>2, <2>1 DEF IInv, BookInv, OrderHasExtension, _get_order_extension, Currency
  <2> HIDE DEF c
  <2> QED BY <1>2, <2>1, <2>2 DEF OneBankPerSymbol
<1>5. ASSUME b \notin Stranded PROVE CanMove(c, Mart, 0, p)
  <2>1. c \in Currencies /\ \A x \in {b} : paidIn[x] = c
    BY <1>2, <1>3, <1>5
  <2>2. Frozen({b}) = row.frozen
    <3> DEFINE w == FrozenMoney
    <3>1. w[b] = row.frozen /\ {b} \in SUBSET DOMAIN buyerbids
      BY DEF FrozenMoney
    <3>2. Frozen({b}) = Sum(w, {b}) /\ IsFiniteSet({b})
      BY <1>1, <3>1, FrozenIsSum
    <3> HIDE DEF w, row
    <3>3. Sum(w, {b}) = w[b]
      <4>1. b \in {b} /\ \A y \in {b} \ {b} : w[y] = 0
        OBVIOUS
      <4>2. w[b] \in Int
        BY <1>2, <3>1
      <4> DEFINE S == {b}
      <4>3. b \in S /\ IsFiniteSet(S) /\ \A y \in S \ {b} : w[y] = 0
        BY <3>2, <4>1
      <4> HIDE DEF S
      <4>4. Sum(w, S) = w[b]
        BY <4>2, <4>3, SumSingle
      <4> QED BY <4>4 DEF S
    <3> QED BY <3>1, <3>2, <3>3
  <2> HIDE DEF c
  <2>3. money[Mart][c] \in Nat /\ row.frozen <= money[Mart][c]
    <3>1. {b} \in SUBSET DOMAIN buyerbids
      OBVIOUS
    <3> QED BY <1>1, <2>1, <2>2, <3>1, FrozenIsThere
  <2>4. Pays(p, row.frozen) /\ \A a \in Accounts : p[a] >= 0
    BY <1>2, PaysOne DEF PayOne
  <2> HIDE DEF p
  <2>5. money[Mart][c] >= 0 /\ row.frozen <= money[Mart][c] + 0
    BY <1>2, <2>3
  <2> QED BY <1>1, <1>2, <2>1, <2>4, <2>5, BatchCanMove
<1>6. CanCancelBid(b) <=> CanMove(c, Mart, 0, p)
  BY DEF CanCancelBid, BidCurrency
<1>7. CanMove(c, Mart, 0, p) => c \in Currencies
  BY DEF CanMove
<1> QED BY <1>4, <1>5, <1>6, <1>7

\* The maker can take any bid on an open order.
LEMMA BidCanBeTaken ==
    ASSUME OpenInv, NEW b \in DOMAIN buyerbids, buyerbids[b].sell_order_id \in DOMAIN sellorders
    PROVE  CanTakeBid(b)
<1> DEFINE row == buyerbids[b]
           oid == row.sell_order_id
           c == OrderCurrency(oid)
           sold == TakenNfts(b)
           gone == TakenGone(b)
           left == (row.frozen \div row.price - sold) * row.price
           p == TakenBatch(b)
           maker == sellorders[oid].maker
           own == IpOwner[OrderNft(oid)]
           gross == sold * row.price
           u == row.buyer
<1>1. /\ IInv /\ CustodyInv /\ MoneyInv /\ TradeInv /\ GlobalsOK /\ TablesOK /\ BalancesOK
      /\ OrdersNamed /\ Mart \in Accounts
      /\ oid \in DOMAIN sellorders /\ OrderNft(oid) \in Nfts /\ c \in Currencies
  BY DEF OpenInv, MarketInv, IInv, BookInv, OrdersNamed, Accounts
<1>2. /\ gone \cup {b} \in SUBSET DOMAIN buyerbids
      /\ \A x \in gone \cup {b} : paidIn[x] = c
      /\ Pays(p, 0 + Frozen(gone \cup {b}))
      /\ sold \in Nat /\ gross \in Nat /\ left \in Nat
      /\ sold <= sellorders[oid].frozen
  BY <1>1, TakenPays
<1>3. maker \in Users /\ u \in Users /\ own \in Users \cup {NoOwner}
  <2>1. sellorders[oid] \in OrderRow /\ row \in BidRow
    BY <1>1 DEF TablesOK, IsTable
  <2> QED BY <1>1, <2>1, InputsAreNaturals DEF OrderRow, BidRow
<1>4. p = PayBoth(_settle_maker(maker, own, gross), PayBoth(RefundPay(gone), PayOne(Accounts, u, left)))
  BY DEF TakenBatch
<1>5. CanSend(OrderNft(oid), sold)
  BY <1>1, <1>2, OfferIsThere
<1>6. CanTakeBid(b) <=> CanSend(OrderNft(oid), sold) /\ CanMove(c, Mart, 0, p)
  BY DEF CanTakeBid
<1>7. gone \in SUBSET DOMAIN buyerbids
  BY <1>2
<1> HIDE DEF oid, c, sold, gone, left, p, maker, own, gross, u, row
<1>8. \A a \in Accounts : p[a] >= 0
  BY <1>1, <1>2, <1>3, <1>4, <1>7, PartsArePositive
<1> DEFINE total == Frozen(gone \cup {b})
<1>9. total \in Nat /\ money[Mart][c] \in Nat /\ total <= money[Mart][c]
  BY <1>1, <1>2, FrozenIsThere
<1>10. Pays(p, 0 + total)
  BY <1>2
<1> HIDE DEF total
<1>11. Pays(p, total) /\ money[Mart][c] >= 0 /\ total <= money[Mart][c] + 0
  <2>1. 0 + total = total
    BY <1>9
  <2> QED BY <1>9, <1>10, <2>1
<1>12. CanMove(c, Mart, 0, p)
  BY <1>1, <1>8, <1>9, <1>11, BatchCanMove
<1> QED BY <1>5, <1>6, <1>12

\* Anybody who has the price can buy.
LEMMA OrderCanBeBought ==
    ASSUME OpenInv, AmountsFit, NEW u \in Users, NEW q \in Payments, NEW oid \in DOMAIN sellorders,
           sellorders[oid].price <= q, q <= money[u][OrderCurrency(oid)]
    PROVE  CanBuy(u, q, oid)
<1> DEFINE o == sellorders[oid]
           c == OrderCurrency(oid)
           deal == process_single_buy_order(o, q)
           bought == deal.bought
           gross == deal.earned
           gone == DealGone(q, oid)
           left == Positive(Int64(q - gross))
           p == DealBatch(u, q, oid)
           maker == o.maker
           own == IpOwner[OrderNft(oid)]
<1>1. /\ IInv /\ CustodyInv /\ MoneyInv /\ TradeInv /\ GlobalsOK /\ TablesOK /\ BalancesOK
      /\ OrdersNamed /\ u \in Accounts
      /\ OrderNft(oid) \in Nfts /\ c \in Currencies
  BY DEF OpenInv, MarketInv, IInv, BookInv, OrdersNamed, Accounts
<1>2. /\ gone \in SUBSET DOMAIN buyerbids
      /\ \A b \in gone : paidIn[b] = c
      /\ Pays(p, q + Frozen(gone))
  BY <1>1, DealPays
<1>3. o \in OrderRow /\ maker \in Users /\ own \in Users \cup {NoOwner}
      /\ q \in Nat /\ q <= IntMax /\ o.price <= q
  <2>1. o \in OrderRow
    BY <1>1 DEF TablesOK, IsTable
  <2> QED BY <1>1, <2>1, InputsAreNaturals DEF OrderRow, AmountsFit
<1>4. /\ bought \in Nat /\ bought <= o.frozen
      /\ gross \in Nat /\ left \in Nat
  <2>1. o.frozen * o.price \in 0 .. IntMax
    BY <1>1, OfferFits
  <2>2. bought \in Nat /\ bought <= o.frozen
    BY <1>3, DealFits
  <2>3. deal.earned \in 0 .. q /\ left = q - deal.earned
    BY <1>3, <2>1, DealIsWhole
  <2> HIDE DEF deal, left
  <2> QED BY <1>3, <2>2, <2>3
<1>5. CanSend(OrderNft(oid), bought)
  BY <1>1, <1>4, OfferIsThere
<1>6. p = PayBoth(_settle_maker(maker, own, gross), PayBoth(RefundPay(gone), PayOne(Accounts, u, left)))
  BY DEF DealBatch
<1>7. CanBuy(u, q, oid) <=> CanSend(OrderNft(oid), bought) /\ CanMove(c, u, q, p)
  BY DEF CanBuy
<1>8. q <= money[u][c]
  OBVIOUS
<1> HIDE DEF c, deal, bought, gross, gone, left, p, maker, own
<1>9. \A a \in Accounts : p[a] >= 0
  BY <1>1, <1>2, <1>3, <1>4, <1>6, PartsArePositive
<1> DEFINE f == Frozen(gone)
           total == q + f
<1>10. f \in Nat /\ money[Mart][c] \in Nat /\ f <= money[Mart][c]
  BY <1>1, <1>2, FrozenIsThere
<1>11. Pays(p, total)
  BY <1>2
<1> HIDE DEF f
<1>12. total \in Nat /\ total <= money[Mart][c] + q
  BY <1>3, <1>10
<1> HIDE DEF total
<1>13. money[u][c] >= q
  <2>1. money[u][c] \in Nat
    BY <1>1 DEF BalancesOK
  <2> QED BY <1>3, <1>8, <2>1
<1>14. CanMove(c, u, q, p)
  BY <1>1, <1>3, <1>9, <1>11, <1>12, <1>13, BatchCanMove
<1> QED BY <1>5, <1>7, <1>14

\* What can be taken out: every order, and every bid but the stranded ones.
OffersReturn ==
    /\ \A oid \in DOMAIN sellorders : CanCancelOrder(oid)
    /\ \A b \in DOMAIN buyerbids : CanCancelBid(b) <=> b \notin Stranded

\* Nobody's goods are stuck in the market, with one exception the code makes: every order
\* can be withdrawn at any time, its bids refunded, and every bid, unless its order is gone
\* and it was paid in another token contract than the default one; that bid cannot be
\* withdrawn, as cancelbid asks a contract for it that has no such coin
\* (nftone.mart.cpp:413-447, 529-539).
THEOREM OffersComeBack ==
    ASSUME OneBankPerSymbol, AmountsFit
    PROVE  Spec => []OffersReturn
<1>1. OpenInv => OffersReturn
  BY OrderComesBack, BidComesBack DEF OffersReturn
<1> QED BY <1>1, OpenInvariant, PTL

\* What can be bought and taken: every order by who has its price, every bid on an order.
TradeIsOpen ==
    /\ \A u \in Users, q \in Payments, oid \in DOMAIN sellorders :
          sellorders[oid].price <= q /\ q <= money[u][OrderCurrency(oid)] => CanBuy(u, q, oid)
    /\ \A b \in DOMAIN buyerbids :
          buyerbids[b].sell_order_id \in DOMAIN sellorders => CanTakeBid(b)

\* Trade is never refused for want of what the market should hold: the balances let whoever
\* has the price of an order buy from it, and its maker take any bid on it, refunds, fees,
\* change and all (nftone.mart.cpp:143-258, 276-358).
THEOREM TradesGoThrough ==
    ASSUME OneBankPerSymbol, AmountsFit
    PROVE  Spec => []TradeIsOpen
<1>1. OpenInv => TradeIsOpen
  BY OrderCanBeBought, BidCanBeTaken DEF TradeIsOpen
<1> QED BY <1>1, OpenInvariant, PTL

\* What is stranded stays so: no later call gives the money back.
StrandedStay == Stranded \subseteq Stranded'

LEMMA TakeLeavesStranded ==
    ASSUME IInv, NEW oid \in DOMAIN sellorders, NEW sold, NEW gone \in SUBSET BidsOn(oid),
           TakeFromOrder(oid, sold, gone)
    PROVE  StrandedStay
<1> SUFFICES ASSUME NEW b \in Stranded PROVE b \in Stranded'
  BY DEF StrandedStay
<1>1. b \in DOMAIN buyerbids /\ buyerbids[b].sell_order_id \notin DOMAIN sellorders
      /\ paidIn[b].bank # MUSDT_BANK
  BY DEF Stranded
<1>2. b \notin gone
  BY <1>1 DEF BidsOn
<1>3. b \in DOMAIN paidIn
  BY <1>1 DEF IInv, BookInv, TablesOK, IsTable
<1>4. /\ b \in DOMAIN buyerbids' /\ buyerbids'[b] = buyerbids[b] /\ paidIn'[b] = paidIn[b]
      /\ DOMAIN sellorders' \subseteq DOMAIN sellorders
  <2>1. buyerbids' = Erase(buyerbids, gone) /\ paidIn' = Erase(paidIn, gone)
    BY DEF TakeFromOrder
  <2>2. DOMAIN sellorders' \subseteq DOMAIN sellorders
    BY DEF TakeFromOrder, Erase
  <2> QED BY <1>1, <1>2, <1>3, <2>1, <2>2 DEF Erase
<1> QED BY <1>1, <1>4 DEF Stranded

LEMMA StepLeavesStranded ==
    ASSUME OneBankPerSymbol, OpenInv, [Next]_vars
    PROVE  StrandedStay
<1>1. IInv /\ GlobalsOK /\ TablesOK
  BY DEF OpenInv, MarketInv, IInv, BookInv
<1>2. ASSUME UNCHANGED <<sellorders, buyerbids, paidIn>>
      PROVE  StrandedStay
  BY <1>2 DEF StrandedStay, Stranded
<1>3. CASE Configure \/ UNCHANGED vars
  BY <1>2, <1>3 DEF Configure, init, setfeecollec, addcoinconf, addnftconf, tables, vars
<1>4. CASE Sell
  <2>1. PICK u \in Users, n \in Nfts, p \in Prices, c \in Currencies :
            \E k \in 1 .. nft[u][n] : _sell_transfer(u, n, k, p, c)
    BY <1>4 DEF Sell
  <2>2. PICK row, oid :
            /\ oid = gstate.last_buy_order_idx + 1
            /\ sellorders' = Emplace(sellorders, oid, row)
            /\ UNCHANGED <<buyerbids, paidIn>>
    BY <2>1 DEF _sell_transfer, NextOrderId
  <2>3. DOMAIN sellorders' = DOMAIN sellorders \cup {oid}
    BY <2>2 DEF Emplace
  <2>4. ASSUME NEW b \in Stranded PROVE b \in Stranded'
    <3>1. b \in DOMAIN buyerbids /\ buyerbids[b].sell_order_id \notin DOMAIN sellorders
          /\ paidIn[b].bank # MUSDT_BANK
      BY <2>4 DEF Stranded
    <3>2. buyerbids[b].sell_order_id # oid
      BY <1>1, <2>2, <3>1 DEF TablesOK, GlobalsOK
    <3> QED BY <2>2, <2>3, <3>1, <3>2 DEF Stranded
  <2> QED BY <2>4 DEF StrandedStay
<1>5. CASE Buy
  <2>1. PICK u \in Users, c \in Currencies, q \in Payments, p \in Prices,
             oid \in DOMAIN sellorders : _buy_transfer(u, c, q, oid, p)
    BY <1>5 DEF Buy
  <2>2. CASE BuyNow(u, c, q, oid, p)
    <3>1. TakeFromOrder(oid, process_single_buy_order(sellorders[oid], q).bought, DealGone(q, oid))
      BY <2>2 DEF BuyNow, DealGone
    <3>2. DealGone(q, oid) \in SUBSET BidsOn(oid)
      BY DEF DealGone, _refund_buyer_bid
    <3> QED BY <1>1, <3>1, <3>2, TakeLeavesStranded
  <2>3. CASE PlaceBid(u, c, q, oid, p)
    <3>1. PICK bid, row :
              /\ bid = gstate.last_deal_idx + 1
              /\ buyerbids' = Emplace(buyerbids, bid, row)
              /\ paidIn' = Emplace(paidIn, bid, c)
              /\ sellorders' = sellorders
      BY <2>3 DEF PlaceBid
    <3>2. ASSUME NEW b \in Stranded PROVE b \in Stranded'
      <4>1. b \in DOMAIN buyerbids /\ buyerbids[b].sell_order_id \notin DOMAIN sellorders
            /\ paidIn[b].bank # MUSDT_BANK
        BY <3>2 DEF Stranded
      <4>2. b # bid /\ b \in DOMAIN paidIn
        BY <1>1, <3>1, <4>1 DEF TablesOK, GlobalsOK, IsTable
      <4>3. b \in DOMAIN buyerbids' /\ buyerbids'[b] = buyerbids[b]
        BY <3>1, <4>1, <4>2 DEF Emplace
      <4>4. paidIn'[b] = paidIn[b]
        BY <3>1, <4>2 DEF Emplace
      <4> QED BY <3>1, <4>1, <4>3, <4>4 DEF Stranded
    <3> QED BY <3>2 DEF StrandedStay
  <2> QED BY <2>1, <2>2, <2>3 DEF _buy_transfer
<1>6. CASE Close
  <2>1. ASSUME NEW u \in Users, NEW b \in BidIds, takebuybid(u, b) PROVE StrandedStay
    <3> DEFINE oid == buyerbids[b].sell_order_id
    <3>1. /\ oid \in DOMAIN sellorders /\ b \in DOMAIN buyerbids
          /\ TakeFromOrder(oid, TakenNfts(b), TakenGone(b) \cup {b})
      BY <2>1 DEF takebuybid, TakenNfts, TakenGone
    <3>2. TakenGone(b) \cup {b} \in SUBSET BidsOn(oid)
      BY <3>1 DEF TakenGone, _refund_buyer_bid, BidsOn
    <3> QED BY <1>1, <3>1, <3>2, TakeLeavesStranded
  <2>2. ASSUME NEW u \in Users, NEW x \in BidIds, cancelbid(u, x) PROVE StrandedStay
    <3>1. /\ x \in DOMAIN buyerbids
          /\ buyerbids' = Erase(buyerbids, {x}) /\ paidIn' = Erase(paidIn, {x})
          /\ sellorders' = sellorders
      BY <2>2 DEF cancelbid
    <3>2. x \notin Stranded
      BY <2>2, <3>1, CancelBidIs, BidComesBack
    <3>3. ASSUME NEW b \in Stranded PROVE b \in Stranded'
      <4>1. b \in DOMAIN buyerbids /\ buyerbids[b].sell_order_id \notin DOMAIN sellorders
            /\ paidIn[b].bank # MUSDT_BANK
        BY <3>3 DEF Stranded
      <4>2. b # x /\ b \in DOMAIN paidIn
        BY <1>1, <3>2, <3>3, <4>1 DEF TablesOK, IsTable
      <4>3. b \in DOMAIN buyerbids' /\ buyerbids'[b] = buyerbids[b] /\ paidIn'[b] = paidIn[b]
        BY <3>1, <4>1, <4>2 DEF Erase
      <4> QED BY <3>1, <4>1, <4>3 DEF Stranded
    <3> QED BY <3>3 DEF StrandedStay
  <2>3. ASSUME NEW u \in Users, NEW o \in OrderIds, cancelorder(u, o) PROVE StrandedStay
    <3>1. /\ o \in DOMAIN sellorders
          /\ TakeFromOrder(o, sellorders[o].frozen, _refund_buyer_bid(o, 0))
      BY <2>3 DEF cancelorder
    <3>2. _refund_buyer_bid(o, 0) \in SUBSET BidsOn(o)
      BY DEF _refund_buyer_bid
    <3> QED BY <1>1, <3>1, <3>2, TakeLeavesStranded
  <2>4. ASSUME NEW u \in Users, NEW n \in Nfts, cancelorder_all(u, n.id) PROVE StrandedStay
    BY <1>2, <2>4 DEF cancelorder_all, vars
  <2> QED BY <1>6, <2>1, <2>2, <2>3, <2>4 DEF Close
<1> QED BY <1>3, <1>4, <1>5, <1>6 DEF Next

\* A bid that its order left behind, paid in another token contract than the default one,
\* is never paid back by any call of the market: not by cancelbid, which asks the default
\* contract for a coin it does not have, and by no other, as orders that are gone do not
\* come back (nftone.mart.cpp:424, 529-539).
THEOREM StrandedForGood ==
    ASSUME OneBankPerSymbol, AmountsFit
    PROVE  Spec => [][StrandedStay]_vars
<1>1. OpenInv /\ [Next]_vars => StrandedStay
  BY StepLeavesStranded
<1> QED BY <1>1, OpenInvariant, PTL DEF Spec
=============================================================================
