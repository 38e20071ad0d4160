----------------------------- MODULE RndnftMart -----------------------------
(***************************************************************************)
(* rndnft.mart: the sale of NFTs drawn at random.  The owner of a booth    *)
(* fills it with boxes, a map from NFT symbols to amounts; a buyer pays    *)
(* for a number of NFTs and gets as many, drawn one by one with a hash of  *)
(* the block.  The hash is a free choice here.  The price goes to a split  *)
(* plan of amax.split, and the buyer is rewarded with apples out of the    *)
(* lease that the contract has with aplink.farm.                           *)
(*                                                                         *)
(* A booth counts its boxes and its NFTs apart from the map that holds     *)
(* them; the maintenance actions delboothbox and fixboothbox edit the map  *)
(* alone.  A draw beyond the map reads past its end: what it finds there   *)
(* is a free choice, and the map stays as it is.                           *)
(*                                                                         *)
(* The map is a std::map ordered by the operator < of nsymbol, which is no *)
(* order when parents differ: two symbols can each be less than the other. *)
(* Where that makes the map undefined, a lookup may miss a key it holds,   *)
(* and the assignment that follows overwrites its amount.                  *)
(***************************************************************************)
EXTENDS Tables

CONSTANTS
    Users, Mart, Distributor, \* accounts: users, the contract, amax.split
    Owners,              \* users that own booths
    NftBanks, Symbols,   \* NFT contracts; nsymbols [id, parent_id]
    Currencies,          \* extended symbols of the three token contracts handled
    Prices, Payments, Openings, Durations, BoothTimes,
    Batches,             \* what a refuel brings: [symbols -> amounts]
    MaxBoxes,            \* values of setmaxbox
    FixAmounts,          \* amounts of fixboothbox
    Coins, Rewards,      \* symbol codes and unit rewards of setapl
    Precision,           \* get_precision of a currency
    max_nfts_purchase,
    UintMax, Uint16Max,  \* largest uint64_t and uint16_t
    FirstMoney, FirstNfts, FirstApples,
    MaxBooths, MaxDay    \* bounds: booths created, days

Accounts == Users \cup {Mart, Distributor}
BoothIds == 1 .. MaxBooths

ASSUME MartAccounts ==
    Mart \notin Users /\ Distributor \notin Users /\ Mart # Distributor /\ Owners \subseteq Users
ASSUME MartInputs ==
    /\ IsFiniteSet(Symbols) /\ IsFiniteSet(NftBanks)
    /\ \A n \in Symbols : n.id \in Nat /\ n.parent_id \in Nat /\ n.id > n.parent_id
    /\ \A m, n \in Symbols : m.id = n.id => m = n
    /\ Prices \subseteq Nat \ {0} /\ Payments \subseteq Nat \ {0}
    /\ Openings \subseteq Nat /\ Durations \subseteq Nat /\ BoothTimes \subseteq Nat \X Nat
    /\ \A s \in Batches : DOMAIN s \subseteq Symbols /\ \A n \in DOMAIN s : s[n] \in Nat \ {0}
    /\ MaxBoxes \subseteq Nat /\ FixAmounts \subseteq Nat
    /\ Rewards \subseteq Nat /\ Precision \in [Currencies -> Nat \ {0}]
    /\ FirstApples \in Nat
    /\ max_nfts_purchase \in Nat /\ UintMax \in Nat /\ Uint16Max \in Nat
    /\ MaxBooths \in Nat /\ MaxDay \in Nat
    /\ FirstMoney \in [Accounts -> [Currencies -> Nat]]
    /\ FirstNfts \in [Accounts -> [NftBanks -> [Symbols -> Nat]]]

VARIABLES
    gstate,     \* global: max_booth_boxes, last_booth_id
    booths,     \* booth id -> row
    boothboxes, \* booth id -> the map nfts
    reward_conf,\* of global1: symbol code -> apples for one unit paid
    money, nft, \* balances
    apples,     \* of aplink.farm: the mart's are what its lease has left
    now,        \* the day
    touched     \* history: booths edited by delboothbox or fixboothbox

farmvars == <<reward_conf, apples>>
vars == <<gstate, booths, boothboxes, money, nft, now, touched, farmvars>>

------------------------------------------------------------------------------
(* The map of boxes *)

Less(m, n) == m.id < n.id \/ m.parent_id < n.parent_id
Clash(n, S) == \E m \in S : Less(m, n) /\ Less(n, m)

\* Keys of the map that a lookup may miss, when the map holds the keys of S.
MayMiss(S) == {n \in S : Clash(n, S)}

\* The number of NFTs up to n, in the order of the map: by id.  Symbols that clash may
\* come in either order, which moves their indices and not how many each has.
UpTo(boxes, n) == SumFunctionOnSet(boxes, {m \in DOMAIN boxes : m.id <= n.id})

\* Mutant: the index is compared without equality.
BugPickStrict(boxes, r) ==
    {n \in DOMAIN boxes : r \in UpTo(boxes, n) - boxes[n] .. UpTo(boxes, n) - 1}

\* The box that the index r falls in: none when it is beyond the last.
Pick(boxes, r) ==
    {n \in DOMAIN boxes : r \in UpTo(boxes, n) - boxes[n] + 1 .. UpTo(boxes, n)}

\* Mutant: a box that is sold out stays in the map.
BugKeepEmpty(boxes, n) == [boxes EXCEPT ![n] = @ - 1]

TakeOut(boxes, n) ==
    IF boxes[n] = 1 THEN Erase(boxes, {n}) ELSE [boxes EXCEPT ![n] = @ - 1]

\* What one draw from a booth of num NFTs makes of the boxes and of the NFTs
\* bought before it.
_one_nft(draw, num) ==
    UNION {LET hit == Pick(draw.boxes, r)
           IN  {[boxes  |-> IF hit = {} THEN draw.boxes ELSE TakeOut(draw.boxes, n),
                 bought |-> [draw.bought EXCEPT ![n] = @ + 1]] :
                    n \in IF hit = {} THEN Symbols ELSE hit} :
           r \in 1 .. num}

\* Mutant: one NFT, whatever was paid for.
BugDrawOnce(boxes, num, count) ==
    _one_nft([boxes |-> boxes, bought |-> [n \in Symbols |-> 0]], num)

\* All outcomes of count draws.
Draws(boxes, num, count) ==
    LET after[i \in 0 .. count] ==
            IF i = 0 THEN {[boxes |-> boxes, bought |-> [n \in Symbols |-> 0]]}
            ELSE UNION {_one_nft(draw, num - i + 1) : draw \in after[i - 1]}
    IN  after[count]

------------------------------------------------------------------------------
(* Transfers *)

Positive(s) == [n \in {m \in DOMAIN s : s[m] > 0} |-> s[n]]

\* NFTs of one contract go from one account to another, each in a positive amount.
NftMoves(bank, from, to, s) ==
    /\ \A n \in DOMAIN s : s[n] \in 1 .. nft[from][bank][n]
    /\ nft' = [a \in Accounts |->
                  [nft[a] EXCEPT ![bank] =
                      [n \in Symbols |->
                          @[n] + (IF n \in DOMAIN s
                                  THEN (IF a = to THEN s[n] ELSE 0) - (IF a = from THEN s[n] ELSE 0)
                                  ELSE 0)]]]

\* `from` pays quantity of c to the mart, which pays `paid` on to the distributor and
\* returns the rest.
MoneyMoves(c, from, quantity, paid) ==
    LET left == quantity - paid
    IN  /\ quantity \in 1 .. money[from][c]
        /\ money' = [money EXCEPT ![Mart][c] = @ + quantity - paid - left,
                                  ![Distributor][c] = @ + paid,
                                  ![from][c] = @ - quantity + left]

\* The farm gives out no more than the lease has, or aborts.
allot(farmer, amount) ==
    /\ amount <= apples[Mart]
    /\ apples' = [apples EXCEPT ![Mart] = @ - amount, ![farmer] = @ + amount]

\* multiply_decimal, which rounds half up.
Reward(c, amount) ==
    ((10 * reward_conf[c.symbol] * amount) \div Precision[c] + 5) \div 10

\* available_apples is what the lease has left, whatever its status and its dates.
_reward_farmer(c, amount, farmer) ==
    IF apples[Mart] = 0 \/ c.symbol \notin DOMAIN reward_conf \/ reward_conf[c.symbol] = 0
    THEN UNCHANGED apples
    ELSE allot(farmer, Reward(c, amount))

------------------------------------------------------------------------------
(* Booths *)

\* By the contract or its admin.
createbooth(owner, nft_contract, c, price, opened_at, duration_days) ==
    LET id == gstate.last_booth_id + 1
    IN  /\ id \in BoothIds
        /\ opened_at + duration_days > now
        /\ booths' = Emplace(booths, id,
               [owner |-> owner, nft_contract |-> nft_contract, currency |-> c,
                price |-> price, fund_recd |-> 0,
                nft_box_num |-> 0, nft_num |-> 0, nft_num_sum |-> 0,
                status |-> "enabled",
                opened_at |-> opened_at, closed_at |-> opened_at + duration_days])
        /\ gstate' = [gstate EXCEPT !.last_booth_id = id]
        /\ UNCHANGED <<boothboxes, money, nft, now, touched, farmvars>>

\* By the owner, the contract or its admin, like setboothtime and closebooth.
enablebooth(id, status) ==
    /\ id \in DOMAIN booths
    /\ booths[id].status # status
    /\ booths' = [booths EXCEPT ![id].status = status]
    /\ UNCHANGED <<gstate, boothboxes, money, nft, now, touched, farmvars>>

setboothtime(id, opened_at, closed_at) ==
    /\ id \in DOMAIN booths
    /\ opened_at < closed_at /\ closed_at > now
    /\ booths' = [booths EXCEPT ![id].opened_at = opened_at, ![id].closed_at = closed_at]
    /\ UNCHANGED <<gstate, boothboxes, money, nft, now, touched, farmvars>>

\* Mutant: what a box holds already is forgotten.
BugRefillNew(boxes, batch, missed) ==
    [n \in DOMAIN boxes \cup DOMAIN batch |->
        IF n \in DOMAIN batch THEN batch[n] ELSE boxes[n]]

\* The boxes after a batch came in; a key that was missed is overwritten.
Refill(boxes, batch, missed) ==
    [n \in DOMAIN boxes \cup DOMAIN batch |->
        (IF n \in DOMAIN batch THEN batch[n] ELSE 0) +
        (IF n \in DOMAIN boxes \ (DOMAIN batch \cap missed) THEN boxes[n] ELSE 0)]

BoxesOf(id) == IF id \in DOMAIN boothboxes THEN boothboxes[id] ELSE EmptyTable

\* on_transfer_ntoken: NFTs with the memo "booth:id".
on_transfer_ntoken(from, bank, batch, id) ==
    LET booth  == booths[id]
        boxes  == BoxesOf(id)
        added  == SumFunction(batch)
    IN  /\ id \in DOMAIN booths
        /\ booth.status = "enabled" /\ booth.nft_contract = bank /\ booth.owner = from
        /\ NftMoves(bank, from, Mart, batch)
        /\ \E missed \in SUBSET (DOMAIN boxes \cap MayMiss(DOMAIN boxes \cup DOMAIN batch)) :
              LET new == Cardinality(DOMAIN batch \ (DOMAIN boxes \ missed))
                  num == (booth.nft_box_num + new) % (UintMax + 1)
              IN  /\ num <= gstate.max_booth_boxes
                  /\ boothboxes' = Emplace(boothboxes, id, Refill(boxes, batch, missed))
                  /\ booths' = [booths EXCEPT ![id].nft_box_num = num,
                                              ![id].nft_num = @ + added,
                                              ![id].nft_num_sum = @ + added]
        /\ UNCHANGED <<gstate, money, now, touched, farmvars>>

\* Mutant: nothing is returned.
BugKeepChange(booth, quantity) == quantity

\* What of a payment is taken, in whole prices.
Paid(booth, quantity) == booth.price * (quantity \div booth.price)

\* _transfer_token: a payment with the memo "booth:id".
_transfer_token(from, c, quantity, id) ==
    LET booth == booths[id]
        count == quantity \div booth.price
        paid  == Paid(booth, quantity)
    IN  /\ id \in DOMAIN booths
        /\ booth.status = "enabled" /\ now \in booth.opened_at .. booth.closed_at
        /\ booth.currency = c
        /\ count \in 1 .. max_nfts_purchase /\ count <= booth.nft_num
        /\ id \in DOMAIN boothboxes
        /\ MoneyMoves(c, from, quantity, paid)
        /\ \E draw \in Draws(boothboxes[id], booth.nft_num, count) :
              LET gone == Cardinality(DOMAIN boothboxes[id] \ DOMAIN draw.boxes)
              IN  /\ NftMoves(booth.nft_contract, Mart, from, Positive(draw.bought))
                  /\ boothboxes' = [boothboxes EXCEPT ![id] = draw.boxes]
                  /\ booths' = [booths EXCEPT ![id].fund_recd = @ + paid,
                                   ![id].nft_num = @ - count,
                                   ![id].nft_box_num = (@ - gone) % (UintMax + 1)]
        /\ _reward_farmer(c, paid, from)
        /\ UNCHANGED <<gstate, now, touched, reward_conf>>

\* Mutant: only the row of the booth is erased.
BugLeaveBoxes(id) == boothboxes

BoxesWithout(id) == Erase(boothboxes, {id})

\* Every box goes back to the owner, and both rows are erased.
closebooth(id) ==
    /\ id \in DOMAIN booths /\ id \in DOMAIN boothboxes
    /\ booths[id].status = "enabled"
    /\ NftMoves(booths[id].nft_contract, Mart, booths[id].owner, boothboxes[id])
    /\ booths' = Erase(booths, {id})
    /\ boothboxes' = BoxesWithout(id)
    /\ UNCHANGED <<gstate, money, now, touched, farmvars>>

------------------------------------------------------------------------------
(* Maintenance, by the contract *)

\* A uint64_t that goes into a uint16_t.
setmaxbox(max_num) ==
    /\ gstate' = [gstate EXCEPT !.max_booth_boxes = max_num % (Uint16Max + 1)]
    /\ UNCHANGED <<booths, boothboxes, money, nft, now, touched, farmvars>>

setapl(coin, apl) ==
    /\ reward_conf' = Emplace(reward_conf, coin, apl)
    /\ UNCHANGED <<gstate, booths, boothboxes, money, nft, now, touched, apples>>

\* The erasure looks the symbol up, and may miss it.
delboothbox(id, n) ==
    /\ id \in DOMAIN boothboxes
    /\ \E gone \in {{n}} \cup (IF n \in MayMiss(DOMAIN boothboxes[id]) THEN {{}} ELSE {}) :
          boothboxes' = [boothboxes EXCEPT ![id] = Erase(@, gone)]
    /\ touched' = touched \cup {id}
    /\ UNCHANGED <<gstate, booths, money, nft, now, farmvars>>

fixboothbox(id, n, amount) ==
    /\ id \in DOMAIN boothboxes
    /\ boothboxes' = [boothboxes EXCEPT ![id] = Emplace(@, n, amount)]
    /\ touched' = touched \cup {id}
    /\ UNCHANGED <<gstate, booths, money, nft, now, farmvars>>

Tick ==
    /\ now < MaxDay
    /\ now' = now + 1
    /\ UNCHANGED <<gstate, booths, boothboxes, money, nft, touched, farmvars>>

------------------------------------------------------------------------------
(* The specification *)

Init ==
    /\ gstate = [max_booth_boxes |-> 30, last_booth_id |-> 0]
    /\ booths = EmptyTable
    /\ boothboxes = EmptyTable
    /\ reward_conf = [coin \in {"MUSDT"} |-> 500]
    /\ money = FirstMoney
    /\ nft = FirstNfts
    /\ apples = [a \in Accounts |-> IF a = Mart THEN FirstApples ELSE 0]
    /\ now = 0
    /\ touched = {}

Manage ==
    \/ \E u \in Owners, b \in NftBanks, c \in Currencies, p \in Prices, o \in Openings, d \in Durations :
           createbooth(u, b, c, p, o, d)
    \/ \E id \in BoothIds, s \in {"enabled", "disabled"} : enablebooth(id, s)
    \/ \E id \in BoothIds, t \in BoothTimes : setboothtime(id, t[1], t[2])
    \/ \E id \in BoothIds : closebooth(id)

Trade ==
    \/ \E u \in Owners, b \in NftBanks, s \in Batches, id \in BoothIds :
           on_transfer_ntoken(u, b, s, id)
    \/ \E u \in Users, c \in Currencies, q \in Payments, id \in BoothIds :
           _transfer_token(u, c, q, id)

Maintain ==
    \/ \E m \in MaxBoxes : setmaxbox(m)
    \/ \E coin \in Coins, k \in Rewards : setapl(coin, k)
    \/ \E id \in BoothIds, n \in Symbols : delboothbox(id, n)
    \/ \E id \in BoothIds, n \in Symbols, k \in FixAmounts : fixboothbox(id, n, k)

Next == Manage \/ Trade \/ Maintain \/ Tick

Spec == Init /\ [][Next]_vars
------------------------------------------------------------------------------
(* Rows *)

BoothRow == [owner : Owners, nft_contract : NftBanks, currency : Currencies,
             price : Prices, fund_recd : Nat,
             nft_box_num : 0 .. UintMax, nft_num : Nat, nft_num_sum : Nat,
             status : {"enabled", "disabled"}, opened_at : Nat, closed_at : Nat]

\* The booths nobody edited by hand.
Intact == DOMAIN booths \ touched
BoxOf(id, n) == IF n \in DOMAIN BoxesOf(id) THEN BoxesOf(id)[n] ELSE 0
Held(id) == SumFunction(BoxesOf(id))

------------------------------------------------------------------------------
(* Properties *)

\* Every variable has its type: no counter of a booth or balance is negative, boxes
\* belong to booths, and a sale can only lower what a booth has.
TypeOK ==
    /\ gstate \in [max_booth_boxes : Nat, last_booth_id : Nat]
    /\ IsTable(booths, 1 .. gstate.last_booth_id, BoothRow)
    /\ \A id \in DOMAIN booths : booths[id].nft_num <= booths[id].nft_num_sum
    /\ DOMAIN boothboxes \subseteq DOMAIN booths
    /\ \A id \in DOMAIN boothboxes : IsTable(boothboxes[id], Symbols, Nat)
    /\ money \in [Accounts -> [Currencies -> Nat]]
    /\ nft \in [Accounts -> [NftBanks -> [Symbols -> Nat]]]
    /\ IsTable(reward_conf, Coins \cup {"MUSDT"}, Nat) /\ apples \in [Accounts -> Nat]
    /\ now \in Nat /\ touched \subseteq BoothIds

\* In a booth nobody edited by hand, the two counters kept in the row agree with the
\* map they count, and no empty box stays in it.
CountersMatchBoxes ==
    \A id \in Intact :
        /\ booths[id].nft_num = Held(id)
        /\ booths[id].nft_box_num = Cardinality(DOMAIN BoxesOf(id))
        /\ \A n \in DOMAIN BoxesOf(id) : BoxesOf(id)[n] > 0

\* The draw is fair: of the indices _rand can return, each NFT left in the booth has
\* as many as there are of it, and none falls outside the boxes.
DrawIsFair ==
    \A id \in Intact : \A n \in DOMAIN BoxesOf(id) :
        Cardinality({r \in 1 .. booths[id].nft_num : Pick(BoxesOf(id), r) = {n}})
            = BoxesOf(id)[n]

\* As long as nobody edits a booth by hand, the mart holds exactly what is in the
\* boxes, NFT contract by NFT contract: every booth can return its NFTs.
MartHoldsUnsold ==
    touched = {} =>
        \A b \in NftBanks, n \in Symbols :
            nft[Mart][b][n] =
                SumFunction([id \in {i \in DOMAIN booths : booths[i].nft_contract = b} |->
                                BoxOf(id, n)])

\* Every NFT sold was paid for at the booth's price, and all of it is with the
\* distributor: the mart keeps no money, whatever change it gives.
SalesSettle ==
    /\ \A id \in DOMAIN booths :
          booths[id].fund_recd = booths[id].price * (booths[id].nft_num_sum - booths[id].nft_num)
    /\ \A c \in Currencies :
          /\ money[Mart][c] = FirstMoney[Mart][c]
          /\ money[Distributor][c] - FirstMoney[Distributor][c] >=
                SumFunction([id \in {i \in DOMAIN booths : booths[i].currency = c} |->
                                booths[id].fund_recd])

Owned(u) == SumFunction([b \in NftBanks |-> SumFunction(nft[u][b])])

\* A buyer gets NFTs for money only, one for each price: even from a booth edited by
\* hand, a draw past the boxes delivers an NFT or aborts the purchase.  The farm rewards
\* what a buyer parted with, not what came back as change.
PricePerNft ==
    [][\A u \in Users :
          /\ \A c \in Currencies :
                money'[u][c] < money[u][c] =>
                    \E id \in DOMAIN booths :
                        money[u][c] - money'[u][c] = booths[id].price * (Owned(u)' - Owned(u))
          /\ apples'[u] # apples[u] =>
                \E c \in Currencies :
                    /\ money'[u][c] < money[u][c]
                    /\ apples'[u] - apples[u] = Reward(c, money[u][c] - money'[u][c])]_vars

\* nft_num of a booth nobody edited is the number available (rndnft.mart.db.hpp:118).
NumIsAvailable == \A id \in Intact : booths[id].nft_num = Held(id)
------------------------------------------------------------------------------
(* Refinement *)

\* The NFTs and the currencies are assets of one kind there: an NFT is of its contract.
Goods == {"nft"} \X (NftBanks \X Symbols)
Money == {"money"} \X Currencies

editedBar == touched # {}
usedBar == 1 .. gstate.last_booth_id
termsBar == [id \in BoothIds |->
    IF id \in DOMAIN booths
    THEN {[owner |-> booths[id].owner, coin |-> <<"money", booths[id].currency>>,
           price |-> booths[id].price]}
    ELSE {}]
\* What the boxes hold, of the NFT contract of the booth.
stockBar == [id \in BoothIds |-> [g \in Goods |->
    IF id \in DOMAIN booths /\ booths[id].nft_contract = g[2][1] THEN BoxOf(id, g[2][2]) ELSE 0]]
tillBar  == [c \in Money |-> money[Distributor][c[2]]]
purseBar == [u \in Users |-> [a \in Goods \cup Money |->
    IF a \in Goods THEN nft[u][a[2][1]][a[2][2]] ELSE money[u][a[2]]]]

AsRaffle == INSTANCE Raffle WITH
    Coins <- Money, Keys <- BoothIds, edited <- editedBar,
    used <- usedBar, terms <- termsBar, stock <- stockBar,
    till <- tillBar, purse <- purseBar

\* The sale is a raffle that gives back what is unsold: whatever batches, draws, change and
\* closings do to the boxes and the counters, a buyer gets NFTs out of the stock, pays the
\* price for each, and all of the price is with the distributor.
ImplementsRaffle == AsRaffle!Spec
=============================================================================
