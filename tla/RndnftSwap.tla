----------------------------- MODULE RndnftSwap -----------------------------
(***************************************************************************)
(* rndnft.swap: NFTs swapped for NFTs drawn at random.  A booth takes one  *)
(* quote NFT, price of them for a draw, and gives base NFTs out of its     *)
(* boxes; one booth exists for a quote NFT at a time.  The hash the draw   *)
(* is made with is a free choice here.                                     *)
(*                                                                         *)
(* Boxes live in a table of their own, scoped by the id of the booth, and  *)
(* stay there when the booth is closed.  createbooth leaves the counters   *)
(* of the new row uninitialised: they hold one of the records of Leftovers.*)
(*                                                                         *)
(* A transfer brings one NFT here: a refuel of several is the same as      *)
(* several refuels, and a swap takes one only.                             *)
(***************************************************************************)
EXTENDS Tables

CONSTANTS
    Users, Swap,         \* accounts: users, the contract
    Owners,              \* users that own booths
    Nfts,                \* [bank, id]: a token id of one NFT contract
    Quotes,              \* NFTs that booths take
    BaseBanks,           \* NFT contracts that booths give from
    Prices, Times, RefuelAmounts, SwapAmounts,
    FixAmounts,          \* amounts of fixbox and fixbooth
    Nobody, Admins,      \* the empty name; accounts that init names
    Leftovers,           \* the four counters that uninitialised memory may give
    MAX_LOWER_BOUND, batch_swap_max_nfts,
    UintMax,             \* largest uint64_t
    FirstNfts,
    MaxBooths, MaxDay    \* bounds: booths created, days

Accounts == Users \cup {Swap}
BoothIds == 1 .. MaxBooths
TokenIds == {n.id : n \in Nfts}

ASSUME SwapAccounts == Swap \notin Users /\ Nobody \notin Accounts /\ Owners \cup Admins \subseteq Users
ASSUME SwapInputs ==
    /\ Quotes \subseteq Nfts /\ \A m, n \in Nfts : m.bank = n.bank /\ m.id = n.id => m = n
    /\ Prices \subseteq Nat \ {0} /\ Times \subseteq Nat \X Nat
    /\ RefuelAmounts \subseteq Nat \ {0} /\ SwapAmounts \subseteq Nat \ {0}
    /\ FixAmounts \subseteq Nat
    /\ Leftovers \subseteq [sum : Nat, num : Nat, boxsum : Nat, boxnum : Nat]
    /\ MAX_LOWER_BOUND \in Nat /\ batch_swap_max_nfts \in Nat /\ UintMax \in Nat
    /\ MaxBooths \in Nat /\ MaxDay \in Nat
    /\ FirstNfts \in [Accounts -> [Nfts -> Nat]]

VARIABLES
    admin,      \* of global: beside the owners and the contract, manages booths
    last_booth_id, \* of global
    booths,     \* quote NFT -> row
    boothboxes, \* <<booth id, box id>> -> row
    nft,        \* balances
    now,        \* the day
    touched,    \* history: ids of booths set by hand, or created with leftovers
    kept        \* history: quote NFTs that closed booths received

vars == <<admin, last_booth_id, booths, boothboxes, nft, now, touched, kept>>

BoxIds(b) == {k[2] : k \in {j \in DOMAIN boothboxes : j[1] = b}}
Boxes(b) == [x \in BoxIds(b) |-> boothboxes[<<b, x>>]]
Least(S) == CHOOSE x \in S : \A y \in S : x <= y

------------------------------------------------------------------------------
(* Drawing *)

Amounts(boxes) == [x \in DOMAIN boxes |-> boxes[x].amount]

UpTo(boxes, x) == SumFunctionOnSet(Amounts(boxes), {y \in DOMAIN boxes : y <= x})

\* Mutant: an index beyond every box finds none.
BugNoWrapAround(boxes, hits) == IF hits = {} THEN {} ELSE {Least(hits)}

\* The first of the boxes hit, or the first of all when none is.
FirstHit(boxes, hits) == {Least(IF hits = {} THEN DOMAIN boxes ELSE hits)}

\* The box that the index r leads to: with many boxes by box id, whatever is in
\* them, with few by the number of NFTs.
Pick(boxes, many, r) ==
    FirstHit(boxes, {x \in DOMAIN boxes : IF many THEN x >= r ELSE UpTo(boxes, x) >= r})

BoxesLeft(draw, box) ==
    IF box.amount = 1 THEN (draw.boxnum - 1) % (UintMax + 1) ELSE draw.boxnum

\* All outcomes of one draw: none when the boxes are counted as none, when there are
\* none, or when the range of the index is empty.
_one_nft(draw, boxsum) ==
    LET many == draw.boxnum >= MAX_LOWER_BOUND
        hits == IF DOMAIN draw.boxes = {} THEN {}
                ELSE UNION {Pick(draw.boxes, many, r) : r \in 1 .. (IF many THEN boxsum ELSE draw.num)}
    IN  {LET box == draw.boxes[x]
         IN  [boxes  |-> IF box.amount = 1 THEN Erase(draw.boxes, {x})
                         ELSE [draw.boxes EXCEPT ![x].amount = @ - 1],
              num    |-> (draw.num - 1) % (UintMax + 1),
              boxnum |-> BoxesLeft(draw, box),
              bought |-> [draw.bought EXCEPT ![box.id] = @ + 1]] :
         x \in IF draw.boxnum = 0 THEN {} ELSE hits}

\* All outcomes of swap_amount draws from booth b.
Draws(b, swap_amount) ==
    LET first == [boxes |-> Boxes(b.id), num |-> b.base_nft_num,
                  boxnum |-> b.base_nftbox_num, bought |-> [i \in TokenIds |-> 0]]
        after[i \in 0 .. swap_amount] ==
            IF i = 0 THEN {first}
            ELSE UNION {_one_nft(draw, b.base_nftbox_sum) : draw \in after[i - 1]}
    IN  after[swap_amount]

------------------------------------------------------------------------------
(* Transfers *)

\* `from` sends the contract `amount` of n, which gives `from` the NFTs of `given`,
\* each in the amount of given, and holds them all.
NftMoves(from, n, amount, given) ==
    LET In(m)  == IF m = n THEN amount ELSE 0
        Out(m) == IF m \in DOMAIN given THEN given[m] ELSE 0
    IN  /\ amount <= nft[from][n]
        /\ \A m \in DOMAIN given : m \in Nfts /\ given[m] <= nft[Swap][m] + In(m)
        /\ nft' = [nft EXCEPT ![Swap] = [m \in Nfts |-> @[m] + In(m) - Out(m)],
                              ![from] = [m \in Nfts |-> @[m] - In(m) + Out(m)]]

\* The NFTs of one contract that were bought.
Given(bank, bought) ==
    LET ids == {i \in TokenIds : bought[i] > 0}
    IN  [m \in [bank : {bank}, id : ids] |-> bought[m.id]]

------------------------------------------------------------------------------
(* Booths *)

\* By the contract, at any time.
init(account) ==
    /\ admin' = account
    /\ UNCHANGED <<last_booth_id, booths, boothboxes, nft, now, touched, kept>>

\* Mutant: a booth is numbered by how many there are.
BugIdFromRows(n) == Cardinality(DOMAIN booths) + 1

NewBoothId(n) == last_booth_id + 1

\* By the contract or its admin.
createbooth(owner, base, n, price, opened_at, closed_at) ==
    /\ opened_at < closed_at /\ closed_at > now
    /\ n \notin DOMAIN booths
    /\ last_booth_id < MaxBooths
    /\ \E left \in Leftovers :
          /\ booths' = Emplace(booths, n,
                 [id |-> NewBoothId(n), owner |-> owner, base_nft_contract |-> base,
                  price |-> price, opened_at |-> opened_at, closed_at |-> closed_at,
                  base_nft_sum |-> left.sum, base_nft_num |-> left.num,
                  base_nftbox_sum |-> left.boxsum, base_nftbox_num |-> left.boxnum,
                  quote_nft_recd |-> 0, status |-> "enabled"])
          /\ touched' = IF \A f \in DOMAIN left : left[f] = 0 THEN touched
                        ELSE touched \cup {NewBoothId(n)}
    /\ last_booth_id' = last_booth_id + 1
    /\ UNCHANGED <<admin, boothboxes, nft, now, kept>>

\* By the owner, the contract or its admin, like setboothtime and closebooth.
enablebooth(n, status) ==
    /\ n \in DOMAIN booths
    /\ booths[n].status # status
    /\ booths' = [booths EXCEPT ![n].status = status]
    /\ UNCHANGED <<admin, last_booth_id, boothboxes, nft, now, touched, kept>>

setboothtime(n, opened_at, closed_at) ==
    /\ n \in DOMAIN booths
    /\ opened_at < closed_at /\ closed_at > now
    /\ booths' = [booths EXCEPT ![n].opened_at = opened_at, ![n].closed_at = closed_at]
    /\ UNCHANGED <<admin, last_booth_id, boothboxes, nft, now, touched, kept>>

\* Only the row of the booth goes: its boxes and their NFTs stay.
closebooth(n) ==
    /\ n \in DOMAIN booths
    /\ booths[n].status = "enabled"
    /\ booths' = Erase(booths, {n})
    /\ kept' = [kept EXCEPT ![n] = @ + booths[n].quote_nft_recd]
    /\ UNCHANGED <<admin, last_booth_id, boothboxes, nft, now, touched>>

\* The first box of booth b that holds NFTs of id i already.
BoxWith(b, i) == {x \in BoxIds(b) : boothboxes[<<b, x>>].id = i}

\* available_primary_key of the scope.
NewBoxId(b) == IF BoxIds(b) = {} THEN 0 ELSE Max(BoxIds(b)) + 1

\* Mutant: the sum of the boxes is not kept.
BugBoxSum(booth, new) == [booth EXCEPT !.base_nftbox_num = @ + new]

CountBoxes(booth, new) ==
    [booth EXCEPT !.base_nftbox_num = @ + new, !.base_nftbox_sum = @ + new]

\* _refuel_nft: NFTs with the memo "refuel:contract:id".
_refuel_nft(from, m, amount, n) ==
    LET booth == booths[n]
        b     == booth.id
        new   == IF BoxWith(b, m.id) = {} THEN 1 ELSE 0
        x     == IF new = 1 THEN NewBoxId(b) ELSE Least(BoxWith(b, m.id))
        had   == IF new = 1 THEN 0 ELSE boothboxes[<<b, x>>].amount
    IN  /\ n \in DOMAIN booths
        /\ booth.status = "enabled" /\ booth.base_nft_contract = m.bank /\ booth.owner = from
        /\ NftMoves(from, m, amount, EmptyTable)
        /\ boothboxes' = Emplace(boothboxes, <<b, x>>, [id |-> m.id, amount |-> had + amount])
        /\ booths' = [booths EXCEPT ![n] = [CountBoxes(booth, new) EXCEPT
                          !.base_nft_sum = @ + amount, !.base_nft_num = @ + amount]]
        /\ UNCHANGED <<admin, last_booth_id, now, touched, kept>>

\* Mutant: the remainder of a payment is kept.
BugKeepRest(booth, amount) == amount \div booth.price \in 1 .. batch_swap_max_nfts

\* A payment is for a whole number of draws, within the batch limit.
PaysFor(booth, amount) ==
    /\ amount \div booth.price \in 1 .. batch_swap_max_nfts
    /\ amount % booth.price = 0

\* Mutant: the rows of the boxes are written back as they were.
BugBoxesStay(b, boxes) == boothboxes

\* The boxes of booth b become `boxes`.
BoxesBecome(b, boxes) ==
    [k \in {j \in DOMAIN boothboxes : j[1] = b => j[2] \in DOMAIN boxes} |->
        IF k[1] = b THEN boxes[k[2]] ELSE boothboxes[k]]

\* _swap_nft: NFTs with the memo "swap", for the booth that takes them.
_swap_nft(from, n, amount) ==
    LET booth == booths[n]
    IN  /\ n \in DOMAIN booths
        /\ booth.base_nft_num > 0
        /\ booth.status = "enabled" /\ now \in booth.opened_at .. booth.closed_at
        /\ PaysFor(booth, amount)
        /\ \E draw \in Draws(booth, amount \div booth.price) :
              /\ NftMoves(from, n, amount, Given(booth.base_nft_contract, draw.bought))
              /\ boothboxes' = BoxesBecome(booth.id, draw.boxes)
              /\ booths' = [booths EXCEPT ![n].quote_nft_recd = @ + amount,
                                          ![n].base_nft_num = draw.num,
                                          ![n].base_nftbox_num = draw.boxnum]
        /\ UNCHANGED <<admin, last_booth_id, now, touched, kept>>

------------------------------------------------------------------------------
(* Maintenance, by the contract *)

fixbox(b, x, i, amount) ==
    /\ <<b, x>> \in DOMAIN boothboxes
    /\ boothboxes' = [boothboxes EXCEPT ![<<b, x>>] = [id |-> i, amount |-> amount]]
    /\ touched' = touched \cup {b}
    /\ UNCHANGED <<admin, last_booth_id, booths, nft, now, kept>>

fixbooth(n, num) ==
    /\ n \in DOMAIN booths
    /\ booths' = [booths EXCEPT ![n].base_nft_num = num]
    /\ touched' = touched \cup {booths[n].id}
    /\ UNCHANGED <<admin, last_booth_id, boothboxes, nft, now, kept>>

Tick ==
    /\ now < MaxDay
    /\ now' = now + 1
    /\ UNCHANGED <<admin, last_booth_id, booths, boothboxes, nft, touched, kept>>

------------------------------------------------------------------------------
(* The specification *)

Init ==
    /\ admin = Nobody
    /\ last_booth_id = 0
    /\ booths = EmptyTable
    /\ boothboxes = EmptyTable
    /\ nft = FirstNfts
    /\ now = 0
    /\ touched = {}
    /\ kept = [n \in Nfts |-> 0]

Manage ==
    \/ \E a \in Admins : init(a)
    \/ \E u \in Owners, b \in BaseBanks, n \in Quotes, p \in Prices, t \in Times :
           createbooth(u, b, n, p, t[1], t[2])
    \/ \E n \in Quotes, s \in {"enabled", "disabled"} : enablebooth(n, s)
    \/ \E n \in Quotes, t \in Times : setboothtime(n, t[1], t[2])
    \/ \E n \in Quotes : closebooth(n)

Trade ==
    \/ \E u \in Owners, m \in Nfts, k \in RefuelAmounts, n \in Quotes : _refuel_nft(u, m, k, n)
    \/ \E u \in Users, n \in Quotes, k \in SwapAmounts : _swap_nft(u, n, k)

Maintain ==
    \/ \E k \in DOMAIN boothboxes, i \in TokenIds, a \in FixAmounts : fixbox(k[1], k[2], i, a)
    \/ \E n \in Quotes, a \in FixAmounts : fixbooth(n, a)

Next == Manage \/ Trade \/ Maintain \/ Tick

Spec == Init /\ [][Next]_vars
------------------------------------------------------------------------------
(* Rows *)

BoothRow == [id : BoothIds, owner : Owners, base_nft_contract : BaseBanks, price : Prices,
             opened_at : Nat, closed_at : Nat, base_nft_sum : Nat, base_nft_num : Nat,
             base_nftbox_sum : Nat, base_nftbox_num : Nat, quote_nft_recd : Nat,
             status : {"enabled", "disabled"}]

BoxRow == [id : TokenIds, amount : Int]

\* Booths whose rows were never set by hand, nor created with leftovers.
Intact == {n \in DOMAIN booths : booths[n].id \notin touched}
InBoxes(S) == SumFunctionOnSet(Amounts(boothboxes), S)

------------------------------------------------------------------------------
(* Properties *)

\* Every variable has its type: no two booths share the scope of their boxes, and what
\* is left in an intact booth is at most what it was ever filled with.
TypeOK ==
    /\ admin \in Users \cup {Nobody}
    /\ last_booth_id \in 0 .. MaxBooths
    /\ IsTable(booths, Quotes, BoothRow)
    /\ \A m, n \in DOMAIN booths : booths[m].id = booths[n].id => m = n
    /\ \A n \in Intact : /\ booths[n].base_nft_num <= booths[n].base_nft_sum
                         /\ booths[n].base_nftbox_num <= booths[n].base_nftbox_sum
    /\ IsTable(boothboxes, (1 .. last_booth_id) \X Nat, BoxRow)
    /\ nft \in [Accounts -> [Nfts -> Nat]]
    /\ now \in Nat /\ touched \subseteq BoothIds /\ kept \in [Nfts -> Nat]

\* The counters in the row of an intact booth agree with the boxes in the other
\* table, where every box holds something and no NFT has two boxes.
CountersMatchBoxes ==
    \A n \in Intact :
        LET b == booths[n].id
        IN  /\ booths[n].base_nft_num = SumFunction(Amounts(Boxes(b)))
            /\ booths[n].base_nftbox_num = Cardinality(BoxIds(b))
            /\ \A x \in BoxIds(b) :
                  /\ boothboxes[<<b, x>>].amount > 0
                  /\ BoxWith(b, boothboxes[<<b, x>>].id) = {x}

\* Every box of an intact booth can be drawn, whichever way the draw takes and
\* whatever boxes were sold out or came back: some index _rand may return leads to it.
EveryBoxCanBeDrawn ==
    \A n \in Intact :
        LET booth == booths[n]
            many  == booth.base_nftbox_num >= MAX_LOWER_BOUND
            range == IF many THEN booth.base_nftbox_sum ELSE booth.base_nft_num
        IN  \A x \in BoxIds(booth.id) :
               \E r \in 1 .. range : Pick(Boxes(booth.id), many, r) = {x}

\* An intact booth got its price for every NFT it gave.
RateKept ==
    \A n \in Intact :
        booths[n].quote_nft_recd = booths[n].price * (booths[n].base_nft_sum - booths[n].base_nft_num)

BankOf(b) == {booths[n].base_nft_contract : n \in {m \in DOMAIN booths : booths[m].id = b}}

\* The contract holds what the boxes of its booths and the swaps say: an NFT in a box
\* is there to be drawn, and what a booth received is there after it closed, unless boxes
\* were set by hand.  Of the boxes a closed booth leaves behind nothing is said.
SwapHolds ==
    touched = {} =>
        \A m \in Nfts :
            nft[Swap][m] >=
                kept[m]
                + (IF m \in DOMAIN booths THEN booths[m].quote_nft_recd ELSE 0)
                + InBoxes({k \in DOMAIN boothboxes :
                              boothboxes[k].id = m.id /\ m.bank \in BankOf(k[1])})
------------------------------------------------------------------------------
(* Refinement *)

editedBar == touched # {}
usedBar == 1 .. last_booth_id
\* Booths by their ids: the quote NFT of a booth may have another one later.
termsBar == [b \in BoothIds |->
    {[owner |-> booths[n].owner, coin |-> n, price |-> booths[n].price] :
        n \in {m \in DOMAIN booths : booths[m].id = b}}]
stockBar == [b \in BoothIds |-> [m \in Nfts |->
    IF m.bank \in BankOf(b)
    THEN InBoxes({k \in DOMAIN boothboxes : k[1] = b /\ boothboxes[k].id = m.id}) ELSE 0]]
tillBar  == [n \in Nfts |->
    kept[n] + (IF n \in DOMAIN booths THEN booths[n].quote_nft_recd ELSE 0)]
purseBar == [u \in Users |-> nft[u]]

AsRaffle == INSTANCE Raffle WITH
    Goods <- Nfts, Coins <- Nfts, Keys <- BoothIds, edited <- editedBar,
    used <- usedBar, terms <- termsBar, stock <- stockBar,
    till <- tillBar, purse <- purseBar

\* The swap is a raffle whose coins are NFTs too, and which keeps what is left in a booth
\* that closes: whichever way a draw takes to a box, the buyer gets what the box had and
\* pays the price for each.
ImplementsRaffle == AsRaffle!Spec
=============================================================================
