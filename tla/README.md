# Verification of the NFToNe contracts

TLA+ models of the smart contracts in this repository, TLC configurations that
check them on small instances, and TLAPS proofs about all eight for every
value of the constants.  All paths below are relative to `src/contracts/`.

    tlc -workers 2 -config NftoneMart_core.cfg MCNftoneMart
    tlapm NftoneMartProofs.tla

## 1. The system

Eight contracts of an EOSIO chain.  A contract keeps its state in tables
(`eosio::multi_index`, singletons).  Users call actions; a token or NFT transfer to
a contract *notifies* it, and the memo of the transfer says what the transfer is
for.  A handler answers with inline transfers.  A transaction is atomic: when a
check fails anywhere in it, nothing of it happened.  There is no concurrency inside
a transaction; what is hard is the **order of transactions** of several users over
days, the state that has to agree across tables, contracts and transactions, and
the arithmetic in between.

| contract | state | operations | talks to |
|---|---|---|---|
| `nftone.mart` | `sellorders`, `odextension` (both scoped by token id), `buyerbids`, `global`, `global1` | sell (NFT transfer), buy or bid (money transfer), `takebuybid`, `cancelbid`, `cancelorder` (one or all), configuration | money and NFT contracts, `amax.split`'s fee account, a farm |
| `pass.custody` | `plans`, `locks` (scoped by plan), `payaccounts`, `movewindows`, `whitemovers`, two globals | `addplan`, plan fee (money transfer), lock (NFT transfer), `unlock`, `endlock`, move of a lock by MIDs (NFT transfer), `movedata`, windows, lists | `pass.ntoken`, `verso.itoken` |
| `pass.mart` | `passes`, `global` | products, refuel (two NFT contracts), sale (money transfer) | `pass.custody`, `pass.ntoken`, `verso.itoken`, `amax.split` |
| `rndnft.mart` | `booths`, one map of boxes per booth, `global` | booths, refuel (NFT transfer), random sale (money transfer), `closebooth`, maintenance | NFT and money contracts, `amax.split`, a farm |
| `rndnft.swap` | `booths`, boxes (scoped by booth id), `global` | booths, refuel and swap (NFT transfers), maintenance | one NFT contract |
| `nftone.ntoken` | `tokenstats`, `accounts`, `whitecreator`, `tswhitelist`, `locknsymbols`, notaries | create, issue, retire, transfer, notarize, `setlocktime`, `setacctperms` | – |
| `amax.ntoken` | `tokenstats`, `accounts`, `whitecreator`, `allowances`, notaries | create, issue, retire, transfer, notarize, `approve`, `transferfrom` | `did.ntoken` |
| `amax.ntt` | `stat`, `accounts` | create, issue, retire, transfer, `setacctperms`, `open`, `burn` | `amax.token`'s blacklist |

What makes each of them correct, and hard to test:

- **nftone.mart**: orders, extension rows and bids end in many ways and must agree;
  the contract holds the NFTs of its orders and the money of its bids, bids beyond
  the refund limit of a close included; nobody gains or loses but by a trade at a
  posted price.
- **pass.custody**: a lock's parts and a plan's totals stay in step while locks are
  released by a rounded schedule, ended, split, moved, erased and made anew; no lock
  is ever stuck.
- **pass.mart** with the custody: products share one stock; a sale is one
  transaction over three contracts; a pass sold cannot be taken back.
- **rndnft.mart, rndnft.swap**: counters in one row follow boxes in another; a draw
  meets an NFT, each with its share; what is sold was paid for.
- **the token contracts**: supply and balances agree; locks, permissions, allowances
  and expiry do what their setter said, whatever transfers come in between.

`PROJECT.json` lists every hazard at its line, with the properties that watch it.

## 2. Modules

| module | contract |
|---|---|
| `Tables` | tables as functions from keys to rows, books of accounts; used by all |
| `NftoneMart` | `nftone.mart` |
| `Exchange` | what a market promises, abstractly; `NftoneMart` refines it |
| `PassCustody` | `pass.custody` |
| `Escrow` | what the custody promises about passes and MIDs, abstractly; `PassCustody` refines it |
| `PassMart` | `pass.mart`, EXTENDS and composes with `PassCustody` |
| `RndnftMart`, `RndnftSwap` | the two random sales |
| `Raffle` | what a random sale promises, abstractly; `RndnftMart` and `RndnftSwap` refine it |
| `Ntoken` | what the two NFT contracts share |
| `NftoneNtoken`, `AmaxNtoken` | each EXTENDS `Ntoken` with its own |
| `AmaxNtt` | `amax.ntt` |
| `Ledger` | what a token contract promises its holders, abstractly |
| `Ntokens` | an account that runs one of the three; each refines `Ledger` |
| `MC*` | instances for TLC |
| `TableProofs` | lemmas on tables, transfers and sums over tables |
| `NftoneMartProofs`, `PassCustodyProofs`, `PassMartProofs`, `RndnftMartProofs`, `RndnftSwapProofs`, `NtokenProofs` (both NFT contracts), `AmaxNttProofs` | theorems, see 4 |

**How they correspond to the code.**  A table is a variable, a row a record with the
field names of the struct, an action or notification handler is a TLA+ action of the
same name: its conjuncts are the `CHECKC`s, early returns are disjuncts, and its
inline transfers are moves in the balances (`money`, `nft`, `pass`, `mid`), so that a
transfer that would overdraw, or an amount of zero that a token contract refuses,
aborts the action as it aborts the transaction.  `map` in `PROJECT.json` gives the
lines of each definition.

- *Authority* (`require_auth`) shows as the choice of the actor.  Where the actor does
  not change what happens, the comment says by whom and the actor is left out.
- *Time* is in days, `Tick` moves it; every schedule of the contracts counts days or
  compares times only.
- *Balances of the other contracts* are external: a model of a mart has a book with
  the holdings of users, of itself and of the payees.
- *Names that two composed modules share* carry a suffix (`_mart`, `_amax`, `_ntt`).
- *Bug…* operators, marked "Mutant", are small wrong versions of the definition that
  follows; a property is listed in `PROJECT.json` with one that it detects.

**NftoneMart.**  `_sell_transfer` lists NFTs; `BuyNow` and `PlaceBid` are the two
ways through `_buy_transfer`; `TakeFromOrder` is what lowers or erases an order,
`_refund_buyer_bid` the refund loop with its limit.  `paidIn` is a history variable:
the currency a bid came in.  The fee rate is a ratio `Rates / FeeScale`.  `IntMax` is
the bound of `int64_t`, at which the unchecked product of `process_single_buy_order`
(`nftone.mart.cpp:362`) wraps in the model (`Int64`).  The runs list nothing so large
that it does, and the theorems on money suppose that it does not (`AmountsFit`): past
the width a deal is settled at a wrapped amount, which nothing in the code refuses.
`cancelorder_all` models `cancelorder(maker, token, 0)`,
which erases the row its iterator stands on and then advances it: that aborts, so the
call succeeds only where nothing matches.

**PassCustody.**  `total_unlocked` is the schedule with its rounding; `Tenths` keeps
the overflow check of `multiply_decimal64`.  `onmidtrans` moves one lock for a batch of
MIDs; the part of the batch beyond the lock comes back.  `stray` counts passes sent
in under a memo the handler ignores.  The mining contract that `movedata` sends to is
an account.

**PassMart.**  Every step of the custody is a step of the composition, restricted by
`MartRefuses`: a transfer to the mart that is not a refuel aborts, and with it the
custody's transaction.  `init` names the account sold passes go to; once it is not the
custody, a sale sends them to an account that locks nothing (`elsewhere`).

**RndnftMart.**  The hash of the draw is a free choice.  `Less` is the operator `<` of
`nsymbol`; where it fails to order the keys of a map, `MayMiss` lets a lookup miss a
key.  A draw past the end of the map reads memory: it may deliver any NFT, and the map
stays.  `touched` marks the booths edited by hand.  The farm that rewards a buyer is
external: `apples` are given as far as the lease of the mart has them, `BoxOf(id, n)` is
what a booth has of a symbol.  `setmaxbox` takes a `uint64_t` into a `uint16_t`
(`Uint16Max`); in the runs it comes out as one box per booth.

**RndnftSwap.**  `createbooth` leaves the counters of a new row uninitialised: they are
any record of `Leftovers`.  A draw takes a box id or counts NFTs, depending on how many
boxes there are (`MAX_LOWER_BOUND`).  A booth is *intact* when its counters started at
zero and nobody edited it.

**Ntoken family.**  A row is found by the id of a symbol, a balance by id and parent.
`windows` (nftone), `granted`, `taken` (amax) and `touched` (ntt) are history
variables: the window set last, what was approved last and taken since, the day of the
last payment.  `did.ntoken`'s balances and `amax.token`'s blacklist are constant sets.
`sum_balance` of `amax.ntt` decides nothing and is left out, and with it that a payment
aborts once an account has been paid more than an `asset` can count (2^62 - 1).

**The abstract specifications.**  Each is a promise without the tables, and the module
of the contract ends with the mapping.
- `Exchange`: who trades what for how much.  An account is worth its balance and its
  resting bids, it holds its NFTs and its orders.
- `Escrow`: deposits, what is in them, and the purses of the accounts.  A live lock is a
  deposit of its plan's asset under the key of plan and id; keys up to a plan's counter
  are used.  A release, an ending, a move of a part and `movedata` are its steps; whoever
  calls, and when, is left open.  MIDs and passes in transit do not show.
- `Raffle`: terms, stock and till of a booth, and the purses of the accounts.  A booth opens
  under a key never used, its owner fills it, buyers draw from it at its price for each good,
  and a closing gives back all of the stock (`rndnft.mart`) or none (`rndnft.swap`).  Which
  goods are drawn, and the counters that say how many are left, do not show: the stock is
  the boxes, the till what the payee has.  Both contracts let rows be set by hand;
  nothing is promised after that (`edited`), and the properties on intact booths go on.
- `Ledger`: terms, supply and holdings by whole assets.  For the NFT contracts an asset is
  a *symbol*, id and parent: supply rows are found by id alone, so the mapping says what a
  row with the id of another symbol is to this one, namely nothing.  For `amax.ntt` an
  asset is a code with its precision, and the assets are perishable: a burn may take more
  from a holder than it pays.

## 3. Runs

All state spaces are explored completely.  `CHECK_DEADLOCK FALSE` because counters,
ids and days are bounded, so the model stops where the system would not.

| run | instance | shows |
|---|---|---|
| `market_core` | 2 users, 1 NFT, 2 in stock, one symbol of two token contracts, 2 orders, 2 bids, refund limit 2 | tables agree, NFTs in custody, refinement of `Exchange` |
| `market_limit` | 2 NFTs of two contracts, an IP owner, 2 currencies, 3 bids, refund limit 1 | solvency with bids left behind, which those are, that no new order finds them, terms fixed, what a maker is paid |
| `custody_vesting` | plans with and without fee, 3 parts and a cliff, amounts that round and one that overflows | lock and plan books, schedule never behind (without moves) |
| `custody_moves` | MID moves, `movedata`, endings, stray passes | refinement of `Escrow`, totals are the sums of locks, custody, and every lock is closed in the end |
| `custody_fee`, `custody_assert`, `custody_cursor` | | disagreements, see 5 |
| `mart_sale` | 2 products on one stock, sale to the custody or elsewhere, release and attempted refund | stock, payment, no pass taken back |
| `rndnft_sale` | 2 kinds of NFTs of one parent, 2 NFT contracts of which one has stock, batches, change, a farm lease, editing by hand | refinement of `Raffle`, counters, fair draw, custody, an NFT for each price |
| `rndnft_boxes` | NFTs of two parents | disagreement, see 5 |
| `swap_draw` | 2 quote NFTs, which are prizes too, 3 booths over time of which 2 can be open at once, both ways of drawing, boxes that empty and return, closing, editing by hand | refinement of `Raffle`, no two booths share a scope, counters, every box reachable, custody |
| `ntokens_books` | 3 tokens, two of one parent, two symbols of one id; a window of two days; a year of one day; a coin in two precisions, with a balance whose reward is not zero | refinement of `Ledger`, supply, locks, allowances, expiry |

`ntokens_books` runs the three token contracts in one instance: the variable `code`
says which of them the account runs, and `ImplementsLedgers` that the steps are those of
the ledger of its kind.  They do not interact.  The amounts 10 and 20 of
`amax.ntt` are the least of which a burn gives a reward that rounds to more than nothing.

**Bounds.**  `MaxOrders`, `MaxBids`, `MaxPlans`, `MaxLocks`, `MaxBooths`, `MaxPasses`,
`MaxId`, `MaxDay`, `LastDay` bound counters and time in the guards.  They suffice for
the cases that matter: an order that is bought, bid for, cancelled and followed by
another while bids of the first still rest; one bid more than the refund limit; a lock
before its cliff, between parts and after the last, moved before and after a release;
two locks and two plans, where one cursor serves both; two products or booths over one
stock, and a booth opened again while the other one stays open; a draw batch over two boxes; a window before, during and after.  Each property
is paired with a mutant of the code that TLC finds within the same bounds, and the
refinements of `Escrow`, `Raffle` and `Ledger` with several.

**Fairness.**  Every step is a user's transaction, which nothing in the code makes
happen, so the specifications assume none, but one: `FairSpec` of the custody, under
which `custody_moves` shows `LocksRunOut` (a lock whose schedule ends is closed or moved
away whole).  It assumes that days pass and that for each lock somebody calls `unlock`
again while it would do something.  Weak fairness of `unlock` is justified because it
asks for no particular account (`pass.custody.cpp:425`): any one user who wants the
passes, or a cron job, is enough.  What keeps the property from following at once is the
assertion of finding 2, which turns `unlock` off for days, and the moves, which split
and erase locks meanwhile.  What a user *can* do in the token contract is a state
property with `ENABLED`: `HoldersCanSend` (outside a window NFTs can be sent).

## 4. Proofs

TLAPS proves for every value of the constants, under the assumptions named in the
modules (types of constants, finite sets of accounts, the accounts are distinct).
Theorems that need more state it as a hypothesis, which instances of the runs satisfy:
`OneBankPerSymbol` and `AmountsFit` that of `market_limit`, `OrderedSymbols` that of
`rndnft_sale`, `SupplyFits` that of `swap_draw`, `NoMoves` that of `custody_vesting`.
`PROJECT.json` lists the theorems to know of.

- **TableProofs.**  `Emplace`, `Erase`, transfers between balances; and what a sum over a
  table (`SumFunction`) becomes when a row is added, changed or erased, when a part of it
  is selected by a tag (`Tagged`), and how two sums compare row by row.  The library's
  fold is taken through its recursive function; induction is by a least counterexample in
  a finite set.
- **NftoneMartProofs.**  `TypeCorrect`, `ExtensionsFollowOrders`, `BidsAreBacked`,
  `BidsRest`, `TermsNeverChange` (which also says that a new order finds no bid on it).  The inductive invariant `IInv` joins the state
  properties: that a bid's row keeps a positive multiple of its price needs the types,
  that an order's currency is what its bids were paid in needs the extension row to be
  there, and ids below the counters keep a new order from inheriting old bids.
  `NftsInCustody`: the sum of what orders offer follows the NFTs through every path.
  `MarketIsSolvent` has two hypotheses.  `OneBankPerSymbol`: a bid left behind by a closed
  order is refunded by symbol out of the default contract, so two contracts with one
  symbol would pay for one another (`market_limit` satisfies it, `market_core` does not
  and does not check `Solvent`).  `AmountsFit`: the unchecked product of a price and an
  amount stays in `int64_t`.  The invariant is `IInv`, `Solvent` and that a bid's symbol
  is the one it was paid in.
  `MarketImplementsExchange` and `MakersArePaid` have the same hypotheses: a refund
  out of another contract's money is no trade (in `market_core`, which has two contracts
  with one symbol, the bids fit the refund limit, so none is left behind to be paid so).  `MarketInv` joins custody,
  solvency and `TradeInv` (the two fee rates never exceed the whole, so a maker's part is
  not negative).  What an account is worth is its balance and its resting bids, what it
  holds its NFTs and its orders; each action moves both as a `Sale` does, or not at all.
  `SymbolsAreSolvent` drops `OneBankPerSymbol`: over all contracts with one symbol, the
  market holds what the bids in that symbol froze, so a refund out of the wrong contract
  moves a shortage from one to another and makes none.
  `OffersComeBack`: under the two hypotheses every order can be withdrawn at any time, its
  bids refunded, and every bid but the `Stranded` ones, whose order is gone and which were
  paid in another contract than the default one; `StrandedForGood` says that no call ever
  frees those.  `TradesGoThrough`: no purchase that the buyer has the price for, and no bid
  taken, fails for want of what the market holds.  As `ENABLED` is out of reach, these are
  about conditions (`CanCancelOrder`, `CanTakeBid`, ...) that the lemmas `CancelOrderIs`,
  `CancelBidIs`, `TakeBidIs` and `BuyIs` show to be the whole guard of each action, the rest of
  it being assignments.  The same form is used in the custody and the sales below.
  `LateBidsStayBehind` needs no hypothesis: of the bids older than one that stays, the
  first ones by rank are as many as the refund limit, by a least counterexample.
- **PassCustodyProofs.**  `IInv` is `TypeOK /\ LockSplit /\ PlanSplit`: balances stay
  natural because a plan's totals cover each release, and a lock's released part is
  bounded because locked and issued are split.  `LocksNeverGrow` is the action property.
  `BooksInv` on top of it: `TotalsAreSums`, `CustodyIsWhole`, `MidsGoOn`.  (`LocksNeverGrow` and
  `MidsGoOn` have no run of their own: the bugs they exclude break `ImplementsEscrow` too.)
  `LastPartComes`: when the schedule of a live lock is over, every check of `unlock`
  passes; it is the core of `LocksRunOut` without the fairness.
  `OnlyTheScheduleHolds`: `_unlock` passes for a live lock exactly when the schedule lets it,
  that is, its product fits, it computes no less than was released (finding 2), and something
  is due or the lock is being ended.  No total and no balance ever stands in the way.
  `CustodyImplementsEscrow`: `EscrowInv` is `IInv` and that the keys of locks are in the model's
  bounds.  That lock ids are below their plan's counter gives a new lock, and the part a
  move splits off, a key never used; `LockSplit` makes an emptied lock and an emptied
  deposit the same.  The totals and `BooksInv` are not needed.
  `ScheduleCoversReleases` (`VestedCoversUnlocked`) has the hypothesis `NoMoves`, no move
  window, which `custody_vesting` satisfies; with windows finding 2 denies it.  It rests on
  the rounding of `multiply_decimal64` being monotone and never above the whole.
- **PassMartProofs.**  The composition.  A step of the custody is a step of its own
  invariant; `SoldIsKept` (`SoldNeverRefunded`) is not inductive, as it says nothing of
  locks that others made under the plan and may still have refunded: `SalesStay` counts
  them with the passes sold.  `StockIsHeld`, `SalesAreSettled`, `MartTypeCorrect`, and
  `CustodyHoldsInSale`: the custody's books hold in the composition too.
  `SalesGoThrough`: a sale that the mart's own checks let pass is delivered by the NFT contracts
  and the custody, unless the fee of the product's plan is unpaid; it needs the stock to be
  held, and that a product and its plan name the same asset (`ProductsFit`, inductive).
- **RndnftMartProofs.**  `MartInvariant` (types and settlement) and the action property
  `AnNftForEachPrice` hold for any symbols, lookups that miss a key and draws past the map
  included.  `OrderedBoxesAreCounted`, `OrderedBoxesAreHeld` and `OrderedDrawsAreFair` have
  the hypothesis `OrderedSymbols`: no two symbols are each less than the other, which is
  what finding 4 denies in general; and the box counter is wide enough, and the contract
  starts without NFTs.  A batch of draws is a recursive function: what all its draws keep
  (`Drawn`) is proved for the least number of draws that would break it.
  `SalesAlwaysSettle` has no run of its own, as the bugs it excludes break `ImplementsRaffle` too.
  `MartImplementsRaffle` (under `OrderedSymbols`): a batch of draws takes out of the boxes what
  it bought, at the price for each NFT; an erased booth has no stock, so its key is never used
  again.  `BoothsAreNeverShort` (under `OrderedSymbols`, until a row is edited): the boxes of a
  booth can be sent back, and as many draws as its counter says have an outcome, each of which
  the contract can deliver.
- **RndnftSwapProofs.**  `SwapInv` says of each intact booth that its
  row is `Sound` with its boxes: besides counters and rate, that box ids are below the number
  of boxes ever made, which is what makes `EveryBoxCanBeDrawn` hold where a draw goes by box
  id, that each box is of an NFT there is, and that no token id has two boxes.  The boxes of
  all booths are one table: `BoxedMoves` says that a trade at one booth moves the sum over all
  by what it moves in its own scope.  A draw wraps a counter that has left `uint64_t`.
  With rows set by hand nothing bounds it (an edited box may give away what another booth
  holds, to be refuelled over and over), so the theorems about intact booths among edited
  ones have the hypothesis `CountersFit`.  Where nothing is edited, none is needed
  (`UntouchedBooksAreRight`, `ContractHoldsAll`): transfers keep the supply of each NFT
  (`NftsStay`), what a booth has in boxes is in the contract's hands, hence a counter is at
  most the sum of all supplies, which `SupplyFits` puts within `uint64_t`.
  Under the same hypothesis `SwapImplementsRaffle`: the boxes of a booth, told apart by token
  id, are its stock, though they lie in one table with those of all other booths.
  `BoothsAreNeverShort`: a payment finds its NFTs drawn and given exactly when it is for no
  more of them than the counter says are left; it also takes NFTs to be pairs of a contract and
  a token id (`NftsArePairs`), as the instance has them.  `PriceIsPaid` has no run of its own, as with
  `SalesAlwaysSettle`.
- **NtokenProofs.**  `NtokenInv` (rows, ids, supplies as sums) is shared; `NftoneInv` adds
  `LocksKept`, that the lock row of a window is missing only once the window is over,
  from which `LockedTokensStay`; `AmaxInv` adds that what is left of an allowance and
  what was taken make what was granted, from which `AmaxAllowancesAddUp`.  A transfer of
  a batch changes a sum at many places at once: one token of the batch is taken at a time.
  `NftoneImplementsLedger` and `AmaxImplementsLedger`: a batch is one `Pay` of the ledger, since
  loss and gain are the same function of the symbol; locks, permissions and allowances only
  refuse.  `NobodyIsStuck`: outside a window every guard of `transfer` holds for a holder and
  any other account, the erasing of the lock row included.
- **AmaxNttProofs.**  `NttInv`: the supply is the sum of the holdings, and no row ends
  before its last payment and a year, from which `OnlyIdleBalancesBurn`.
  `NttImplementsLedger` needs that nothing is held in a wrong precision, and that the
  rounded reward is at most the balance.  `OneTypeCorrect`, `OneSuppliesHeld` and
  `OneImplementsLedgers` (`ImplementsLedgers`) put the three contracts together as `Ntokens` does.

**Only model-checked**: `LocksRunOut` (liveness; `LastPartComes` is its safety core) and
`HoldersCanSend` (`ENABLED`; `NobodyIsStuck` is what it asks of the state), both beyond the
prover.  Every other property of the passing runs is stated by a theorem.

## 5. Where the code and its words part

Each is a run that TLC ends with a counterexample (`findings` in `PROJECT.json`).

1. `custody_fee`: a plan fee paid with `plan:` and no id does not pay for the payer's
   last plan, as `pass.custody.hpp:46` says, but looks for the next one
   (`pass.custody.cpp:128` stores the counter after it moved on).
2. `custody_assert`: after a part is released, moving some of the rest lowers what the
   schedule computes below what was released, against the assertion in `_unlock`
   (`pass.custody.cpp:561`): `unlock` and `endlock` abort until a later part.
   `LocksRunOut` shows that the last part always comes through.
3. `custody_cursor`: one cursor for all plans, though lock ids restart with each plan
   (`pass.custodydb.hpp:160` calls them unique within the contract): `movedata` reports
   completion over locks it never looked at.
4. `rndnft_boxes`: `operator<` of `nsymbol` is no order across parents; a refuel can
   overwrite the amount of a box while `nft_num` ("available num") adds to it.

Met while modelling and in the models as they are, with no property of their own:
`cancelorder` with id 0 aborts whenever an order matches; `movedata` with a count
beyond the table aborts; `addnftconf` cannot take a contract off the list; a bid that
outlives its order is refunded in the default token contract, and, if it was paid in
another one, by no call at all (`nftone.mart.cpp:424`, `529-539`; `StrandedForGood`);
`addpass` accepts a plan whose fee is unpaid, under which nothing can be sold until it is
(`SalesGoThrough`); `closebooth` of the swap
leaves the NFTs in the contract; the first id `create` of the NFT contracts gives out
is 0, which is never valid; `settokenuri` does not look for the uri on other tokens,
though `nftone.ntoken.db.hpp:81` calls it globally unique;
`approve` looks for its row under the owner instead of the spender, and `transferfrom` then lets
the owner of a row take NFTs of the account that row names as spender (`amax.ntoken.cpp:92`,
`186-217`); a move of MIDs splits a lock larger than what came in, though `pass.custody.hpp:74`
says the lock has to be smaller; `setacctperms` of
`amax.ntt` makes a row in whatever precision it is given, and of `nftone.ntoken` finds
only tokens without a parent.

## 6. Not modelled

- The farm itself: outside the repository.  From how `rndnft.mart` uses it, it gives what
  the lease of the mart has or aborts the sale (`available_apples` overwrites a zero with
  what an ended lease has left, `aplink.farm.hpp:70-76`), so a lease with fewer apples than
  the reward stops the sales for that coin.  The reward `nftone.mart` sends has no effect
  on the state here.
- `amax.split`, `amax.token`, `did.ntoken`, `pass.ntoken`, `verso.itoken`: outside the
  repository, modelled from how the contracts here use them.
- Memo parsing: the memo's fields are the parameters of the handlers; a malformed memo
  aborts, which changes nothing.
- RAM, CPU and transaction limits.  So `transferfrom` of `amax.ntoken` is allowed more often
  than on the chain: `sub_balance` makes the account it takes from pay for its row
  (`amax.ntoken.cpp:228`), which aborts where another account pays for it so far.
- Names and titles; trace actions, which only log.
- `init` of `pass.mart` naming other NFT contracts under a stock in hand; `init` of
  `rndnft.mart`, which is commented out (`rndnft.mart.hpp:33-39`): its admin and its
  distributor come from an earlier deployment and are constants.
- Tests, scripts, vendored headers (`safe.hpp`, `wasm_db.hpp`): read, not modelled.

## 7. Plan

Done: the state changes of all eight contracts, and every safety property the passing runs
check is also proved for all constants, some under hypotheses stated above; the market, the
custody, the two random sales and the token contracts each refine an abstract specification.
What users can always get out of the market, the custody and the sales is proved as
conditions on the state.  Left:

1. Liveness and `ENABLED` stay with TLC.
2. With moves, `VestedCoversUnlocked` fails (finding 2).  A fix that scales `unlocked`
   with `issued`, or splits it, would make `ScheduleCoversReleases` hold without
   `NoMoves`; `FollowsTheSchedule` is the place to extend.
3. `OneBankPerSymbol` becomes unnecessary once a bid records the contract it was paid in;
   `Stranded` is then empty, and `OffersComeBack` says that every bid comes back.
