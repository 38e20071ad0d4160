SPECIFICATION Spec
CONSTANTS
    u1 = u1
    u2 = u2
    mart = mart
    split = split
    none = none
    Users = {u1, u2}
    Managers = {u1}
    Mart = mart
    SPLIT_CONTRACT = split
    Nfts <- LimitNfts
    Currencies <- LimitCurrencies
    PayBanks <- Banks
    MUSDT_BANK = "amax.mtoken"
    NTOKEN_BANK = "amax.ntoken"
    MUSDT = "MUSDT"
    NoOwner = none
    IpOwner <- LimitIpOwner
    MIN_PRICE_PRECISION = 3
    MAX_REFUND_COUNT = 1
    IntMax = 127
    FeeScale = 3
    Rates <- CoreRates
    Prices = {2, 3}
    Payments = {2, 5}
    MaxOrders = 2
    MaxBids = 3
    FirstMoney <- LimitMoney
    FirstNfts <- LimitStock
CHECK_DEADLOCK FALSE
INVARIANTS
    RestingBidsBelowAsk
    Solvent
PROPERTIES
    TermsAreFixed
    OnlyLateBidsStayBehind
    MakerIsPaid
