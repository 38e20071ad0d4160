SPECIFICATION Spec
CONSTANTS
    u1 = u1
    u2 = u2
    mart = mart
    split = split
    none = none
    Users = {u1, u2}
    Managers = {u1}
    Mart = mart
    SPLIT_CONTRACT = split
    Nfts <- CoreNfts
    Currencies <- CoreCurrencies
    PayBanks <- Banks
    MUSDT_BANK = "amax.mtoken"
    NTOKEN_BANK = "amax.ntoken"
    MUSDT = "MUSDT"
    NoOwner = none
    IpOwner <- CoreIpOwner
    MIN_PRICE_PRECISION = 2
    MAX_REFUND_COUNT = 2
    IntMax = 127
    FeeScale = 3
    Rates <- CoreRates
    Prices = {1, 2}
    Payments = {1, 3}
    MaxOrders = 2
    MaxBids = 2
    FirstMoney <- CoreMoney
    FirstNfts <- CoreStock
CHECK_DEADLOCK FALSE
INVARIANTS
    TypeOK
    OrderHasExtension
    BidBackedByOrderBank
    NftCustody
PROPERTIES
    ImplementsExchange
