SPECIFICATION Spec
CONSTANTS
    u1 = u1
    u2 = u2
    mart = mart
    split = split
    Users = {u1, u2}
    Mart = mart
    Distributor = split
    Owners = {u1}
    NftBanks = {"amax.ntoken", "nftone.ntoken"}
    Symbols <- TwoKinds
    Currencies <- OneCurrency
    Prices = {2}
    Payments = {3, 4}
    Openings = {1}
    Durations = {0}
    BoothTimes <- SaleTimes
    Batches <- Litters
    MaxBoxes = {33}
    FixAmounts = {2}
    Coins = {"MUSDT"}
    Rewards = {0}
    Precision <- Digits
    max_nfts_purchase = 3
    UintMax = 15
    Uint16Max = 31
    FirstMoney <- SalePurse
    FirstNfts <- SaleStock
    FirstApples = 3
    MaxBooths = 2
    MaxDay = 1
CHECK_DEADLOCK FALSE
INVARIANTS
    TypeOK
    CountersMatchBoxes
    DrawIsFair
    MartHoldsUnsold
PROPERTIES
    PricePerNft
    ImplementsRaffle
