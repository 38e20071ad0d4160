SPECIFICATION Spec
CONSTANTS
    u1 = u1
    u2 = u2
    mart = mart
    split = split
    Users = {u1, u2}
    Mart = mart
    Distributor = split
    Owners = {u1}
    NftBanks = {"amax.ntoken"}
    Symbols <- Clashing
    Currencies <- OneCurrency
    Prices = {1}
    Payments = {1}
    Openings = {1}
    Durations = {0}
    BoothTimes <- NoTimes
    Batches <- Nests
    MaxBoxes = {33}
    FixAmounts = {}
    Coins = {}
    Rewards = {}
    Precision <- Digits
    max_nfts_purchase = 3
    UintMax = 15
    Uint16Max = 31
    FirstMoney <- NestPurse
    FirstNfts <- NestStock
    FirstApples = 0
    MaxBooths = 1
    MaxDay = 1
CHECK_DEADLOCK FALSE
INVARIANT NumIsAvailable
