SPECIFICATION Spec_mart
CONSTANTS
    u1 = u1
    u2 = u2
    custody = custody
    mine = mine
    mart = mart
    split = split
    Users = {u1, u2, mart}
    Custody = custody
    Mine = mine
    Assets = {1}
    Mids = {7}
    MAX_LOCK_DAYS = 3
    IntMax = 100
    Fees = {0}
    FeeAmounts = {}
    Intervals = {1}
    Times = {2}
    FirstDays = {0}
    Lockers = {u1}
    Receivers = {u1}
    LockAmounts = {1}
    StrayAmounts = {}
    Named = {}
    MoveCounts = {1}
    Windows <- NoWindow
    FirstBlacklist = {}
    MaxPlans = 1
    MaxLocks = 2
    MaxDay = 1
    FirstPass <- StockPasses
    FirstMid <- StockMids
    Mart = mart
    Split = split
    Owners = {u1, u2}
    Buyers = {u2}
    Prices = {2}
    SellTimes <- FirstDay
    EndTimes = {1}
    RefuelAmounts = {1}
    BuyAmounts = {1, 2}
    Payments = {2, 4}
    FirstMoney <- BuyersMoney
    MaxPasses = 2
    Wirings = {custody, mine}
CHECK_DEADLOCK FALSE
INVARIANTS
    TypeOK_mart
    StockHeld
    SalesSettle
    SoldNeverRefunded
