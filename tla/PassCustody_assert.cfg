SPECIFICATION Spec
CONSTANTS
    u1 = u1
    u2 = u2
    custody = custody
    mine = mine
    Users = {u1, u2}
    Custody = custody
    Mine = mine
    Assets = {1}
    Mids = {7}
    MAX_LOCK_DAYS = 3
    IntMax = 100
    Fees = {0}
    FeeAmounts = {}
    Intervals = {1}
    Times = {2}
    FirstDays = {0}
    Lockers = {u1}
    Receivers = {u2}
    LockAmounts = {5}
    StrayAmounts = {}
    Named = {}
    MoveCounts = {}
    Windows <- OneWindow
    FirstBlacklist = {}
    MaxPlans = 1
    MaxLocks = 2
    MaxDay = 2
    FirstPass <- FivePasses
    FirstMid <- TwoMids
CHECK_DEADLOCK FALSE
INVARIANTS
    VestedCoversUnlocked
