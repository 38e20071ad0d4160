SPECIFICATION Spec
CONSTANTS
    u1 = u1
    u2 = u2
    custody = custody
    mine = mine
    Users = {u1, u2}
    Custody = custody
    Mine = mine
    Assets = {1}
    Mids = {7}
    MAX_LOCK_DAYS = 3
    IntMax = 20
    Fees = {0, 1}
    FeeAmounts = {1}
    Intervals = {1}
    Times = {3}
    FirstDays = {0, 1}
    Lockers = {u1}
    Receivers = {u2}
    LockAmounts = {3, 4}
    StrayAmounts = {}
    Named = {}
    MoveCounts = {}
    Windows <- NoWindow
    FirstBlacklist = {}
    MaxPlans = 2
    MaxLocks = 2
    MaxDay = 3
    FirstPass <- FourPasses
    FirstMid <- NoMids
CHECK_DEADLOCK FALSE
INVARIANTS
    TypeOK
    LockSplit
    VestedCoversUnlocked
    PlanSplit
