SPECIFICATION FairSpec
CONSTANTS
    u1 = u1
    u2 = u2
    custody = custody
    mine = mine
    Users = {u1, u2}
    Custody = custody
    Mine = mine
    Assets = {1}
    Mids = {7}
    MAX_LOCK_DAYS = 3
    IntMax = 100
    Fees = {0}
    FeeAmounts = {}
    Intervals = {1}
    Times = {2}
    FirstDays = {0}
    Lockers = {u1}
    Receivers = {u1, u2}
    LockAmounts = {3}
    StrayAmounts = {2}
    Named = {u2}
    MoveCounts = {1, 2}
    Windows <- OneWindow
    FirstBlacklist = {}
    MaxPlans = 1
    MaxLocks = 3
    MaxDay = 2
    FirstPass <- ThreePasses
    FirstMid <- TwoMids
CHECK_DEADLOCK FALSE
INVARIANTS
    PlanTotalsMatchLocks
    CustodyHolds
PROPERTIES
    ImplementsEscrow
    LocksRunOut
