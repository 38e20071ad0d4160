SPECIFICATION Spec_one
CONSTANTS
    u1 = u1
    u2 = u2
    nobody = nobody
    Users = {u1, u2}
    Nobody = nobody
    Symbols <- SomeSymbols
    Uris = {"a", "b"}
    NewUris = {"a"}
    MaxSupplies = {2}
    Amounts = {2}
    Batches <- Loads
    Makers = {u1}
    Notaries = {u2}
    IpOwners = {nobody}
    MaxId = 2
    Locks <- OneWindow
    Permits <- OnWhole
    MaxDay = 3
    DidHolders = {u1}
    Owners = {u1}
    Pids = {0}
    Allowances = {2}
    Holders = {u1, u2}
    Blacklisted = {}
    Tokens <- Coins
    Supplies = {20}
    Sums = {10}
    YEAR = 1
    LastDay = 2
CHECK_DEADLOCK FALSE
INVARIANTS
    TypesOK
    SuppliesHeld
    HoldersCanSend
    AllowancesAddUp
PROPERTIES
    ImplementsLedgers
    OnlyIdleBurn
    LockedStay
