SPECIFICATION Spec
CONSTANTS
    u1 = u1
    u2 = u2
    swap = swap
    Users = {u1, u2}
    Swap = swap
    Owners = {u1}
    Nfts <- Zoo
    Quotes <- Tickets
    BaseBanks = {"amax.ntoken"}
    Prices = {2}
    Times <- OneDay
    RefuelAmounts = {1}
    SwapAmounts = {2, 3, 4}
    FixAmounts = {1}
    nobody = nobody
    Nobody = nobody
    Admins = {u1}
    Leftovers <- Memories
    MAX_LOWER_BOUND = 2
    batch_swap_max_nfts = 2
    UintMax = 15
    FirstNfts <- FirstZoo
    MaxBooths = 3
    MaxDay = 1
CHECK_DEADLOCK FALSE
INVARIANTS
    TypeOK
    CountersMatchBoxes
    EveryBoxCanBeDrawn
    SwapHolds
PROPERTIES
    ImplementsRaffle
