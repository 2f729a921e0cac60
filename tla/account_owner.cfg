SPECIFICATION MCSpec
CONSTANTS
    founder = founder
    seller = seller
    newcomer = newcomer
    Users = {founder, seller, newcomer}
    Nobody = Nobody
    Role <- MCRole
    First = {founder, seller}
    l1 = l1
    l2 = l2
    Leads = {l1, l2}
    acme = acme
    Accounts = {acme}
    AccountOf <- MCAccountOf
    t1 = t1
    Tasks = {t1}
    Keys = {1, 2, 3}
    Automatic = 0
    Bodies <- MCBodies
    MaxTries = 1
    MaxLosses = 1
    Commands = {c1}
    MaxCalls = 2
    MaxRuns = 2
    MaxStops = 1
CHECK_DEADLOCK FALSE
PROPERTY AccountOwnershipWins
