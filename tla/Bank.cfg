\* Two players: a name bought twice over, what is under it and an address, a first
\* log-in, and transfers that cross.
SPECIFICATION FairSpec
CONSTANTS
    Tasks = {t1, t2}
    Players = {"ann", "bob"}
    Bank = "bank"
    Asks <- Trade
    Ips = {"ip1", "ip2", "ip3"}
    StartCash <- Funds
    MaxAsks = 3
    MaxFailures = 1
INVARIANTS LedgerAgrees OverdraftBounded TablesAreSound
PROPERTIES RequestsAreAnswered
CHECK_DEADLOCK FALSE
