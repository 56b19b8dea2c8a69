SPECIFICATION Spec
CONSTANTS
    Tasks = {t1, t2}
    Players = {"ann", "bob"}
    Bank = "bank"
    Asks <- Names
    Ips = {"ip1", "ip2", "ip3"}
    StartCash <- Funds
    MaxAsks = 2
    MaxFailures = 0
INVARIANT DomainsArePaidFor
CHECK_DEADLOCK FALSE
