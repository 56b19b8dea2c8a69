\* Five requests about accounts, four about a file, or five events about mail.
SPECIFICATION Spec
SYMMETRY SameConsoles
CONSTANTS
    Tasks = {t1, t2}
    SignUps <- MCSignUps
    Forgetful <- MCForgetful
    NewPasswords = {"new"}
    MaxRequests = 5
    MaxLost = 1
    Callers = {c1, c2}
    Owner = "ann"
    Guests = {"eve", "fay"}
    Changes <- MCChanges
    MaxChanges = 4
    MaxDropped = 1
    Consoles = {k1, k2}
    Me = "me"
    Known = {"me", "bob"}
    Mine = {"m1", "m2"}
    Theirs = {"o1"}
    Scripted = {"s1"}
    To <- MCTo
    MaxEvents = 5
INVARIANTS AccountsAreWhole CodesAreSpent LinesAreSigned NoMailIsMissed
PROPERTIES LateWritesFindTheirFile ReadStaysRead DraftsGoWhenDelivered
CHECK_DEADLOCK FALSE
