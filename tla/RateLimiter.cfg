\* Three logins race for one address; two failures lock it.
CONSTANTS
    Attempts = {a1, a2, a3}
    IPs = {ip1, ip2}
    NoIP = NoIP
    maxFails = 2
    lockWindow = 2
SPECIFICATION LimiterFairSpec
INVARIANTS FailsBounded LimiterInv
PROPERTY LockEnds
