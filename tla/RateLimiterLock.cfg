\* Two failures lock; the second one comes late in the window of the first.
CONSTANTS
    Attempts = {a1}
    IPs = {ip1}
    NoIP = NoIP
    maxFails = 2
    lockWindow = 3
SPECIFICATION LimiterSpec
PROPERTY LockedForWholeWindow
