\* Two lookups and two admins, so that a lookup straddles a write while another
\* write is in flight; the process may restart under another master key.
CONSTANTS
    Names = {n1}
    Readers = {r1, r2}
    Writers = {w1, w2}
    Keys = {k1, k2}
    NoKey = NoKey
    CacheTTL = 1
    MaxWrites = 3
SPECIFICATION Spec
INVARIANTS
    LookupNotStale
    FreshnessInv
PROPERTIES
    StaleEntriesDieOut
