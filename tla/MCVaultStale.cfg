\* DESIGN.md's claim for Invalidate: one lookup and one admin are enough.
CONSTANTS
    Names = {n1}
    Readers = {r1}
    Writers = {w1}
    Keys = {k1}
    NoKey = NoKey
    CacheTTL = 1
    MaxWrites = 2
SPECIFICATION Spec
INVARIANT NoOldValueAfterWrite
