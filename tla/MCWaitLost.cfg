SPECIFICATION WCFairSpec
CONSTANTS
    Waiters = {t1, t2}
    Wakers = {w1}
    Existing = TRUE
PROPERTY
    WakesAll
