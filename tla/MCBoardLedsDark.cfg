CONSTANTS
    Words = {0, 205}
    Replies = {205}
SPECIFICATION FairSpec
INVARIANTS LedsDarkAtRest
