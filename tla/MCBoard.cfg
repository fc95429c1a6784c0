CONSTANTS
    Words = {0, 205}
    Replies = {205}
SPECIFICATION FairSpec
INVARIANTS TypeOK EveryPressSends
PROPERTIES PressActsOnce DisplaySpec ButtonsFollow AllDigitsShown
