CONSTANTS
    Words = {0}
    Replies = {0}
    Numbers = {0, 5205}
    Points = {0}
SPECIFICATION PanelSpec
INVARIANTS PanelTypeOK BlinkConsistent RestsReadable
