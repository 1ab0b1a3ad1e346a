\* Pixels in a zone become a source of their own: where their light goes.
SPECIFICATION Spec
CONSTANTS
    Jobs <- Zoned
    LumSource = 0
    Limit = 2
    Zone1 = 1
    Zone2 = 4
    MaxSources = 20
    MaxImages = 1
INVARIANT ZonesMoveDirect
