SPECIFICATION Spec
CONSTANTS
    Day = 12
    Zone <- MCZone
    LastTime = 120
INVARIANT
    FreshWindowIsCovered
