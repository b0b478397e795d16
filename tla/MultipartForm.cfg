CONSTANTS
    NumParts = 3
    Files = {2, 3}
    Ways <- SafeWays
    MaxHops = 2
SPECIFICATION Spec
INVARIANTS
    TypeOK
    BodyPassedAsIs
    WholeFormOrNone
