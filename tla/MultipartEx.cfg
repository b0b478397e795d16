CONSTANTS
    NumParts = 3
    Files = {2, 3}
    Ways <- ExWithoutRetries
    MaxHops = 2
SPECIFICATION Spec
INVARIANT BodyPassedAsIs
