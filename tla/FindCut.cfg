SPECIFICATION Spec
CONSTANTS
    Sizes <- Lengths
    Numbers <- Written
    MaxInt = 6
    Caches = {FALSE}
    MaxBlock = 2
    MaxFaults = 0
INVARIANT StreamsWhole
