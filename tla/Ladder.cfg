SPECIFICATION Spec
CONSTANTS
    Slots = 3
    Symbols <- MCSymbols
    Inputs <- MCInputs
    Preset = 1
    MaxPasses = 4
    MaxBranches = 2
    MaxSymbols = 3
INVARIANT ProgramFollowsWires
