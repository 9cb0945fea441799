SPECIFICATION Spec
CONSTANTS
    Ktss <- KtssAddress
    KernelStackPa <- StackAddress
    Lines = {0, 8}
    ClientLines = {0, 2, 8}
    Faults = {13, 17}
    Traps = {3, 128}
    UserTraps = {32, 128}
    UserPort = 33
    TickRange = 2
    MaxNest = 3
INVARIANTS InterruptsInv IrqsDoNotNest TicksMatchRequests StackBalanced NeverResets
PROPERTIES AckReleasesOwnLine UserConfined
