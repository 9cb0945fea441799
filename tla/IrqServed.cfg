SPECIFICATION FairDriver
CONSTANTS
    Ktss <- KtssAddress
    KernelStackPa <- StackAddress
    Lines = {0, 3, 8, 9}
    ClientLines = {0, 2, 3, 8, 9}
    Faults = {}
    Traps = {128}
    UserTraps = {32, 128}
    UserPort = 33
    TickRange = 2
    MaxNest = 2
PROPERTIES EnabledIrqServed
