\* The handler really waits for ever when the signal has interrupted a key.
SPECIFICATION FairSpec
CONSTANTS
    MaxFd = 10
    LedPin = 8
    OtherPins <- MCOtherPins
    MaxRetries = 3
    MaxTemps = 2
INVARIANTS
    DevicesInHand
    PinHarmBounded
PROPERTIES
    ShutdownEnds
CHECK_DEADLOCK FALSE
