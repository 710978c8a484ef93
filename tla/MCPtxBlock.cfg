SPECIFICATION LaunchSpec
CONSTANTS
    Shapes <- TwoThreads
    Bodies <- ThreeLong
    Cells = 2
    Modulus = 8
    Bits <- BitByBit
INVARIANTS OneScheduleIsEnough WitnessesReplay
CHECK_DEADLOCK FALSE
