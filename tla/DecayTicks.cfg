SPECIFICATION Spec
CONSTANTS
    MaxDenominator = 10
    MaxTicks = 8
    MaxDebt = 8
INVARIANTS
    AgeingIsConservative
    AgeingIsTight
    AgeingNeverCharges
PROPERTIES
    LongerSleepNeverCostsMore
CHECK_DEADLOCK FALSE
