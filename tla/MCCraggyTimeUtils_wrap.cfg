CONSTANTS
    Word = 1024
    DayUnit = 32
    JulianDaysUntilEpoch = 20
    SecondsInADay = 3
    MicrosecondsInSecond = 4
    RoundTrips <- MCRoundTrips
SPECIFICATION Spec
INVARIANT ConversionExactOrRejected
