SPECIFICATION Spec
CONSTANTS
    ShortBits = 4
    LongBits = 8
    WideBits = 12
    MaxExponent = 5
    DateTexts = {}
    ByteBits = 3
    CyBits = 15
    SingleBits = 5
    DoubleBits = 12
    CyScale = 10
    SingleMax = 62
    DateMin <- MCDateMin
    DateMax = 60
    SinglePrecision = 2
    DoublePrecision = 3
    Lcid = 1033
    MaxDepth = 5
    AbortPollSteps = 3
    HostGlobals <- MCHostGlobals
    Programs <- MCPrograms
    TextOf <- MCTextOf
    Equivalents <- MCEquivalents
    Budgets = {0, 1, 2, 5, 9, 14, 20, 30}
    Stops = {1, 2, 3, 4, 5, 6, 7, 8, 9, 10, 11, 12, 13, 14, 15, 16, 17, 18, 19, 20}
    Texts <- MCTexts
    Expressions <- MCExpressions
    Operands <- MCOperands
    Reals <- MCReals
    UnitTexts <- MCUnitTexts
    Moments <- MCMoments
    Shifts <- MCShifts
PROPERTIES TextsAreReadByLines WhatIsWrittenIsRead OperatorsAreExact TextsComeBack DatesAddUp UnitsLeaveNoTrace StopIsAPrefix EquivalentsAgree
