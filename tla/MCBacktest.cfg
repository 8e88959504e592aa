SPECIFICATION Spec
CONSTANTS
    Prices = {50, 90, 100, 110}
    NaN = NaN
    Capital = 100
    SizeDivisor = 1
    MaxPositions = 3
    TakeProfit = 500
    StopLoss = 200
    Oversold = 55
    MinDrop = 2
    RsiPeriod = 2
    Frames = 2
    History = 4
    MaxTickers = 2
    MaxBars = 5
INVARIANTS
    Accounted
    NeverBorrows
    HeldInBand
    CurveEndsInResult
CHECK_DEADLOCK FALSE
