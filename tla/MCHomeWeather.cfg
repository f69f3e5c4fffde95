CONSTANTS
    none = none
    Missing = none
    Slots = 2
    Lows <- MCLows
    Forecasts <- MCForecasts
    Currents <- MCCurrents
SPECIFICATION Spec
INVARIANTS
    ColumnsAreLastKnown
PROPERTIES
    ForecastIsShown
CHECK_DEADLOCK FALSE
