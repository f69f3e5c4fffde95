CONSTANTS
    e1 = e1
    e2 = e2
    e3 = e3
    Ids = {e1, e2, e3}
    Starts <- MCStarts
    Picks <- MCPicks
    MaxDays = 1
    MaxHomes = 1
SPECIFICATION Spec
INVARIANTS
    TableAgrees
    RemindsOfTwoDigitDates
    CalendarOrderWithinMonth
    ColoursOfTwoDigitDates
