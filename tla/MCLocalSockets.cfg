SPECIFICATION MCSpec
CONSTANTS
    MaxWritten = 3
    MaxRead = 2
    Settings = {"noDelay", "timeout"}
    Preface = 3
    MaxBytes = 5
    PageCalls = {"c1", "c2"}
INVARIANT NothingLeftOpen
PROPERTY ImplementsPipe
PROPERTY WritesAnswered
PROPERTY HandedWhole
PROPERTY GivesWay
CHECK_DEADLOCK FALSE
