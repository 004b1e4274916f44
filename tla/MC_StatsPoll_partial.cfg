CONSTANTS
    Entries <- MC_Entries
    MaxCalls = 2
    Polls = 3
    NoReport = NoReport
SPECIFICATION Spec
INVARIANT ReturnedReportComplete
CHECK_DEADLOCK FALSE
