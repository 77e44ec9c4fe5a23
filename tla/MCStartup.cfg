SPECIFICATION Spec
CONSTANT MaxFailures = 2
INVARIANTS
    FeedsAfterLogs
    FilesKept
PROPERTIES
    EndsOnceLogsSettle
    NoProviderLeft
    AllEndWell
CHECK_DEADLOCK FALSE
