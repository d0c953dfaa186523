SPECIFICATION BusySendSpec
CONSTANTS
    WindowSize = 2
    FailureThresholdPct = 50
    OpenDuration = 1
    HalfOpenMaxProbes = 1
    Callers = {c1, c2}
    MaxRetries = 1
    Replies = {"success", "retryable"}
    Features = {"network", "cancel"}
PROPERTIES HalfOpenResolves
