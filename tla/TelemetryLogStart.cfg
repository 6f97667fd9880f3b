\* One write fails, then the process is killed.
SPECIFICATION Spec
CONSTANTS
    d1 = d1
    d2 = d2
    batch = batch
    single = single
    other = other
    batch2 = batch2
    Requests = {batch, other}
    Devices = {d1, d2}
    DeviceOf <- SenderOf
    Size <- SizeOf
    MaxTelemetry = 3
    Limit = 2
    Damaged = Damaged
    MaxFaults = 1
    MaxCrashes = 1
CHECK_DEADLOCK FALSE
INVARIANTS
    StartReadsLog
