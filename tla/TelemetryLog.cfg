\* Two batches and two single reports; a write fails and the process is killed twice; the hub stops where it cannot start again.
SPECIFICATION Spec
CONSTANTS
    d1 = d1
    d2 = d2
    batch = batch
    single = single
    other = other
    batch2 = batch2
    Requests = {batch, single, other, batch2}
    Devices = {d1, d2}
    DeviceOf <- SenderOf
    Size <- SizeOf
    MaxTelemetry = 3
    Limit = 2
    Damaged = Damaged
    MaxFaults = 1
    MaxCrashes = 2
CHECK_DEADLOCK FALSE
INVARIANTS
    WellFormed
    LossIsBounded
    BatchesInOrder
    ListsComplete
