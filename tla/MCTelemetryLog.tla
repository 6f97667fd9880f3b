---- MODULE MCTelemetryLog ----
EXTENDS TelemetryLog, TLC

CONSTANTS d1, d2, batch, single, other, batch2

\* A batch and a report of one device, a report and a batch of another.
SenderOf == batch :> d1 @@ single :> d1 @@ other :> d2 @@ batch2 :> d2
SizeOf == batch :> 2 @@ single :> 1 @@ other :> 1 @@ batch2 :> 2
====
