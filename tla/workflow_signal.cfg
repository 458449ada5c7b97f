SPECIFICATION WorkflowSpec
CONSTANTS
    Kernels = {k1, k2}
    Steps = {s1}
    MaxSignals = 1
    MaxCalls = 1
INVARIANTS DeliveredOnce
CHECK_DEADLOCK FALSE
