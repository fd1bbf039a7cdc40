CONSTANTS
    NumClients = 2
    MaxConcurrentETHCalls = 1
    caller1 = caller1
    caller2 = caller2
    Callers = {caller1, caller2}
    Method <- Calls
    MaxHeight = 1
    MaxCalls = 2
    MaxFaults = 1
SPECIFICATION ClientSpec
INVARIANTS
    GetClientFinds
PROPERTIES
    CallsFinish
    HealthRecovers
CHECK_DEADLOCK FALSE
