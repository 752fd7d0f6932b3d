SPECIFICATION KmipSpec
CHECK_DEADLOCK FALSE
CONSTANTS
    Callers = {k1, k2}
    Connections = {x1, x2}
    NoConnection = NoConnection
PROPERTY AcquireReturns
