SPECIFICATION Spec
CHECK_DEADLOCK FALSE
CONSTANTS
    Users = {u1, u2, u3}
    MaxAttempts = 2
    Messages = 3
    MaxTries = 2
    Batches = {1, 2}
    Pool = 3
    TxnIds = {t1, t2}
    NoTxn = NoTxn
    NoProducer = NoProducer
    Records = 3
    Rpcs = {rpc1, rpc2}
    MaxSignals = 3
INVARIANT StaleOnlyIfInterrupted
INVARIANT OwnTransaction
 
PROPERTY SendReturns
PROPERTY AtLeastOnce
PROPERTY SignalEndsServer
