SPECIFICATION Spec
CONSTANTS
    Callers = {c1, c2}
    Tasks = {t1, t2, t3}
    NoTask = NoTask
    Failures = {"deps", "publish", "unsubscribe"}
INVARIANT TerminatedQuiesced
INVARIANT OneHeartbeat
INVARIANT JoinsCancelledTask
PROPERTY StopReturns
