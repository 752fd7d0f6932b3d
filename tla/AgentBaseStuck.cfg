SPECIFICATION Spec
CONSTANTS
    Callers = {c1}
    Tasks = {t1, t2}
    NoTask = NoTask
    Failures = {"publish"}
PROPERTY StoppingTerminates
