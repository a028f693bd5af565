\* Two tasks in one sandbox, started, failed, interrupted and overlapping in
\* every order; each is run up to twice, with two tries of R per run.
SPECIFICATION Spec
CONSTANTS
    Tasks = {t1, t2}
    Header = Header
    NoTask = NoTask
    MAX_TRIES = 2
    MaxRuns = 2
INVARIANTS
    TypeOK
    SoloRunIsUndisturbed
    SoloSuccessHasItsProducts
    SuccessStopsItsCollectors
\* No task is run more than MaxRuns times: the machine may fall idle.
SYMMETRY AnyOrder
CHECK_DEADLOCK FALSE
