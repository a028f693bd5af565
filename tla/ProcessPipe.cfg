\* Two streams against a pipe of two units, output of up to four: every call
\* from "prints nothing" to "twice the pipe" on either stream.
SPECIFICATION Spec
CONSTANTS
    Capacity = 2
    MaxSize = 4
INVARIANTS
    AnswerIsAllThatWasPrinted
    OversizedCallNeverReturns
PROPERTIES
    ImplementsProcessCall
\* A call with oversized output hangs, and a call that has returned stops.
CHECK_DEADLOCK FALSE
