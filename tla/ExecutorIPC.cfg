\* Two calls of a project, a crash of either half, starts of the executor.  Calls that are
\* over make no step.
SPECIFICATION Spec
CONSTANTS
    a = a
    b = b
    Calls <- TwoCalls
    MaxCrashes = 1
    ExecBash = TRUE
    Worlds <- OneFault
    MaxChanges = 1
INVARIANTS TypeOK GoneClientKilled NoOrphan OneAgent NoFakeGreen
PROPERTIES ServesOnlySound RefusesOnlyUnsound
CHECK_DEADLOCK FALSE
