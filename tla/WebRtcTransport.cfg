\* Two tuples and one ICE restart.  An aborted worker stops: no deadlock check.
CONSTANTS
    Tuple = {t1, t2}
    MaxTimeouts = 2
    MaxRestarts = 1
SPECIFICATION Spec
CHECK_DEADLOCK FALSE
INVARIANTS StateMatchesTuples RunsInItsRole ConnectionVerified EveryoneKnows
PROPERTIES CredentialsInOrder DisconnectionReported
