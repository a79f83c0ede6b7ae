SPECIFICATION Spec
CONSTANTS
    Callers = {c1, c2}
    Procs <- MCProcs
    Calls <- MCCalls
    Results <- MCResults
    Statuses <- MCStatuses
    MaxXid = 2
INVARIANTS
    TypeOK
    MethodGetsArguments
    MessageConsumed
    AnswerIsOwn
    OnlyWrongResultAborts
    ContainersReadBack
CHECK_DEADLOCK FALSE
