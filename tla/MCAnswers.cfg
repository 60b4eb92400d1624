SPECIFICATION Spec
CONSTANTS
    Conns = {1}
    Accounts = {1}
    MaxDay = 2
    StaleAfter = 0
    WarnDays = 0
    MaxWrites = 4
INVARIANTS StandingProblemIsNamed NothingIsInvented FrozenBalanceIsTold EmptyAnswerIsExplained
CHECK_DEADLOCK FALSE
