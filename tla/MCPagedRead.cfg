SPECIFICATION Spec
CONSTANTS
    Ids = {1, 2, 3}
    Days = {1, 2}
    Today = 1
    Accounts = {1}
    Kinds = {1}
    Requests <- MCRequests
    Limits = {1}
    MaxRows = 2
    MaxWrites = 2
INVARIANTS SteadyRowReadOnce PagesAreOneAnswer WindowHoldsTheRows
CHECK_DEADLOCK FALSE
