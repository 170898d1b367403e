\* All runs made is the end of the behaviour.
SPECIFICATION ScoringSpec
CHECK_DEADLOCK FALSE
CONSTANTS
    N = 2
    Repeats = 3
    Runs <- MCRuns
    Budgets <- MCBudgets
INVARIANTS ExcludedRowsDoNotCount
