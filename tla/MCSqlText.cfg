SPECIFICATION Spec
CONSTANT MaxLen = 6
INVARIANTS
    SplitsAtTopLevel
    OneStatementPerCall
    RedisTokensAreRuns
CHECK_DEADLOCK FALSE
