SPECIFICATION ResolveSpec
CONSTANT N = 4
INVARIANTS BaselineIsBehind NothingNewIsSkipped
CHECK_DEADLOCK FALSE
