SPECIFICATION Spec
CONSTANT MaxTokens = 6
INVARIANT ReadsLongestCommand
CHECK_DEADLOCK FALSE
