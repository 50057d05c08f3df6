SPECIFICATION Spec
CONSTANT MaxTokens = 6
INVARIANT OnlyDocumentedAccepted
CHECK_DEADLOCK FALSE
