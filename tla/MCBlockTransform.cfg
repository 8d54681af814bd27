SPECIFICATION Spec
CONSTANT Programs <- MCPrograms
INVARIANTS InStep SameValues SameProtection
CHECK_DEADLOCK FALSE
