SPECIFICATION Spec
CONSTANTS
  m1 = m1
  m2 = m2
  m3 = m3
  m4 = m4
  Rows = 8
  Indices = 16
  Step <- MCStep
  Lengths <- MCLengths
  Callers = {t1, t2}
  Methods = {m1, m2, m3, m4}
  Conventions = {"cdecl", "std"}
  Shape <- MCShape
  Stubs <- MCStubs
INVARIANTS RefusedOnlyWhenFull WrappersServeTheirMethod OneWrapperPerMethod TurnedDownOnlyWhenUsedUp
PROPERTY EncodedIndicesAreRecovered
CHECK_DEADLOCK FALSE
