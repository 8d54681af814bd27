SPECIFICATION Spec
CONSTANTS
    caller = caller
    recur = recur
    genInt = genInt
    genStr = genStr
    none = none
    kCaller = kCaller
    kRecur = kRecur
    kGen = kGen
    kNone = kNone
    Thread = {t1, t2}
    Method = {caller, recur, genInt, genStr, none}
    Token = {kCaller, kRecur, kGen, kNone}
    TokenOf <- MCTokenOf
    Sites <- MCSites
    Small = {kRecur, kGen, kNone}
    Bodyless = {kNone}
    Barred = {genStr}
    Kernels = {genStr}
    Options <- MCOptions
    MinInterval = 2
    CountWrap = 8
    MaxFailures = 1
INVARIANTS BodiesInUseAreCached CallersAgree
PROPERTIES RefusalIsRemembered
