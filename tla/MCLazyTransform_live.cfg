SPECIFICATION Spec
CONSTANTS
    caller = caller
    recur = recur
    genInt = genInt
    genStr = genStr
    none = none
    kCaller = kCaller
    kRecur = kRecur
    kGen = kGen
    kNone = kNone
    Thread = {t1, t2}
    Method = {caller, recur, none}
    Token = {kCaller, kRecur, kNone}
    TokenOf <- FewTokenOf
    Sites <- FewSites
    Small = {kRecur}
    Bodyless = {}
    Barred = {}
    Kernels = {}
    Options <- MCOptions
    MinInterval = 2
    CountWrap = 4
    MaxFailures = 1
PROPERTIES RequestsEnd
