--------------------------- MODULE LazyTransform ---------------------------
(***************************************************************************)
(* The lazy transform of interpreted methods.  Every caller of an          *)
(* interpreted method reads method->interpData without a lock; a caller    *)
(* that finds it null takes g_MetadataLock, looks again, and transforms    *)
(* the method's IL (InterpreterModule::GetInterpMethodInfo).  A transform  *)
(* inlines small callees by transforming their bodies in nested contexts,  *)
(* each holding a reference into the method-body cache, which evicts       *)
(* bodies when a transform ends.                                           *)
(*                                                                         *)
(* Everything between taking and releasing the lock runs on one thread;    *)
(* what other threads do meanwhile is read interpData and set options.     *)
(***************************************************************************)
EXTENDS Naturals, Sequences, FiniteSets

CONSTANTS
    Thread,
    Method,         \* interpreted methods, generic instantiations included
    Token,          \* metadata tokens: the keys of the body cache
    TokenOf,        \* the token of a method; instantiations share one
    Sites,          \* the interpreted callees of a method, in IL order
    Small,          \* tokens whose body is short, branchless and has no clauses
    Bodyless,       \* tokens whose method body is null
    Barred,         \* methods the inline barriers refuse by name or signature
    Kernels,        \* methods whose whole body matches a built-in loop
    Options,        \* the <<MaxMethodBodyCacheSize, MaxMethodInlineDepth>> a host sets
    MinInterval,    \* kMinShrinkMethodBodyCacheInterval
    CountWrap,      \* 2^16, the modulus of the uint16_t accessCount
    MaxFailures     \* bound: how many transforms and inlinings may raise

ASSUME ProgramAssumption ==
    /\ TokenOf \in [Method -> Token]
    /\ Sites \in [Method -> Seq(Method)]
    /\ Small \subseteq Token /\ Bodyless \subseteq Token
    /\ Barred \subseteq Method /\ Kernels \subseteq Method
ASSUME SizeAssumption ==
    /\ Options \subseteq Nat \X Nat
    /\ MinInterval \in Nat \ {0}
    /\ CountWrap \in Nat /\ CountWrap > 3   \* a call site touches an entry three times
    /\ MaxFailures \in Nat

VARIABLES
    thread,         \* what each thread is doing: idle, waiting for the lock, ...
    lock,           \* the thread that holds g_MetadataLock, or Free
    contexts,       \* the lock holder's TransformContexts, outermost first
    interpData,     \* the number of the published transform of a method, 0 is null
    built,          \* how many transforms of a method have completed
    cache,          \* s_methodBodyCache: token -> entry
    version,        \* s_methodBodyCacheVersion
    option,         \* the current RuntimeConfig values
    wrapped,        \* history: tokens whose accessCount has wrapped
    refused,        \* history: tokens whose inlining failed in this request
    failures        \* how many transforms and inlinings have raised

lockState == <<lock, contexts>>
methodState == <<interpData, built>>
cacheState == <<cache, wrapped>>
vars == <<thread, lockState, methodState, cacheState, version, option, refused, failures>>

Free == "free"
ASSUME FreeAssumption == Free \notin Thread

Idle == [step |-> "idle"]
Waiting(m) == [step |-> "waiting", method |-> m]
Building(m) == [step |-> "building", method |-> m]
Finishing(m) == [step |-> "finishing", method |-> m]
Running(m, imi) == [step |-> "running", method |-> m, imi |-> imi]

MaxBodies == option[1]
MaxInlineDepth == option[2]
Context(m) == [method |-> m, site |-> 1]

-----------------------------------------------------------------------------
(* The method-body cache: operations on a cache value c.                   *)

Entry(c, k) ==
    IF k \in DOMAIN c THEN c[k] ELSE [accessVersion |-> version, accessCount |-> 0, mode |-> "None"]

Put(c, k, e) == [j \in DOMAIN c \cup {k} |-> IF j = k THEN e ELSE c[j]]

\* MethodBodyCache::GetMethodBody
Touch(c, k) ==
    Put(c, k, [Entry(c, k) EXCEPT !.accessVersion = version,
                                  !.accessCount = (@ + 1) % CountWrap])

SetMode(c, k, mode) == Put(c, k, [Entry(c, k) EXCEPT !.mode = mode])

\* ComputeInlinable, with the touch of its own
Verdict(k) == IF k \in Small \ Bodyless THEN "Inlineable" ELSE "NotInlineable"

\* MethodBodyCache::IsInlineable leaves the verdict in the entry
Judge(c, k) ==
    IF Entry(c, k).mode # "None" THEN Touch(c, k)
    ELSE SetMode(Touch(Touch(c, k), k), k, Verdict(k))

\* shrinkMethodBodyCacheInterval
Interval == IF MaxBodies \div 2 > MinInterval THEN MaxBodies \div 2 ELSE MinInterval

\* mutant: the expired version is not put back by an interval
Expired_NoGrace(e, now) == e.accessVersion + (e.accessCount * Interval) < now + Interval

\* accessVersion + (accessCount - 1) * interval < now - interval
Expired(e, now) == e.accessVersion + (e.accessCount * Interval) < now

\* EnableShrinkMethodBodyCache(true) once the version has become now
Shrink(c, now) ==
    IF now % Interval = 0 /\ Cardinality(DOMAIN c) > MaxBodies
    THEN [k \in {k \in DOMAIN c : ~ Expired(c[k], now)} |-> c[k]]
    ELSE c

\* The tokens whose count wraps when the cache changes from c to d.
Wraps(c, d) == {k \in DOMAIN d : d[k].accessCount < Entry(c, k).accessCount}

CacheBecomes(d) ==
    /\ cache' = d
    /\ wrapped' = wrapped \cup Wraps(cache, d)

-----------------------------------------------------------------------------
Init ==
    /\ thread = [t \in Thread |-> Idle]
    /\ lock = Free
    /\ contexts = <<>>
    /\ interpData = [m \in Method |-> 0]
    /\ built = [m \in Method |-> 0]
    /\ cache = <<>>
    /\ version = 0
    /\ option \in Options
    /\ wrapped = {}
    /\ refused = {}
    /\ failures = 0

\* The unlocked test of interpData at a call, or by PreJitMethod0.
Lookup(t, m) ==
    /\ thread[t].step = "idle"
    /\ thread' = [thread EXCEPT ![t] = IF interpData[m] # 0 THEN Running(m, interpData[m])
                                                          ELSE Waiting(m)]
    /\ UNCHANGED <<lockState, methodState, cacheState, version, option, refused, failures>>

\* The called method returns; threads run methods concurrently.
Return(t) ==
    /\ thread[t].step = "running"
    /\ thread' = [thread EXCEPT ![t] = Idle]
    /\ UNCHANGED <<lockState, methodState, cacheState, version, option, refused, failures>>

\* A host script may change the options at any time, under no lock.
SetRuntimeOption ==
    /\ option' \in Options
    /\ option' # option
    /\ UNCHANGED <<thread, lockState, methodState, cacheState, version, refused, failures>>

\* mutant: no second test under the lock
MustTransform_Always(m) == m \in Method

\* The second test, under the lock, finds another thread's transform.
MustTransform(m) == interpData[m] = 0

AcquireFindsBuilt(t) ==
    /\ thread[t].step = "waiting"
    /\ lock = Free
    /\ LET m == thread[t].method IN
       /\ ~ MustTransform(m)
       /\ thread' = [thread EXCEPT ![t] = Running(m, interpData[m])]
    /\ UNCHANGED <<lockState, methodState, cacheState, version, option, refused, failures>>

\* Class::Init of the declaring class raises: the lock is released on the way out.
AcquireClassInitRaises(t) ==
    /\ thread[t].step = "waiting"
    /\ lock = Free
    /\ MustTransform(thread[t].method)
    /\ thread' = [thread EXCEPT ![t] = Idle]
    /\ UNCHANGED <<lockState, methodState, cacheState, version, option, refused, failures>>

\* An exception while a body is transformed: an instruction, a token or a
\* generic instantiation that cannot be resolved, or no body at all.
Fails ==
    /\ failures < MaxFailures
    /\ failures' = failures + 1

\* HiTransform::Transform up to the construction of the outermost context;
\* a null body raises after the cache has been touched.
AcquireBegins(t) ==
    /\ thread[t].step = "waiting"
    /\ lock = Free
    /\ LET m == thread[t].method IN
       /\ MustTransform(m)
       /\ CacheBecomes(Touch(cache, TokenOf[m]))
       /\ IF TokenOf[m] \in Bodyless
          THEN /\ Fails
               /\ thread' = [thread EXCEPT ![t] = Idle]
               /\ UNCHANGED lockState
          ELSE /\ thread' = [thread EXCEPT ![t] = Building(m)]
               /\ lock' = t
               /\ contexts' = <<Context(m)>>
               /\ UNCHANGED failures
    /\ refused' = {}
    /\ UNCHANGED <<methodState, version, option>>

-----------------------------------------------------------------------------
(* The transform itself: the innermost context walks its call sites.       *)

Depth == Len(contexts) - 1
Inner == contexts[Len(contexts)]

\* A whole-method kernel is matched before the walk, in the outermost context only.
WalkEnds == Inner.site > Len(Sites[Inner.method]) \/ (Depth = 0 /\ Inner.method \in Kernels)

\* The walk of a stack of contexts goes on after the innermost one's current site.
PastSite(s) == [s EXCEPT ![Len(s)].site = @ + 1]

\* mutant: the caller's call site is not passed
BackToCaller_Again == SubSeq(contexts, 1, Len(contexts) - 1)

\* The context that inlined the innermost one emits an ordinary call instead,
\* or has the inlined instructions: either way it goes on with its next site.
BackToCaller == PastSite(SubSeq(contexts, 1, Len(contexts) - 1))

\* ShouldBeInlined stops at the depth limit and the barriers before it asks the cache.
Considered(c) == Depth < MaxInlineDepth /\ c \notin Barred

\* A call site that is not inlined.
EmitCall(t) ==
    /\ thread[t].step = "building"
    /\ ~ WalkEnds
    /\ LET c == Sites[Inner.method][Inner.site]
           judged == Judge(cache, TokenOf[c]) IN
       \/ /\ ~ Considered(c)
          /\ UNCHANGED cacheState
       \/ /\ Considered(c)
          /\ judged[TokenOf[c]].mode = "NotInlineable"
          /\ CacheBecomes(judged)
    /\ contexts' = PastSite(contexts)
    /\ UNCHANGED <<thread, lock, methodState, version, option, refused, failures>>

\* TransformSubMethodBody fetches the body once more and opens a nested context.
EnterInline(t) ==
    /\ thread[t].step = "building"
    /\ ~ WalkEnds
    /\ LET c == Sites[Inner.method][Inner.site]
           judged == Judge(cache, TokenOf[c]) IN
       /\ Considered(c)
       /\ judged[TokenOf[c]].mode = "Inlineable"
       /\ CacheBecomes(Touch(judged, TokenOf[c]))
       /\ contexts' = Append(contexts, Context(c))
    /\ UNCHANGED <<thread, lock, methodState, version, option, refused, failures>>

\* The end of an inlined body: its instructions are appended to the caller's block.
InlineDone(t) ==
    /\ thread[t].step = "building"
    /\ WalkEnds /\ Depth > 0
    /\ contexts' = BackToCaller
    /\ UNCHANGED <<thread, lock, methodState, cacheState, version, option, refused, failures>>

\* mutant: the entry is reset instead of barred
DisableInline_Reset == SetMode(cache, TokenOf[Inner.method], "None")

\* The cache after an inlined body raised: MethodBodyCache::DisableInline.
DisableInline == SetMode(cache, TokenOf[Inner.method], "NotInlineable")

\* The catch in TransformSubMethodBody: the body could not be transformed inside this caller.
InlineRaises(t) ==
    /\ thread[t].step = "building"
    /\ Fails
    /\ Depth > 0
    /\ cache' = DisableInline
    /\ contexts' = BackToCaller
    /\ refused' = refused \cup {TokenOf[Inner.method]}
    /\ UNCHANGED <<thread, lock, methodState, wrapped, version, option>>

\* The outermost body cannot be transformed: the exception leaves
\* GetInterpMethodInfo, which releases the lock and publishes nothing.
TransformRaises(t) ==
    /\ thread[t].step = "building"
    /\ Fails
    /\ Depth = 0
    /\ thread' = [thread EXCEPT ![t] = Idle]
    /\ lock' = Free
    /\ contexts' = <<>>
    /\ UNCHANGED <<methodState, cacheState, version, option, refused>>

\* EnableShrinkMethodBodyCache(true); the outermost context is still alive.
TransformDone(t) ==
    /\ thread[t].step = "building"
    /\ WalkEnds /\ Depth = 0
    /\ version' = version + 1
    /\ cache' = Shrink(cache, version + 1)
    /\ thread' = [thread EXCEPT ![t] = Finishing(thread[t].method)]
    /\ built' = [built EXCEPT ![thread[t].method] = @ + 1]
    /\ UNCHANGED <<lockState, interpData, wrapped, option, refused, failures>>

\* The context is destroyed, the barrier passed, the result published, the lock released.
Publish(t) ==
    /\ thread[t].step = "finishing"
    /\ LET m == thread[t].method IN
       /\ interpData' = [interpData EXCEPT ![m] = built[m]]
       /\ thread' = [thread EXCEPT ![t] = Running(m, built[m])]
    /\ lock' = Free
    /\ contexts' = <<>>
    /\ UNCHANGED <<built, cacheState, version, option, refused, failures>>

Acquire(t) == AcquireFindsBuilt(t) \/ AcquireClassInitRaises(t) \/ AcquireBegins(t)

Transform(t) ==
    \/ EmitCall(t) \/ EnterInline(t) \/ InlineDone(t) \/ InlineRaises(t)
    \/ TransformRaises(t) \/ TransformDone(t) \/ Publish(t)

Next ==
    \/ \E t \in Thread :
        \/ \E m \in Method : Lookup(t, m)
        \/ Return(t)
        \/ Acquire(t)
        \/ Transform(t)
    \/ SetRuntimeOption

\* A running thread takes its steps, and the mutex lets every waiter in
\* sooner or later although others keep taking it.
Fairness == \A t \in Thread : WF_vars(Transform(t)) /\ SF_vars(Acquire(t))

Spec == Init /\ [][Next]_vars /\ Fairness

-----------------------------------------------------------------------------
EntryType == [accessVersion : Nat, accessCount : 0 .. CountWrap - 1,
              mode : {"None", "Inlineable", "NotInlineable"}]

\* The variables hold values of their types, and only the lock's holder transforms.
TypeOK ==
    /\ thread \in [Thread -> {Idle}
            \cup [step : {"waiting", "building", "finishing"}, method : Method]
            \cup [step : {"running"}, method : Method, imi : Nat]]
    /\ lock \in Thread \cup {Free}
    /\ \A t \in Thread : thread[t].step \in {"building", "finishing"} <=> lock = t
    /\ contexts \in Seq([method : Method, site : Nat \ {0}])
    /\ contexts = <<>> <=> lock = Free
    /\ interpData \in [Method -> Nat] /\ built \in [Method -> Nat]
    /\ DOMAIN cache \subseteq Token /\ \A k \in DOMAIN cache : cache[k] \in EntryType
    /\ version \in Nat /\ option \in Options
    /\ wrapped \subseteq Token /\ refused \subseteq Token
    /\ failures \in 0 .. MaxFailures

\* No body is freed under a transform: the body every live TransformContext
\* refers to is still in the cache, unless its use count has overflowed.
BodiesInUseAreCached ==
    \A i \in 1 .. Len(contexts) :
        TokenOf[contexts[i].method] \in DOMAIN cache \cup wrapped

\* All callers of a method run one and the same transform of it: the imi a
\* thread has read stays the published one while it runs, however lookups,
\* second lookups and publications interleave, and the state stays well-typed.
CallersAgree ==
    /\ TypeOK
    /\ \A t \in Thread :
          thread[t].step = "running" => thread[t].imi = interpData[thread[t].method]

\* A body whose inlining raised is not tried again while the request lasts,
\* at no depth and at no other call site, so a failing callee costs one attempt.
RefusalIsRemembered ==
    [][contexts # <<>> /\ Len(contexts') > Len(contexts) =>
          TokenOf[contexts'[Len(contexts')].method] \notin refused]_vars

\* Every request for a method's transform ends, with the transform or with an
\* exception: inlining terminates on recursive callees, and no exception
\* leaves the lock behind.
RequestsEnd ==
    \A t \in Thread :
        thread[t].step \in {"waiting", "building", "finishing"}
            ~> thread[t].step \in {"idle", "running"}
=============================================================================
