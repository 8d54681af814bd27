-------------------------- MODULE Transform_proofs --------------------------
(***************************************************************************)
(* The transform of a method, in two parts.                                *)
(*                                                                         *)
(* The lazy transform, for any threads, methods, tokens, call sites and    *)
(* options: its state is well-typed, all callers of a method run one       *)
(* transform, the bodies of live contexts stay in the cache, and a failed  *)
(* inlining is not tried again.  It starts with the cache as a value: what *)
(* one touch, a verdict and a fetch after it leave of an entry (Used).     *)
(* The invariants rest on one fact of the lock: only its holder changes    *)
(* the cache, the contexts and the published transforms.                   *)
(*                                                                         *)
(* Superinstruction fusion, for any blocks and any depth of the stack at   *)
(* entry: after every pass the fused block writes what the lowered block   *)
(* writes, leaves the same values and makes the same checks.  See the      *)
(* second part's own comment.                                              *)
(***************************************************************************)
EXTENDS LazyTransform, PeepholeFusion, SequenceTheorems, WellFoundedInduction, TLAPS

-----------------------------------------------------------------------------
(* Cache values                                                            *)

Mode == {"None", "Inlineable", "NotInlineable"}
CacheOK(c) == DOMAIN c \subseteq Token /\ \A k \in DOMAIN c : c[k] \in EntryType

\* d is the cache c after the entry of k was used: the others are as they were,
\* the entry is of this version, its count is zero only if it was not, and a
\* verdict it had it still has.
Used(c, d, k) ==
    /\ CacheOK(d)
    /\ DOMAIN d = DOMAIN c \cup {k}
    /\ \A j \in DOMAIN c \ {k} : d[j] = c[j]
    /\ Entry(d, k).accessVersion = version
    /\ Entry(d, k).accessCount = 0 => Entry(c, k).accessCount > 0
    /\ Entry(c, k).mode # "None" => Entry(d, k).mode = Entry(c, k).mode

\* The use count is a uint16_t.
LEMMA CountWraps ==
  ASSUME NEW n \in 0 .. CountWrap - 1
  PROVE  (n + 1) % CountWrap = IF n + 1 = CountWrap THEN 0 ELSE n + 1
  BY SizeAssumption

\* An entry that is not in the cache is a new one.
LEMMA EntryTyped ==
  ASSUME NEW c, CacheOK(c), version \in Nat, NEW k
  PROVE  Entry(c, k) \in EntryType
<1>1. CASE k \in DOMAIN c
  BY <1>1 DEF CacheOK, Entry
<1>2. CASE k \notin DOMAIN c
  <2>1. 0 \in 0 .. CountWrap - 1
    BY SizeAssumption
  <2> QED  BY <1>2, <2>1 DEF Entry, EntryType
<1> QED  BY <1>1, <1>2

\* Put changes one entry.
LEMMA PutOne ==
  ASSUME NEW c, CacheOK(c), NEW k \in Token, NEW e \in EntryType
  PROVE  /\ CacheOK(Put(c, k, e))
         /\ DOMAIN Put(c, k, e) = DOMAIN c \cup {k}
         /\ \A j \in DOMAIN c \ {k} : Put(c, k, e)[j] = c[j]
         /\ Entry(Put(c, k, e), k) = e
<1>1. DOMAIN Put(c, k, e) = DOMAIN c \cup {k} /\ Put(c, k, e)[k] = e
      /\ \A j \in DOMAIN c \ {k} : Put(c, k, e)[j] = c[j]
  BY DEF Put
<1>2. CacheOK(Put(c, k, e))
  BY <1>1 DEF CacheOK
<1>3. Entry(Put(c, k, e), k) = e
  BY <1>1 DEF Entry
<1> QED  BY <1>1, <1>2, <1>3

\* GetMethodBody: the entry is of this version and used once more.
LEMMA Touched ==
  ASSUME NEW c, CacheOK(c), version \in Nat, NEW k \in Token
  PROVE  /\ CacheOK(Touch(c, k))
         /\ DOMAIN Touch(c, k) = DOMAIN c \cup {k}
         /\ \A j \in DOMAIN c \ {k} : Touch(c, k)[j] = c[j]
         /\ Entry(Touch(c, k), k).accessVersion = version
         /\ Entry(Touch(c, k), k).accessCount = (Entry(c, k).accessCount + 1) % CountWrap
         /\ Entry(Touch(c, k), k).mode = Entry(c, k).mode
<1> DEFINE new == [Entry(c, k) EXCEPT !.accessVersion = version,
                                      !.accessCount = (@ + 1) % CountWrap]
<1>1. Entry(c, k) \in EntryType
  BY EntryTyped
<1>2. (Entry(c, k).accessCount + 1) % CountWrap \in 0 .. CountWrap - 1
  BY <1>1, CountWraps, SizeAssumption DEF EntryType
<1>3. PICK e \in EntryType : e = new
  BY <1>1, <1>2 DEF EntryType
<1>4. Touch(c, k) = Put(c, k, e)
  BY <1>3 DEF Touch
<1>5. e.accessVersion = version /\ e.mode = Entry(c, k).mode
      /\ e.accessCount = (Entry(c, k).accessCount + 1) % CountWrap
  BY <1>1, <1>3 DEF EntryType
<1> HIDE DEF new
<1>6. /\ CacheOK(Put(c, k, e)) /\ DOMAIN Put(c, k, e) = DOMAIN c \cup {k}
      /\ \A j \in DOMAIN c \ {k} : Put(c, k, e)[j] = c[j]
      /\ Entry(Put(c, k, e), k) = e
  BY PutOne
<1> QED  BY <1>4, <1>5, <1>6, Zenon

\* d is the cache c with another verdict on the body of k, and nothing else changed.
Judged(c, d, k, mode) ==
    /\ CacheOK(d)
    /\ DOMAIN d = DOMAIN c \cup {k}
    /\ \A j \in DOMAIN c \ {k} : d[j] = c[j]
    /\ Entry(d, k).accessVersion = Entry(c, k).accessVersion
    /\ Entry(d, k).accessCount = Entry(c, k).accessCount
    /\ Entry(d, k).mode = mode

LEMMA ModeSet ==
  ASSUME NEW c, CacheOK(c), version \in Nat, NEW k \in Token, NEW mode \in Mode
  PROVE  Judged(c, SetMode(c, k, mode), k, mode)
<1> DEFINE new == [Entry(c, k) EXCEPT !.mode = mode]
<1>1. Entry(c, k) \in EntryType
  BY EntryTyped
<1>2. PICK e \in EntryType : e = new
  BY <1>1 DEF EntryType, Mode
<1>3. SetMode(c, k, mode) = Put(c, k, e)
  BY <1>2 DEF SetMode
<1>4. e.accessVersion = Entry(c, k).accessVersion /\ e.mode = mode
      /\ e.accessCount = Entry(c, k).accessCount
  BY <1>1, <1>2 DEF EntryType, Mode
<1>5. /\ CacheOK(Put(c, k, e)) /\ DOMAIN Put(c, k, e) = DOMAIN c \cup {k}
      /\ \A j \in DOMAIN c \ {k} : Put(c, k, e)[j] = c[j]
      /\ Entry(Put(c, k, e), k) = e
  BY PutOne
<1> QED  BY <1>3, <1>4, <1>5, Zenon DEF Judged

\* The count of one to three uses is zero only after it has wrapped.
LEMMA TouchUses ==
  ASSUME NEW c, CacheOK(c), version \in Nat, NEW k \in Token
  PROVE  Used(c, Touch(c, k), k)
<1>1. Entry(c, k).accessCount \in 0 .. CountWrap - 1
  BY EntryTyped DEF EntryType
<1>2. (Entry(c, k).accessCount + 1) % CountWrap = 0 => Entry(c, k).accessCount > 0
  BY <1>1, CountWraps, SizeAssumption
<1> QED  BY <1>2, Touched DEF Used

\* IsInlineable and the fetch of TransformSubMethodBody are uses as well.
LEMMA JudgeUses ==
  ASSUME NEW c, CacheOK(c), version \in Nat, NEW k \in Token
  PROVE  Used(c, Judge(c, k), k) /\ Used(c, Touch(Judge(c, k), k), k)
<1> DEFINE once == Touch(c, k)
           twice == Touch(once, k)
           n == Entry(c, k).accessCount
           W(x) == (x + 1) % CountWrap
<1>1. CacheOK(once) /\ DOMAIN once = DOMAIN c \cup {k}
      /\ (\A j \in DOMAIN c \ {k} : once[j] = c[j])
      /\ Entry(once, k).accessVersion = version /\ Entry(once, k).accessCount = W(n)
      /\ Entry(once, k).mode = Entry(c, k).mode
  BY Touched
<1> HIDE DEF once
<1>2. CacheOK(twice) /\ DOMAIN twice = DOMAIN c \cup {k}
      /\ (\A j \in DOMAIN c \ {k} : twice[j] = c[j])
      /\ Entry(twice, k).accessVersion = version /\ Entry(twice, k).accessCount = W(W(n))
      /\ Entry(twice, k).mode = Entry(c, k).mode
  <2>1. CacheOK(twice) /\ DOMAIN twice = DOMAIN once \cup {k}
    BY <1>1, Touched
  <2>2. \A j \in DOMAIN once \ {k} : twice[j] = once[j]
    BY <1>1, Touched
  <2>3. Entry(twice, k).accessVersion = version
        /\ Entry(twice, k).accessCount = W(Entry(once, k).accessCount)
        /\ Entry(twice, k).mode = Entry(once, k).mode
    BY <1>1, Touched
  <2> HIDE DEF twice, W, n
  <2>4. \A j \in DOMAIN c \ {k} : twice[j] = c[j]
    BY <1>1, <2>2
  <2> QED  BY <1>1, <2>1, <2>3, <2>4
<1> HIDE DEF twice, W, n
<1>3. PICK mode \in Mode : mode = Verdict(k)
  BY DEF Verdict, Mode
<1> DEFINE judged == SetMode(twice, k, mode)
<1>4. CacheOK(judged) /\ DOMAIN judged = DOMAIN c \cup {k}
      /\ (\A j \in DOMAIN c \ {k} : judged[j] = c[j])
      /\ Entry(judged, k).accessVersion = version /\ Entry(judged, k).accessCount = W(W(n))
  <2>1. Judged(twice, judged, k, mode)
    BY <1>2, ModeSet
  <2> HIDE DEF judged
  <2>2. \A j \in DOMAIN c \ {k} : judged[j] = c[j]
    BY <1>2, <2>1 DEF Judged
  <2> QED  BY <1>2, <2>1, <2>2 DEF Judged
<1> HIDE DEF judged
<1>5. Judge(c, k) = IF Entry(c, k).mode # "None" THEN once ELSE judged
  BY <1>3 DEF Judge, once, twice, judged
<1>6. n \in 0 .. CountWrap - 1 /\ CountWrap \in Nat /\ CountWrap > 3
  BY EntryTyped, SizeAssumption DEF EntryType, n
<1>7. W(n) = IF n + 1 = CountWrap THEN 0 ELSE n + 1
  BY <1>6, CountWraps DEF W
<1>8. W(W(n)) = IF W(n) + 1 = CountWrap THEN 0 ELSE W(n) + 1
  <2>1. W(n) \in 0 .. CountWrap - 1
    BY <1>6, <1>7
  <2> QED  BY <2>1, CountWraps DEF W
<1>9. W(W(W(n))) = IF W(W(n)) + 1 = CountWrap THEN 0 ELSE W(W(n)) + 1
  <2>1. W(W(n)) \in 0 .. CountWrap - 1
    BY <1>6, <1>7, <1>8
  <2> DEFINE x == W(W(n))
  <2> HIDE DEF x
  <2>2. (x + 1) % CountWrap = IF x + 1 = CountWrap THEN 0 ELSE x + 1
    BY <2>1, CountWraps DEF x
  <2> QED  BY <2>2 DEF x, W
<1>10. (W(n) = 0 => n > 0) /\ (W(W(n)) = 0 => n > 0) /\ (W(W(W(n))) = 0 => n > 0)
  BY <1>6, <1>7, <1>8, <1>9
<1>11. CASE Entry(c, k).mode # "None"
  <2>1. Judge(c, k) = once
    BY <1>5, <1>11
  <2>2. Touch(once, k) = twice
    BY DEF twice
  <2> QED  BY <1>1, <1>2, <1>10, <1>11, <2>1, <2>2 DEF Used, n
<1>12. CASE Entry(c, k).mode = "None"
  <2>1. Judge(c, k) = judged
    BY <1>5, <1>12
  <2> DEFINE third == Touch(judged, k)
  <2>2. DOMAIN third = DOMAIN judged \cup {k} /\ CacheOK(third)
        /\ (\A j \in DOMAIN judged \ {k} : third[j] = judged[j])
        /\ Entry(third, k).accessVersion = version
        /\ Entry(third, k).accessCount = (Entry(judged, k).accessCount + 1) % CountWrap
    BY <1>4, Touched
  <2>3. Entry(third, k).accessCount = W(W(W(n)))
    BY <1>4, <2>2 DEF W
  <2> HIDE DEF third
  <2>4. Used(c, judged, k)
    BY <1>4, <1>10, <1>12 DEF Used, n
  <2>5. Used(c, third, k)
    BY <1>4, <1>10, <1>12, <2>2, <2>3 DEF Used, n
  <2> QED  BY <2>1, <2>4, <2>5 DEF third
<1> QED  BY <1>11, <1>12

-----------------------------------------------------------------------------
(* The invariant                                                           *)

ThreadState ==
    {Idle} \cup [step : {"waiting", "building", "finishing"}, method : Method]
           \cup [step : {"running"}, method : Method, imi : Nat]
ContextType == [method : Method, site : Nat \ {0}]

Transforming == \E t \in Thread : thread[t].step = "building"

\* A thread runs the published transform of its method, and while one is made
\* none is published.
Agree ==
    \A t \in Thread :
        /\ thread[t].step = "running" =>
              thread[t].imi = interpData[thread[t].method] /\ thread[t].imi # 0
        /\ thread[t].step \in {"building", "finishing"} => interpData[thread[t].method] = 0
        /\ thread[t].step = "finishing" => built[thread[t].method] # 0

\* A body in use was used in this version, at least once: the shrink at the end
\* of the transform does not find it expired.
KeptFor(c, k) ==
    k \notin wrapped =>
        /\ k \in DOMAIN c
        /\ Transforming => c[k].accessVersion = version /\ c[k].accessCount # 0

InUse == \A i \in 1 .. Len(contexts) : KeptFor(cache, TokenOf[contexts[i].method])

\* The verdict on a body that raised lasts as long as the request.
Barring ==
    Transforming => \A k \in refused : k \in DOMAIN cache /\ cache[k].mode = "NotInlineable"

IInv == TypeOK /\ Agree /\ InUse /\ Barring

-----------------------------------------------------------------------------
(* Threads and contexts                                                    *)

\* What a thread can be doing.
LEMMA States ==
  ASSUME NEW m \in Method, NEW n \in Nat
  PROVE  /\ Idle \in ThreadState /\ Idle.step = "idle"
         /\ Waiting(m) \in ThreadState /\ Waiting(m).step = "waiting"
         /\ Building(m) \in ThreadState /\ Building(m).step = "building" /\ Building(m).method = m
         /\ Finishing(m) \in ThreadState /\ Finishing(m).step = "finishing" /\ Finishing(m).method = m
         /\ Running(m, n) \in ThreadState /\ Running(m, n).step = "running"
         /\ Running(m, n).method = m /\ Running(m, n).imi = n
  BY DEF ThreadState, Idle, Waiting, Building, Finishing, Running

\* A thread that is not idle has a method.
LEMMA HasMethod ==
  ASSUME TypeOK, NEW t \in Thread
  PROVE  /\ thread[t] \in ThreadState
         /\ thread[t].step \in {"waiting", "building", "finishing"} => thread[t].method \in Method
  BY DEF TypeOK, ThreadState, Idle

\* One thread moves on.
LEMMA Moves ==
  ASSUME TypeOK, NEW t \in Thread, NEW s \in ThreadState,
         thread' = [thread EXCEPT ![t] = s]
  PROVE  /\ thread' \in [Thread -> ThreadState] /\ thread'[t] = s
         /\ \A u \in Thread \ {t} : thread'[u] = thread[u]
  BY DEF TypeOK, ThreadState

\* The lock's holder is the one thread that transforms.
LEMMA Alone ==
  ASSUME TypeOK, NEW t \in Thread, thread[t].step \in {"building", "finishing"}
  PROVE  /\ lock = t /\ lock # Free /\ contexts # <<>>
         /\ \A u \in Thread \ {t} : thread[u].step \notin {"building", "finishing"}
  BY FreeAssumption DEF TypeOK

\* The innermost context.
LEMMA InnerTyped ==
  ASSUME TypeOK, contexts # <<>>
  PROVE  /\ Len(contexts) \in Nat \ {0} /\ Inner \in ContextType
         /\ TokenOf[Inner.method] \in Token
<1>1. contexts \in Seq(ContextType)
  BY DEF TypeOK, ContextType
<1>2. Len(contexts) \in Nat \ {0} /\ Inner \in ContextType
  BY <1>1 DEF Inner
<1>3. Inner.method \in Method
  BY <1>2 DEF ContextType
<1> QED  BY <1>2, <1>3, ProgramAssumption

\* Its current callee, while the walk lasts.
LEMMA CalleeTyped ==
  ASSUME TypeOK, contexts # <<>>, ~ WalkEnds
  PROVE  /\ Sites[Inner.method][Inner.site] \in Method
         /\ TokenOf[Sites[Inner.method][Inner.site]] \in Token
<1>1. Sites[Inner.method] \in Seq(Method) /\ Inner.site \in Nat \ {0}
  BY InnerTyped, ProgramAssumption DEF ContextType
<1>2. Inner.site \in 1 .. Len(Sites[Inner.method])
  BY <1>1 DEF WalkEnds
<1>3. Sites[Inner.method][Inner.site] \in Method
  BY <1>1, <1>2
<1> QED  BY <1>3, ProgramAssumption

\* Going on with the next site changes no context's method.
LEMMA PastSiteKeeps ==
  ASSUME NEW s \in Seq(ContextType), s # <<>>
  PROVE  /\ PastSite(s) \in Seq(ContextType) /\ PastSite(s) # <<>>
         /\ Len(PastSite(s)) = Len(s)
         /\ \A i \in 1 .. Len(s) : PastSite(s)[i].method = s[i].method
<1>1. Len(s) \in Nat \ {0} /\ s[Len(s)] \in ContextType
  OBVIOUS
<1>2. [s[Len(s)] EXCEPT !.site = @ + 1] \in ContextType
      /\ [s[Len(s)] EXCEPT !.site = @ + 1].method = s[Len(s)].method
  BY <1>1 DEF ContextType
<1>3. PastSite(s) = [s EXCEPT ![Len(s)] = [s[Len(s)] EXCEPT !.site = @ + 1]]
  BY DEF PastSite
<1> DEFINE e == [s[Len(s)] EXCEPT !.site = @ + 1]
<1>4. PICK x \in ContextType : x = e
  BY <1>2
<1>5. PastSite(s) = [s EXCEPT ![Len(s)] = x] /\ x.method = s[Len(s)].method
  BY <1>2, <1>3, <1>4
<1> HIDE DEF e
<1>6. [s EXCEPT ![Len(s)] = x] \in Seq(ContextType)
  BY <1>1
<1>7. Len([s EXCEPT ![Len(s)] = x]) = Len(s)
  BY <1>1
<1>8. \A i \in 1 .. Len(s) : [s EXCEPT ![Len(s)] = x][i].method = s[i].method
  BY <1>1, <1>5
<1>9. PastSite(s) # <<>>
  BY <1>1, <1>5, <1>6, <1>7
<1> HIDE DEF ContextType
<1> QED  BY <1>5, <1>6, <1>7, <1>8, <1>9

\* The caller of an inlined body goes on.
LEMMA BackKeeps ==
  ASSUME TypeOK, Depth > 0
  PROVE  /\ BackToCaller \in Seq(ContextType) /\ BackToCaller # <<>>
         /\ Len(BackToCaller) = Len(contexts) - 1
         /\ \A i \in 1 .. Len(contexts) - 1 : BackToCaller[i].method = contexts[i].method
<1> DEFINE s == SubSeq(contexts, 1, Len(contexts) - 1)
<1>1. contexts \in Seq(ContextType) /\ Len(contexts) \in Nat /\ Len(contexts) > 1
  BY DEF TypeOK, ContextType, Depth
<1>2. s \in Seq(ContextType) /\ Len(s) = Len(contexts) - 1
  BY <1>1
<1>3. \A i \in 1 .. Len(contexts) - 1 : s[i] = contexts[i]
  BY <1>1
<1>4. s # <<>>
  <2> HIDE DEF s
  <2> QED  BY <1>1, <1>2
<1>5. BackToCaller = PastSite(s)
  BY DEF BackToCaller
<1> HIDE DEF s
<1>6. PastSite(s) \in Seq(ContextType) /\ PastSite(s) # <<>> /\ Len(PastSite(s)) = Len(s)
      /\ \A i \in 1 .. Len(s) : PastSite(s)[i].method = s[i].method
  BY <1>2, <1>4, PastSiteKeeps
<1> QED  BY <1>2, <1>3, <1>5, <1>6

-----------------------------------------------------------------------------
(* The steps                                                               *)

LEMMA Start ==
  ASSUME Init
  PROVE  IInv
<1>1. TypeOK
  <2>1. \A t \in Thread : thread[t] = Idle /\ thread[t].step = "idle" /\ lock # t
    BY FreeAssumption DEF Init, Idle
  <2>2. thread \in [Thread -> ThreadState] /\ contexts = <<>> /\ DOMAIN cache = {}
    BY DEF Init, ThreadState
  <2>3. failures \in 0 .. MaxFailures
    BY SizeAssumption DEF Init
  <2> QED  BY <2>1, <2>2, <2>3 DEF Init, TypeOK, ThreadState
<1>2. Agree /\ Barring
  BY DEF Init, Idle, Agree, Barring, Transforming
<1>3. InUse
  BY DEF Init, InUse
<1> QED  BY <1>1, <1>2, <1>3 DEF IInv

\* What a thread does outside the lock: nothing the others see.
LEMMA Outside ==
  ASSUME IInv, NEW t \in Thread, thread[t].step \notin {"building", "finishing"},
         NEW s \in ThreadState, s.step \notin {"building", "finishing"},
         s.step = "running" => s.imi = interpData[s.method] /\ s.imi # 0,
         thread' = [thread EXCEPT ![t] = s],
         UNCHANGED <<lockState, methodState, cacheState, version, option, refused, failures>>
  PROVE  IInv'
<1>1. thread' \in [Thread -> ThreadState] /\ thread'[t] = s
      /\ \A u \in Thread \ {t} : thread'[u] = thread[u]
  BY Moves DEF IInv
<1>2. TypeOK'
  <2>1. \A u \in Thread : thread'[u].step \in {"building", "finishing"} <=> lock' = u
    BY <1>1 DEF IInv, TypeOK, lockState
  <2> QED  BY <1>1, <2>1 DEF IInv, TypeOK, ThreadState, lockState, methodState, cacheState
<1>3. Transforming' => Transforming
  BY <1>1 DEF Transforming
<1>4. Agree'
  BY <1>1 DEF IInv, Agree, methodState
<1>5. InUse' /\ Barring'
  BY <1>3 DEF IInv, InUse, KeptFor, Barring, cacheState, lockState
<1> QED  BY <1>2, <1>4, <1>5 DEF IInv

\* A walk of the lock's holder that uses the entry of k: the threads, the
\* published transforms and the version stay.
LEMMA Walks ==
  ASSUME IInv, NEW t \in Thread, thread[t].step = "building",
         UNCHANGED <<thread, lock, methodState, version, option>>,
         NEW k \in Token, Used(cache, cache', k), wrapped' = wrapped \cup Wraps(cache, cache'),
         refused' = refused, failures' = failures,
         contexts' \in Seq(ContextType), contexts' # <<>>,
         \A i \in 1 .. Len(contexts') :
            \/ i \in 1 .. Len(contexts) /\ contexts'[i].method = contexts[i].method
            \/ TokenOf[contexts'[i].method] = k
  PROVE  IInv'
<1>1. lock = t /\ lock # Free /\ Transforming /\ Transforming'
  BY Alone DEF IInv, Transforming
<1>2. CacheOK(cache) /\ CacheOK(cache') /\ k \in DOMAIN cache' /\ version \in Nat
      /\ DOMAIN cache' = DOMAIN cache \cup {k}
  BY DEF IInv, TypeOK, CacheOK, Used
<1>3. Entry(cache, k) \in EntryType /\ Entry(cache, k).accessCount \in Nat
  BY <1>2, EntryTyped, SizeAssumption DEF EntryType
<1>4. cache'[k].accessVersion = version
      /\ (cache'[k].accessCount = 0 => Entry(cache, k).accessCount > 0)
      /\ (Entry(cache, k).mode # "None" => cache'[k].mode = Entry(cache, k).mode)
  <2>1. Entry(cache', k) = cache'[k]
    BY <1>2 DEF Entry
  <2> QED  BY <2>1 DEF Used
<1>5. cache'[k].accessCount = 0 => k \in wrapped'
  BY <1>2, <1>3, <1>4 DEF Wraps
<1>6. TypeOK'
  <2>1. wrapped' \subseteq Token
    BY <1>2 DEF IInv, TypeOK, CacheOK, Wraps
  <2> QED  BY <1>1, <1>2, <2>1 DEF IInv, TypeOK, CacheOK, methodState, ContextType
<1>7. Agree'
  BY DEF IInv, Agree, methodState
<1>8. InUse'
  <2>1. \A j \in DOMAIN cache \ {k} : cache'[j] = cache[j]
    BY DEF Used
  <2>2. KeptFor(cache, k)' /\ (\A j \in Token : KeptFor(cache, j) => KeptFor(cache, j)')
    BY <1>1, <1>2, <1>4, <1>5, <2>1 DEF KeptFor
  <2>3. \A i \in 1 .. Len(contexts') : TokenOf[contexts'[i].method] \in Token
    <3> TAKE i \in 1 .. Len(contexts')
    <3>1. contexts'[i] \in ContextType
      OBVIOUS
    <3> QED  BY <3>1, ProgramAssumption DEF ContextType
  <2> SUFFICES ASSUME NEW i \in 1 .. Len(contexts'), NEW j, j = TokenOf[contexts'[i].method]
               PROVE  KeptFor(cache, j)'
    BY DEF InUse, KeptFor
  <2>4. j = k \/ KeptFor(cache, j)
    BY DEF IInv, InUse
  <2> QED  BY <2>2, <2>3, <2>4
<1>9. Barring'
  <2>1. \A j \in DOMAIN cache \ {k} : cache'[j] = cache[j]
    BY DEF Used
  <2>2. k \in refused => Entry(cache, k).mode = "NotInlineable"
    BY <1>1 DEF IInv, Barring, Entry
  <2> QED  BY <1>1, <1>2, <1>4, <2>1, <2>2 DEF IInv, Barring
<1> QED  BY <1>6, <1>7, <1>8, <1>9 DEF IInv

LEMMA Lookups ==
  ASSUME IInv, NEW t \in Thread, NEW m \in Method, Lookup(t, m)
  PROVE  IInv'
<1> DEFINE s == IF interpData[m] # 0 THEN Running(m, interpData[m]) ELSE Waiting(m)
<1>1. interpData[m] \in Nat
  BY DEF IInv, TypeOK
<1>2. s \in ThreadState /\ s.step \notin {"building", "finishing"}
      /\ (s.step = "running" => s.imi = interpData[s.method] /\ s.imi # 0)
  BY <1>1, States
<1>3. thread' = [thread EXCEPT ![t] = s] /\ thread[t].step = "idle"
  BY DEF Lookup
<1> HIDE DEF s
<1> QED  BY <1>2, <1>3, Outside DEF Lookup

LEMMA Returns ==
  ASSUME IInv, NEW t \in Thread, Return(t) \/ AcquireClassInitRaises(t)
  PROVE  IInv'
<1>1. Idle \in ThreadState /\ Idle.step = "idle"
  BY DEF ThreadState, Idle
<1> QED  BY <1>1, Outside DEF Return, AcquireClassInitRaises

LEMMA FindsBuilt ==
  ASSUME IInv, NEW t \in Thread, AcquireFindsBuilt(t)
  PROVE  IInv'
<1> DEFINE m == thread[t].method
           s == Running(m, interpData[m])
<1>1. m \in Method /\ thread[t].step = "waiting"
  BY HasMethod DEF IInv, AcquireFindsBuilt
<1>2. interpData[m] \in Nat /\ interpData[m] # 0
  BY <1>1 DEF IInv, TypeOK, AcquireFindsBuilt, MustTransform
<1>3. thread' = [thread EXCEPT ![t] = s]
  BY DEF AcquireFindsBuilt
<1> HIDE DEF m
<1>4. s \in ThreadState /\ s.step = "running" /\ s.method = m /\ s.imi = interpData[m]
  BY <1>1, <1>2, States
<1> HIDE DEF s
<1> QED  BY <1>1, <1>2, <1>3, <1>4, Outside DEF AcquireFindsBuilt

LEMMA OptionsSet ==
  ASSUME IInv, SetRuntimeOption
  PROVE  IInv'
<1>1. TypeOK'
  BY DEF IInv, TypeOK, SetRuntimeOption, lockState, methodState, cacheState
<1>2. Agree' /\ InUse' /\ Barring'
  BY DEF IInv, Agree, InUse, KeptFor, Barring, Transforming, SetRuntimeOption,
         lockState, methodState, cacheState
<1> QED  BY <1>1, <1>2 DEF IInv

\* The lock is free: nobody transforms and no context is alive.
LEMMA Begins ==
  ASSUME IInv, NEW t \in Thread, AcquireBegins(t)
  PROVE  IInv'
<1> PICK m, k : m = thread[t].method /\ k = TokenOf[m]
  OBVIOUS
<1>1. m \in Method /\ thread[t].step = "waiting" /\ lock = Free /\ contexts = <<>>
  BY HasMethod DEF IInv, AcquireBegins, TypeOK
<1>2. k \in Token /\ interpData[m] = 0
  BY <1>1, ProgramAssumption DEF AcquireBegins, MustTransform
<1>3. version \in Nat /\ CacheOK(cache)
  BY DEF IInv, TypeOK, CacheOK
<1>4. cache' = Touch(cache, k) /\ wrapped' = wrapped \cup Wraps(cache, cache')
  BY DEF AcquireBegins, CacheBecomes
<1>5. refused' = {} /\ UNCHANGED <<interpData, built, version, option>>
  BY DEF AcquireBegins, methodState
<1>6. \A u \in Thread : thread[u].step \notin {"building", "finishing"}
  BY <1>1, FreeAssumption DEF IInv, TypeOK
<1>7. Used(cache, cache', k)
  BY <1>2, <1>3, <1>4, TouchUses
<1>8. CacheOK(cache') /\ wrapped' \subseteq Token
  BY <1>4, <1>7 DEF Used, CacheOK, Wraps, IInv, TypeOK
<1>9. CASE k \in Bodyless
  <2>1. thread' = [thread EXCEPT ![t] = Idle] /\ UNCHANGED lockState
        /\ failures < MaxFailures /\ failures' = failures + 1
    BY <1>9 DEF AcquireBegins, Fails
  <2>2. Idle \in ThreadState /\ Idle.step = "idle"
    BY DEF ThreadState, Idle
  <2>3. thread' \in [Thread -> ThreadState] /\ thread'[t] = Idle
        /\ \A u \in Thread \ {t} : thread'[u] = thread[u]
    BY <2>1, <2>2, Moves DEF IInv
  <2>4. \A u \in Thread : thread'[u].step \notin {"building", "finishing"}
    BY <1>6, <2>2, <2>3
  <2>5. failures' \in 0 .. MaxFailures
    BY <2>1, SizeAssumption DEF IInv, TypeOK
  <2>6. TypeOK'
    BY <1>1, <1>5, <1>8, <2>1, <2>3, <2>4, <2>5, FreeAssumption
       DEF IInv, TypeOK, CacheOK, lockState, ThreadState
  <2>7. Agree' /\ Barring'
    BY <1>5, <2>2, <2>3, <2>4 DEF IInv, Agree, Barring, Transforming
  <2>8. InUse'
    BY <1>1, <2>1 DEF InUse, lockState
  <2> QED  BY <2>6, <2>7, <2>8 DEF IInv
<1>10. CASE k \notin Bodyless
  <2>1. thread' = [thread EXCEPT ![t] = Building(m)] /\ lock' = t
        /\ contexts' = <<Context(m)>> /\ failures' = failures
    BY <1>10 DEF AcquireBegins
  <2>2. Building(m) \in ThreadState /\ Building(m).step = "building" /\ Building(m).method = m
    BY <1>1 DEF ThreadState, Building
  <2>3. thread' \in [Thread -> ThreadState] /\ thread'[t] = Building(m)
        /\ \A u \in Thread \ {t} : thread'[u] = thread[u]
    BY <2>1, <2>2, Moves DEF IInv
  <2>4. \A u \in Thread : thread'[u].step \in {"building", "finishing"} <=> lock' = u
    BY <1>6, <2>1, <2>2, <2>3
  <2>5. contexts' \in Seq(ContextType) /\ Len(contexts') = 1 /\ contexts'[1].method = m
        /\ contexts' # <<>>
    BY <1>1, <2>1 DEF Context, ContextType
  <2>6. TypeOK'
    BY <1>5, <1>8, <2>1, <2>3, <2>4, <2>5, FreeAssumption
       DEF IInv, TypeOK, CacheOK, ThreadState, ContextType
  <2>7. Agree' /\ Barring'
    <3>1. interpData'[m] = 0
      BY <1>2, <1>5
    <3> QED  BY <1>5, <2>2, <2>3, <3>1 DEF IInv, Agree, Barring
  <2>8. InUse'
    <3>1. Entry(cache, k).accessCount \in Nat
      BY <1>3, EntryTyped, SizeAssumption DEF EntryType
    <3>2. Entry(cache', k) = cache'[k] /\ k \in DOMAIN cache'
      BY <1>7 DEF Used, Entry
    <3>3. cache'[k].accessCount = 0 => k \in wrapped'
      BY <1>4, <1>7, <3>1, <3>2 DEF Used, Wraps
    <3>4. KeptFor(cache, k)'
      BY <1>5, <1>7, <3>2, <3>3 DEF Used, KeptFor
    <3> SUFFICES ASSUME NEW i \in 1 .. Len(contexts'), NEW j, j = TokenOf[contexts'[i].method]
                 PROVE  KeptFor(cache, j)'
      BY DEF InUse, KeptFor
    <3>5. j = k
      BY <2>5
    <3> QED  BY <3>4, <3>5
  <2> QED  BY <2>6, <2>7, <2>8 DEF IInv
<1> QED  BY <1>9, <1>10

\* What a call site does to the contexts when it is not inlined, and when it is.
LEMMA SitePassed ==
  ASSUME IInv, contexts # <<>>, contexts' = PastSite(contexts)
  PROVE  /\ contexts' \in Seq(ContextType) /\ contexts' # <<>> /\ Len(contexts') = Len(contexts)
         /\ \A i \in 1 .. Len(contexts') :
               i \in 1 .. Len(contexts) /\ contexts'[i].method = contexts[i].method
<1>1. contexts \in Seq(ContextType)
  BY DEF IInv, TypeOK, ContextType
<1>2. PastSite(contexts) \in Seq(ContextType) /\ PastSite(contexts) # <<>>
      /\ Len(PastSite(contexts)) = Len(contexts)
      /\ \A i \in 1 .. Len(contexts) : PastSite(contexts)[i].method = contexts[i].method
  BY <1>1, PastSiteKeeps
<1> QED  BY <1>2

LEMMA Inlined ==
  ASSUME IInv, contexts # <<>>, NEW c \in Method, contexts' = Append(contexts, Context(c))
  PROVE  /\ contexts' \in Seq(ContextType) /\ contexts' # <<>> /\ Len(contexts') = Len(contexts) + 1
         /\ contexts'[Len(contexts')].method = c
         /\ \A i \in 1 .. Len(contexts') :
               \/ i \in 1 .. Len(contexts) /\ contexts'[i].method = contexts[i].method
               \/ contexts'[i].method = c
<1>1. contexts \in Seq(ContextType)
  BY DEF IInv, TypeOK, ContextType
<1>2. Context(c) \in ContextType /\ Context(c).method = c
  BY DEF Context, ContextType
<1> QED  BY <1>1, <1>2

LEMMA EmitsCall ==
  ASSUME IInv, NEW t \in Thread, EmitCall(t)
  PROVE  IInv'
<1> PICK k : k = TokenOf[Sites[Inner.method][Inner.site]]
  OBVIOUS
<1>1. thread[t].step = "building" /\ contexts # <<>> /\ version \in Nat /\ CacheOK(cache)
  BY Alone DEF IInv, TypeOK, CacheOK, EmitCall
<1>2. k \in Token
  BY <1>1, CalleeTyped DEF IInv, EmitCall
<1>3. contexts' = PastSite(contexts)
      /\ UNCHANGED <<thread, lock, methodState, version, option, refused, failures>>
  BY DEF EmitCall
<1>4. contexts' \in Seq(ContextType) /\ contexts' # <<>> /\ Len(contexts') = Len(contexts)
      /\ \A i \in 1 .. Len(contexts') :
            i \in 1 .. Len(contexts) /\ contexts'[i].method = contexts[i].method
  BY <1>1, <1>3, SitePassed
<1>5. CASE UNCHANGED cacheState
  <2>1. TypeOK'
    BY <1>1, <1>3, <1>4, <1>5 DEF IInv, TypeOK, cacheState, methodState, ContextType
  <2>2. Agree' /\ Barring'
    BY <1>3, <1>5 DEF IInv, Agree, Barring, Transforming, cacheState, methodState
  <2>3. InUse'
    BY <1>3, <1>4, <1>5 DEF IInv, InUse, KeptFor, Transforming, cacheState
  <2> QED  BY <2>1, <2>2, <2>3 DEF IInv
<1>6. CASE CacheBecomes(Judge(cache, k))
  <2>1. Used(cache, cache', k) /\ wrapped' = wrapped \cup Wraps(cache, cache')
    BY <1>1, <1>2, <1>6, JudgeUses DEF CacheBecomes
  <2> QED  BY <1>1, <1>2, <1>3, <1>4, <2>1, Walks
<1> QED  BY <1>5, <1>6 DEF EmitCall

LEMMA EntersInline ==
  ASSUME IInv, NEW t \in Thread, EnterInline(t)
  PROVE  /\ IInv'
         /\ TokenOf[contexts'[Len(contexts')].method] \notin refused
<1> PICK c, k : c = Sites[Inner.method][Inner.site] /\ k = TokenOf[c]
  OBVIOUS
<1>1. thread[t].step = "building" /\ contexts # <<>> /\ version \in Nat /\ CacheOK(cache)
  BY Alone DEF IInv, TypeOK, CacheOK, EnterInline
<1>2. c \in Method /\ k \in Token
  BY <1>1, CalleeTyped DEF IInv, EnterInline
<1>3. contexts' = Append(contexts, Context(c))
      /\ UNCHANGED <<thread, lock, methodState, version, option, refused, failures>>
      /\ Judge(cache, k)[k].mode = "Inlineable"
      /\ CacheBecomes(Touch(Judge(cache, k), k))
  BY DEF EnterInline
<1>4. contexts' \in Seq(ContextType) /\ contexts' # <<>> /\ contexts'[Len(contexts')].method = c
      /\ \A i \in 1 .. Len(contexts') :
            \/ i \in 1 .. Len(contexts) /\ contexts'[i].method = contexts[i].method
            \/ contexts'[i].method = c
  BY <1>1, <1>2, <1>3, Inlined
<1>5. Used(cache, cache', k) /\ wrapped' = wrapped \cup Wraps(cache, cache')
  BY <1>1, <1>2, <1>3, JudgeUses DEF CacheBecomes
<1>6. IInv'
  BY <1>1, <1>2, <1>3, <1>4, <1>5, Walks
<1>7. k \notin refused
  <2>1. k \in refused => Entry(cache, k).mode = "NotInlineable"
    BY <1>1 DEF IInv, Barring, Transforming, Entry
  <2>2. Used(cache, Judge(cache, k), k)
    BY <1>1, <1>2, JudgeUses
  <2>3. Entry(Judge(cache, k), k) = Judge(cache, k)[k]
    BY <2>2 DEF Used, Entry
  <2> QED  BY <1>3, <2>1, <2>2, <2>3 DEF Used
<1> QED  BY <1>4, <1>6, <1>7

LEMMA InlineEnds ==
  ASSUME IInv, NEW t \in Thread, InlineDone(t)
  PROVE  IInv' /\ Len(contexts') < Len(contexts)
<1>1. contexts' = BackToCaller /\ Len(contexts) \in Nat
      /\ UNCHANGED <<thread, lock, methodState, cacheState, version, option, refused, failures>>
  BY DEF InlineDone, IInv, TypeOK
<1>2. contexts' \in Seq(ContextType) /\ contexts' # <<>> /\ Len(contexts') = Len(contexts) - 1
      /\ \A i \in 1 .. Len(contexts) - 1 : contexts'[i].method = contexts[i].method
  BY <1>1, BackKeeps DEF InlineDone, IInv
<1>3. TypeOK'
  <2>1. lock # Free
    BY Alone DEF IInv, InlineDone
  <2> QED  BY <1>1, <1>2, <2>1 DEF IInv, TypeOK, cacheState, methodState, ContextType
<1>4. Agree' /\ Barring'
  BY <1>1 DEF IInv, Agree, Barring, Transforming, cacheState, methodState
<1>5. InUse'
  BY <1>1, <1>2 DEF IInv, InUse, KeptFor, Transforming, cacheState
<1> QED  BY <1>1, <1>2, <1>3, <1>4, <1>5 DEF IInv

LEMMA InlineFails ==
  ASSUME IInv, NEW t \in Thread, InlineRaises(t)
  PROVE  IInv' /\ Len(contexts') < Len(contexts)
<1> PICK k : k = TokenOf[Inner.method]
  OBVIOUS
<1>1. thread[t].step = "building" /\ contexts # <<>> /\ lock # Free /\ version \in Nat
      /\ CacheOK(cache) /\ Len(contexts) \in Nat
  BY Alone DEF IInv, TypeOK, CacheOK, InlineRaises
<1>2. k \in Token /\ Inner = contexts[Len(contexts)] /\ Len(contexts) \in 1 .. Len(contexts)
  BY <1>1, InnerTyped DEF IInv, Inner
<1>3. contexts' = BackToCaller /\ cache' = SetMode(cache, k, "NotInlineable")
      /\ refused' = refused \cup {k} /\ failures < MaxFailures /\ failures' = failures + 1
      /\ UNCHANGED <<thread, lock, methodState, wrapped, version, option>>
  BY DEF InlineRaises, DisableInline, Fails
<1>4. contexts' \in Seq(ContextType) /\ contexts' # <<>> /\ Len(contexts') = Len(contexts) - 1
      /\ \A i \in 1 .. Len(contexts) - 1 : contexts'[i].method = contexts[i].method
  BY <1>3, BackKeeps DEF InlineRaises, IInv
<1>5. CacheOK(cache') /\ DOMAIN cache' = DOMAIN cache \cup {k}
      /\ (\A j \in DOMAIN cache \ {k} : cache'[j] = cache[j])
      /\ Entry(cache', k).accessVersion = Entry(cache, k).accessVersion
      /\ Entry(cache', k).accessCount = Entry(cache, k).accessCount
      /\ Entry(cache', k).mode = "NotInlineable"
  <2> PICK mode \in Mode : mode = "NotInlineable"
    BY DEF Mode
  <2>1. Judged(cache, SetMode(cache, k, mode), k, mode)
    BY <1>1, <1>2, ModeSet
  <2> QED  BY <1>3, <2>1 DEF Judged
<1>6. Entry(cache', k) = cache'[k] /\ (k \in DOMAIN cache => Entry(cache, k) = cache[k])
  BY <1>5 DEF Entry
<1>7. TypeOK'
  <2>1. failures' \in 0 .. MaxFailures
    BY <1>3, SizeAssumption DEF IInv, TypeOK
  <2> QED  BY <1>1, <1>2, <1>3, <1>4, <1>5, <2>1 DEF IInv, TypeOK, CacheOK, methodState, ContextType
<1>8. Agree'
  BY <1>3 DEF IInv, Agree, methodState
<1>9. Barring'
  BY <1>3, <1>5, <1>6 DEF IInv, Barring, Transforming
<1>10. InUse'
  <2>1. \A j \in Token : KeptFor(cache, j) => KeptFor(cache, j)'
    BY <1>3, <1>5, <1>6 DEF KeptFor, Transforming
  <2> SUFFICES ASSUME NEW i \in 1 .. Len(contexts'), NEW j, j = TokenOf[contexts'[i].method]
               PROVE  KeptFor(cache, j)'
    BY DEF InUse, KeptFor
  <2>2. contexts'[i] \in ContextType
    BY <1>4
  <2>3. j \in Token
    BY <2>2, ProgramAssumption DEF ContextType
  <2>4. KeptFor(cache, j)
    BY <1>1, <1>4 DEF IInv, InUse
  <2> QED  BY <2>1, <2>3, <2>4
<1> QED  BY <1>1, <1>4, <1>7, <1>8, <1>9, <1>10 DEF IInv

LEMMA TransformFails ==
  ASSUME IInv, NEW t \in Thread, TransformRaises(t)
  PROVE  IInv' /\ contexts' = <<>>
<1>1. Idle \in ThreadState /\ Idle.step = "idle"
  BY DEF ThreadState, Idle
<1>2. thread' = [thread EXCEPT ![t] = Idle] /\ lock' = Free /\ contexts' = <<>>
      /\ failures < MaxFailures /\ failures' = failures + 1
      /\ UNCHANGED <<methodState, cacheState, version, option, refused>>
  BY DEF TransformRaises, Fails
<1>3. thread' \in [Thread -> ThreadState] /\ thread'[t] = Idle
      /\ \A u \in Thread \ {t} : thread'[u] = thread[u]
  BY <1>1, <1>2, Moves DEF IInv
<1>4. \A u \in Thread : thread'[u].step \notin {"building", "finishing"}
  BY <1>1, <1>3, Alone DEF IInv, TransformRaises
<1>5. failures' \in 0 .. MaxFailures
  BY <1>2, SizeAssumption DEF IInv, TypeOK
<1>6. TypeOK'
  BY <1>2, <1>3, <1>4, <1>5, FreeAssumption DEF IInv, TypeOK, cacheState, methodState, ThreadState
<1>7. Agree' /\ Barring'
  BY <1>1, <1>2, <1>3, <1>4 DEF IInv, Agree, Barring, Transforming, methodState
<1>8. InUse'
  BY <1>2 DEF InUse
<1> QED  BY <1>2, <1>6, <1>7, <1>8 DEF IInv

\* The shrink evicts no body that was used in the version that ends.
LEMMA NotExpired ==
  ASSUME IInv, NEW t \in Thread, TransformDone(t), NEW k \in DOMAIN cache,
         cache[k].accessVersion = version, cache[k].accessCount # 0
  PROVE  k \in DOMAIN cache'
<1>1. option \in Nat \X Nat /\ version \in Nat /\ cache[k].accessCount \in Nat \ {0}
  BY SizeAssumption DEF IInv, TypeOK, EntryType
<1>2. Interval \in Nat \ {0}
  <2>1. MaxBodies \in Nat
    BY <1>1 DEF MaxBodies
  <2>2. MaxBodies \div 2 \in Nat
    BY <2>1
  <2> QED  BY <2>2, SizeAssumption DEF Interval
<1>3. ~ Expired(cache[k], version + 1)
  <2>1. \A n, i \in Nat \ {0} : n * i \in Nat \ {0}
    OBVIOUS
  <2>2. cache[k].accessCount * Interval \in Nat \ {0}
    BY <1>1, <1>2, <2>1
  <2> QED  BY <1>1, <2>2 DEF Expired
<1>4. cache' = Shrink(cache, version + 1)
  BY DEF TransformDone
<1> QED  BY <1>3, <1>4 DEF Shrink

LEMMA TransformEnds ==
  ASSUME IInv, NEW t \in Thread, TransformDone(t)
  PROVE  IInv'
<1> PICK m : m = thread[t].method
  OBVIOUS
<1>1. thread[t].step = "building" /\ m \in Method /\ lock = t
      /\ \A u \in Thread \ {t} : thread[u].step \notin {"building", "finishing"}
  BY HasMethod, Alone DEF IInv, TransformDone
<1>2. thread' = [thread EXCEPT ![t] = Finishing(m)] /\ version' = version + 1
      /\ cache' = Shrink(cache, version + 1)
      /\ built' = [built EXCEPT ![m] = @ + 1]
      /\ UNCHANGED <<lock, contexts, interpData, wrapped, option, refused, failures>>
  BY DEF TransformDone, lockState
<1>3. Finishing(m) \in ThreadState /\ Finishing(m).step = "finishing" /\ Finishing(m).method = m
  BY <1>1 DEF ThreadState, Finishing
<1>4. thread' \in [Thread -> ThreadState] /\ thread'[t] = Finishing(m)
      /\ \A u \in Thread \ {t} : thread'[u] = thread[u]
  BY <1>2, <1>3, Moves DEF IInv
<1>5. DOMAIN cache' \subseteq DOMAIN cache /\ \A k \in DOMAIN cache' : cache'[k] = cache[k]
  BY <1>2 DEF Shrink
<1>6. ~ Transforming'
  BY <1>1, <1>3, <1>4 DEF Transforming
<1>7. built' \in [Method -> Nat] /\ built'[m] # 0
  BY <1>1, <1>2 DEF IInv, TypeOK
<1>8. TypeOK'
  <2>1. \A u \in Thread : thread'[u].step \in {"building", "finishing"} <=> lock' = u
    BY <1>1, <1>2, <1>3, <1>4
  <2>2. DOMAIN cache' \subseteq Token /\ \A k \in DOMAIN cache' : cache'[k] \in EntryType
    BY <1>5 DEF IInv, TypeOK
  <2> QED  BY <1>2, <1>4, <1>7, <2>1, <2>2, SMTT(30) DEF IInv, TypeOK, ThreadState
<1>9. Agree'
  BY <1>1, <1>2, <1>3, <1>4, <1>7 DEF IInv, Agree
<1>10. InUse'
  <2> SUFFICES ASSUME NEW i \in 1 .. Len(contexts'), NEW j, j = TokenOf[contexts'[i].method]
               PROVE  KeptFor(cache, j)'
    BY DEF InUse, KeptFor
  <2>1. KeptFor(cache, j) /\ Transforming
    BY <1>1, <1>2 DEF IInv, InUse, Transforming
  <2>2. j \notin wrapped => j \in DOMAIN cache'
    BY <2>1, NotExpired DEF KeptFor
  <2> QED  BY <1>2, <1>6, <2>2 DEF KeptFor
<1> QED  BY <1>6, <1>8, <1>9, <1>10 DEF IInv, Barring

LEMMA Publishes ==
  ASSUME IInv, NEW t \in Thread, Publish(t)
  PROVE  IInv' /\ contexts' = <<>>
<1> PICK m : m = thread[t].method
  OBVIOUS
<1>1. thread[t].step = "finishing" /\ m \in Method
      /\ \A u \in Thread \ {t} : thread[u].step \notin {"building", "finishing"}
  BY HasMethod, Alone DEF IInv, Publish
<1>2. thread' = [thread EXCEPT ![t] = Running(m, built[m])]
      /\ interpData' = [interpData EXCEPT ![m] = built[m]] /\ lock' = Free /\ contexts' = <<>>
      /\ UNCHANGED <<built, cacheState, version, option, refused, failures>>
  BY DEF Publish
<1>3. built[m] \in Nat /\ built[m] # 0 /\ interpData[m] = 0 /\ interpData \in [Method -> Nat]
  BY <1>1 DEF IInv, TypeOK, Agree
<1>4. Running(m, built[m]) \in ThreadState /\ Running(m, built[m]).step = "running"
      /\ Running(m, built[m]).method = m /\ Running(m, built[m]).imi = built[m]
  BY <1>1, <1>3 DEF ThreadState, Running
<1>5. thread' \in [Thread -> ThreadState] /\ thread'[t] = Running(m, built[m])
      /\ \A u \in Thread \ {t} : thread'[u] = thread[u]
  BY <1>2, <1>4, Moves DEF IInv
<1>6. \A u \in Thread : thread'[u].step \notin {"building", "finishing"}
  BY <1>1, <1>4, <1>5
<1>7. TypeOK'
  BY <1>1, <1>2, <1>3, <1>5, <1>6, FreeAssumption DEF IInv, TypeOK, cacheState, ThreadState
<1>8. Agree'
  <2>1. \A u \in Thread \ {t} : thread[u].step = "running" => thread[u].method \in Method
    BY DEF IInv, TypeOK, Idle
  <2>2. \A n \in Method : interpData[n] # 0 => interpData'[n] = interpData[n]
    BY <1>2, <1>3
  <2>3. \A u \in Thread \ {t} : thread[u].step = "running" =>
          thread[u].imi = interpData'[thread[u].method] /\ thread[u].imi # 0
    BY <2>1, <2>2 DEF IInv, Agree
  <2>4. interpData'[m] = built[m]
    BY <1>1, <1>2, <1>3
  <2> QED  BY <1>3, <1>4, <1>5, <1>6, <2>3, <2>4 DEF Agree
<1>9. Barring' /\ InUse'
  BY <1>2, <1>6 DEF Barring, Transforming, InUse
<1> QED  BY <1>2, <1>7, <1>8, <1>9 DEF IInv

LEMMA Stutters ==
  ASSUME IInv, UNCHANGED vars
  PROVE  IInv'
<1>1. TypeOK'
  BY DEF IInv, TypeOK, vars, lockState, methodState, cacheState
<1>2. Agree' /\ InUse' /\ Barring'
  BY DEF IInv, Agree, InUse, KeptFor, Barring, Transforming, vars, lockState, methodState, cacheState
<1> QED  BY <1>1, <1>2 DEF IInv

LEMMA IInvStep == IInv /\ [Next]_vars => IInv'
<1> SUFFICES ASSUME IInv, [Next]_vars PROVE IInv'
  OBVIOUS
<1>1. ASSUME NEW t \in Thread, Acquire(t) PROVE IInv'
  BY <1>1, FindsBuilt, Returns, Begins DEF Acquire
<1>2. ASSUME NEW t \in Thread, Transform(t) PROVE IInv'
  BY <1>2, EmitsCall, EntersInline, InlineEnds, InlineFails, TransformFails, TransformEnds, Publishes
     DEF Transform
<1> QED  BY <1>1, <1>2, Lookups, Returns, OptionsSet, Stutters DEF Next

LEMMA AlwaysIInv == Spec => []IInv
  BY Start, IInvStep, PTL DEF Spec

-----------------------------------------------------------------------------
(* The theorems                                                            *)

\* A TransformContext's reference into the body cache stays valid while it lives:
\* ShrinkMethodBodyCache evicts no body of a live context, unless the uint16_t
\* use count of its entry has wrapped.
THEOREM LiveBodiesStayCached == Spec => []BodiesInUseAreCached
<1>1. IInv => BodiesInUseAreCached
  BY DEF IInv, InUse, KeptFor, BodiesInUseAreCached
<1> QED  BY <1>1, AlwaysIInv, PTL

\* Whichever way a caller came by a method's InterpMethodInfo - the unlocked test,
\* the second test under the lock, or its own transform - all run the same one.
THEOREM OneTransformPerMethod == Spec => []CallersAgree
<1>1. IInv => CallersAgree
  BY DEF IInv, Agree, CallersAgree
<1> QED  BY <1>1, AlwaysIInv, PTL

\* DisableInline holds for the rest of the request: no nested context is opened
\* for a body whose inlining raised.
THEOREM FailedInliningIsNotRetried == Spec => RefusalIsRemembered
<1>1. IInv /\ [Next]_vars =>
        [contexts # <<>> /\ Len(contexts') > Len(contexts) =>
            TokenOf[contexts'[Len(contexts')].method] \notin refused]_vars
  <2> SUFFICES ASSUME IInv, [Next]_vars, contexts # <<>>, Len(contexts') > Len(contexts)
               PROVE  TokenOf[contexts'[Len(contexts')].method] \notin refused
    OBVIOUS
  <2>1. Len(contexts) \in Nat \ {0} /\ lock # Free
    BY DEF IInv, TypeOK
  <2>2. contexts' # <<>> /\ contexts' # contexts
    BY <2>1
  <2>3. Next
    BY <2>2 DEF vars, lockState
  <2>4. PICK t \in Thread : Acquire(t) \/ Transform(t)
    BY <2>2, <2>3 DEF Next, Lookup, Return, SetRuntimeOption, lockState
  <2>5. CASE Acquire(t)
    BY <2>1, <2>2, <2>5
       DEF Acquire, AcquireFindsBuilt, AcquireClassInitRaises, AcquireBegins, lockState
  <2>6. CASE EmitCall(t)
    <3>1. Len(contexts') = Len(contexts)
      BY <2>6, SitePassed DEF EmitCall
    <3> QED  BY <2>1, <3>1
  <2>7. CASE TransformDone(t)
    BY <2>2, <2>7 DEF TransformDone, lockState
  <2>8. CASE InlineDone(t) \/ InlineRaises(t)
    BY <2>1, <2>8, InlineEnds, InlineFails
  <2>9. CASE EnterInline(t)
    BY <2>9, EntersInline
  <2>10. CASE TransformRaises(t) \/ Publish(t)
    BY <2>2, <2>10, TransformFails, Publishes
  <2> QED  BY <2>4, <2>5, <2>6, <2>7, <2>8, <2>9, <2>10 DEF Transform
<1> QED  BY <1>1, AlwaysIInv, PTL DEF Spec, RefusalIsRemembered

-----------------------------------------------------------------------------
(* Superinstruction fusion                                                 *)
(*                                                                         *)
(* The steps of the lowered block and those of the block a pass makes of   *)
(* it are run side by side.  Alike relates the two machines: they have     *)
(* written the same, hold the same values in the slots still stacked and   *)
(* in the locals, and have made the same checks but for the steps whose    *)
(* check a fused handler leaves out.  Sim says that some steps keep them   *)
(* in agreement with some others; it composes, so a pass is right when     *)
(* what it makes of every window of a block stands in for the steps it     *)
(* consumes (Serves).  That holds of merging, which moves no step, and of  *)
(* the four rewrites that drop a copy or a slot: the fold of two copies    *)
(* into their consumer, the redirected load, the load of a field from the  *)
(* copied struct and the increment of an element.  Only the first pass has *)
(* those; the later passes keep the steps of the block as they are         *)
(* (LaterPass).  Proofs by induction over the length of a sequence go by   *)
(* Upward and Downward, the least counterexample of a well-founded order.  *)

\* A set with 0 in it, and with every number its successor up to n, has 0..n.
LEMMA Upward ==
  ASSUME NEW n \in Nat, NEW P, 0 \in P, \A i \in 1..n : i - 1 \in P => i \in P
  PROVE  \A i \in 0..n : i \in P
<1> DEFINE Out == {i \in 0..n : i \notin P}
<1> SUFFICES ASSUME Out # {}  PROVE FALSE
  OBVIOUS
<1>1. PICK i \in Out : \A j \in Out : ~(<<j, i>> \in OpToRel(<, Nat))
  <2>1. Out \subseteq Nat
    OBVIOUS
  <2> QED  BY <2>1, WFMin, NatLessThanWellFounded
<1>2. i \in Nat /\ i # 0 /\ i <= n /\ i \notin P
  OBVIOUS
<1>3. i - 1 \in 0..n /\ i \in 1..n /\ i - 1 < i /\ i - 1 \in Nat
  BY <1>2
<1>4. i - 1 \notin P
  BY <1>2, <1>3
<1>5. <<i - 1, i>> \in OpToRel(<, Nat)
  BY <1>2, <1>3 DEF OpToRel
<1> QED  BY <1>1, <1>3, <1>4, <1>5

\* The same from n down.
LEMMA Downward ==
  ASSUME NEW n \in Nat, NEW P, n \in P, \A i \in 1..n : i \in P => i - 1 \in P
  PROVE  \A i \in 0..n : i \in P
<1> DEFINE Q == {i \in 0..n : n - i \in P}
<1>1. 0 \in Q
  OBVIOUS
<1>2. \A i \in 1..n : i - 1 \in Q => i \in Q
  <2> SUFFICES ASSUME NEW i \in 1..n, i - 1 \in Q  PROVE i \in Q
    OBVIOUS
  <2>1. n - (i - 1) \in 1..n /\ n - (i - 1) - 1 = n - i /\ i \in 0..n /\ n - (i - 1) \in P
    OBVIOUS
  <2> QED  BY <2>1
<1> HIDE DEF Q
<1>3. \A i \in 0..n : i \in Q
  BY <1>1, <1>2, Upward
<1> QED
  <2> TAKE i \in 0..n
  <2>1. n - i \in 0..n /\ n - (n - i) = i
    OBVIOUS
  <2> QED  BY <1>3, <2>1 DEF Q

\* FlattenSeq, one list at a time: the first k lists of s.
Flattened(f, s, k) ==
  f = [i \in 1..k |-> IF i = 1 THEN s[i] ELSE f[i - 1] \o s[i]]

LEMMA FlattenedMore ==
  ASSUME NEW s, NEW k \in Nat, NEW f, Flattened(f, s, k)
  PROVE  \E g : Flattened(g, s, k + 1)
<1> DEFINE g == [i \in 1..(k + 1) |->
                   IF i <= k THEN f[i] ELSE IF i = 1 THEN s[i] ELSE f[i - 1] \o s[i]]
<1>1. ASSUME NEW i \in 1..(k + 1)
      PROVE  g[i] = IF i = 1 THEN s[i] ELSE g[i - 1] \o s[i]
  <2>1. i # 1 => i - 1 \in 1..(k + 1) /\ i - 1 <= k
    OBVIOUS
  <2>2. i # 1 => g[i - 1] = f[i - 1]
    BY <2>1
  <2>3. CASE i <= k
    <3>1. g[i] = f[i] /\ i \in 1..k
      BY <2>3
    <3> QED  BY <3>1, <2>2 DEF Flattened
  <2>4. CASE ~(i <= k)
    <3>1. g[i] = IF i = 1 THEN s[i] ELSE f[i - 1] \o s[i]
      BY <2>4
    <3> QED  BY <3>1, <2>2
  <2> QED  BY <2>3, <2>4
<1>2. Flattened(g, s, k + 1)
  <2>1. g = [i \in 1..(k + 1) |-> g[i]]
    OBVIOUS
  <2> HIDE DEF g
  <2> QED  BY <1>1, <2>1 DEF Flattened
<1> HIDE DEF g
<1> QED  BY <1>2

LEMMA FlattenedExists ==
  ASSUME NEW s, NEW n \in Nat
  PROVE  \E f : Flattened(f, s, n)
<1> DEFINE P == {k \in 0..n : \E f : Flattened(f, s, k)}
<1>1. 0 \in P
  <2> DEFINE e == [i \in 1..0 |-> 0]
  <2>1. e = [i \in 1..0 |-> IF i = 1 THEN s[i] ELSE e[i - 1] \o s[i]]
    OBVIOUS
  <2> HIDE DEF e
  <2>2. Flattened(e, s, 0)
    BY <2>1 DEF Flattened
  <2> QED  BY <2>2
<1>2. \A k \in 1..n : k - 1 \in P => k \in P
  <2> SUFFICES ASSUME NEW k \in 1..n, k - 1 \in P  PROVE k \in P
    OBVIOUS
  <2>1. \E f : Flattened(f, s, k - 1)
    OBVIOUS
  <2>2. k - 1 \in Nat /\ k - 1 + 1 = k
    OBVIOUS
  <2>3. \E f : Flattened(f, s, k)
    BY <2>1, <2>2, FlattenedMore
  <2> QED  BY <2>3
<1>3. n \in P
  <2> HIDE DEF P
  <2> QED  BY <1>1, <1>2, Upward
<1> QED  BY <1>3

LEMMA FlattenIs ==
  ASSUME NEW T, NEW s \in Seq(T)
  PROVE  \E f : Flattened(f, s, Len(s)) /\ FlattenSeq(s) = IF Len(s) = 0 THEN s ELSE f[Len(s)]
<1> DEFINE F == CHOOSE f : f = [i \in 1..Len(s) |-> IF i = 1 THEN s[i] ELSE f[i - 1] \o s[i]]
<1>1. FlattenSeq(s) = IF Len(s) = 0 THEN s ELSE F[Len(s)]
  BY DEF FlattenSeq
<1>2. \E f : f = [i \in 1..Len(s) |-> IF i = 1 THEN s[i] ELSE f[i - 1] \o s[i]]
  <2>1. Len(s) \in Nat
    OBVIOUS
  <2> QED  BY <2>1, FlattenedExists DEF Flattened
<1>3. F = [i \in 1..Len(s) |-> IF i = 1 THEN s[i] ELSE F[i - 1] \o s[i]]
  BY <1>2
<1> HIDE DEF F
<1> QED  BY <1>1, <1>3 DEF Flattened

\* F[k] is what the first k lists of s come to.
Sums(F, s, T) ==
  /\ F \in [0..Len(s) -> Seq(T)] /\ F[0] = <<>>
  /\ \A k \in 1..Len(s) : F[k] = F[k - 1] \o s[k]

LEMMA FlattenSums ==
  ASSUME NEW T, NEW s \in Seq(Seq(T))
  PROVE  \E F : Sums(F, s, T) /\ FlattenSeq(s) = F[Len(s)]
<1> PICK n : n = Len(s)
  OBVIOUS
<1>0. n \in Nat
  OBVIOUS
<1>1. PICK f : Flattened(f, s, Len(s)) /\ FlattenSeq(s) = IF Len(s) = 0 THEN s ELSE f[Len(s)]
  BY FlattenIs
<1> DEFINE F == [k \in 0..n |-> IF k = 0 THEN <<>> ELSE f[k]]
<1>2. \A i \in 1..n : f[i] = IF i = 1 THEN s[i] ELSE f[i - 1] \o s[i]
  BY <1>1 DEF Flattened
<1>3. \A i \in 1..n : s[i] \in Seq(T)
  BY ElementOfSeq
<1>5. F[0] = <<>> /\ DOMAIN F = 0..n /\ F = [k \in 0..n |-> F[k]] /\ \A k \in 1..n : F[k] = f[k]
  BY <1>0
<1>6. FlattenSeq(s) = F[n]
  <2>1. CASE n = 0
    <3>1. s = <<>>
      BY <2>1, EmptySeq
    <3> QED  BY <1>1, <1>5, <2>1, <3>1
  <2>2. CASE n # 0
    <3>1. n \in 1..n
      BY <1>0, <2>2
    <3> QED  BY <1>1, <1>5, <2>2, <3>1
  <2> QED  BY <2>1, <2>2
<1> HIDE DEF F
<1>4. ASSUME NEW k \in 1..n, F[k - 1] \in Seq(T)  PROVE F[k] = F[k - 1] \o s[k] /\ F[k] \in Seq(T)
  <2>0. s[k] \in Seq(T) /\ F[k] = f[k]
    BY <1>3, <1>5
  <2>1. F[k] = F[k - 1] \o s[k]
    <3>1. CASE k = 1
      <4>1. f[k] = s[k] /\ k - 1 = 0
        BY <1>2, <3>1
      <4>3. F[k - 1] = <<>> /\ F[k] = s[k]
        BY ONLY <1>5, <2>0, <4>1
      <4>2. <<>> \o s[k] = s[k]
        BY ONLY <2>0, ConcatEmptySeq
      <4> QED  BY ONLY <4>2, <4>3
    <3>2. CASE k # 1
      <4>1. k - 1 \in 1..n
        BY <1>0, <3>2
      <4>2. F[k - 1] = f[k - 1] /\ f[k] = f[k - 1] \o s[k]
        BY <1>2, <1>5, <4>1, <3>2
      <4> QED  BY ONLY <2>0, <4>2
    <3> QED  BY <3>1, <3>2
  <2>2. F[k - 1] \o s[k] \in Seq(T)
    BY ONLY <1>4, <2>0, ConcatProperties
  <2> QED  BY <2>1, <2>2
<1> DEFINE P == {k \in 0..n : F[k] \in Seq(T)}
<1>7. 0 \in P
  <2>1. 0 \in 0..n /\ <<>> \in Seq(T)
    BY <1>0
  <2> QED  BY <1>5, <2>1
<1>8. \A k \in 1..n : k - 1 \in P => k \in P
  <2> SUFFICES ASSUME NEW k \in 1..n, k - 1 \in P  PROVE k \in P
    OBVIOUS
  <2>1. F[k - 1] \in Seq(T) /\ k \in 0..n
    BY <1>0
  <2> QED  BY <1>4, <2>1
<1>9. \A k \in 0..n : F[k] \in Seq(T)
  <2>1. \A k \in 0..n : k \in P
    <3> HIDE DEF P
    <3> QED  BY <1>0, <1>7, <1>8, Upward
  <2> QED  BY <2>1
<1>10. F \in [0..n -> Seq(T)]
  BY <1>5, <1>9
<1>11. \A k \in 1..n : F[k] = F[k - 1] \o s[k]
  <2> TAKE k \in 1..n
  <2>1. k - 1 \in 0..n
    BY <1>0
  <2> QED  BY <1>4, <1>9, <2>1
<1> QED  BY <1>5, <1>6, <1>10, <1>11 DEF Sums

LEMMA FlattenType ==
  ASSUME NEW T, NEW s \in Seq(Seq(T))
  PROVE  FlattenSeq(s) \in Seq(T)
<1>1. PICK F : Sums(F, s, T) /\ FlattenSeq(s) = F[Len(s)]
  BY FlattenSums
<1>2. Len(s) \in 0..Len(s)
  OBVIOUS
<1> QED  BY <1>1, <1>2 DEF Sums

LEMMA FlattenEmpty == FlattenSeq(<<>>) = <<>>
  BY DEF FlattenSeq

LEMMA FlattenConcat ==
  ASSUME NEW T, NEW s \in Seq(Seq(T)), NEW t \in Seq(Seq(T))
  PROVE  FlattenSeq(s \o t) = FlattenSeq(s) \o FlattenSeq(t)
<1> PICK n, m, st : n = Len(s) /\ m = Len(t) /\ st = s \o t
  OBVIOUS
<1>3. /\ n \in Nat /\ m \in Nat /\ st \in Seq(Seq(T)) /\ Len(st) = n + m
      /\ \A k \in 1..n : st[k] = s[k]
      /\ \A k \in 1..m : st[n + k] = t[k] /\ t[k] \in Seq(T)
  BY ElementOfSeq
<1>1. PICK F : /\ F \in [0..n -> Seq(T)] /\ F[0] = <<>> /\ FlattenSeq(s) = F[n]
               /\ \A k \in 1..n : F[k] = F[k - 1] \o s[k]
  <2>1. \E F : Sums(F, s, T) /\ FlattenSeq(s) = F[Len(s)]
    BY FlattenSums
  <2> QED  BY <2>1 DEF Sums
<1>2. PICK G : /\ G \in [0..m -> Seq(T)] /\ G[0] = <<>> /\ FlattenSeq(t) = G[m]
               /\ \A k \in 1..m : G[k] = G[k - 1] \o t[k]
  <2>1. \E E0 : Sums(E0, t, T) /\ FlattenSeq(t) = E0[Len(t)]
    BY FlattenSums
  <2> QED  BY <2>1 DEF Sums
<1>4. PICK H : /\ H \in [0..(n + m) -> Seq(T)] /\ H[0] = <<>> /\ FlattenSeq(s \o t) = H[n + m]
               /\ \A k \in 1..(n + m) : H[k] = H[k - 1] \o st[k]
  <2>1. \E H : Sums(H, st, T) /\ FlattenSeq(st) = H[Len(st)]
    BY ONLY <1>3, FlattenSums
  <2>2. PICK E0 : Sums(E0, st, T) /\ FlattenSeq(st) = E0[Len(st)]
    BY <2>1
  <2>3. /\ E0 \in [0..(n + m) -> Seq(T)] /\ E0[0] = <<>>
        /\ \A k \in 1..(n + m) : E0[k] = E0[k - 1] \o st[k]
    BY ONLY <1>3, <2>2 DEF Sums
  <2>4. FlattenSeq(s \o t) = E0[n + m]
    BY <1>3, <2>2
  <2> QED  BY <2>3, <2>4
<1> DEFINE P == {k \in 0..n : H[k] = F[k]}
<1>5. 0 \in P
  BY <1>1, <1>3, <1>4
<1>6. \A k \in 1..n : k - 1 \in P => k \in P
  <2> SUFFICES ASSUME NEW k \in 1..n, k - 1 \in P  PROVE k \in P
    OBVIOUS
  <2>1. k \in 1..(n + m) /\ k \in 0..n
    BY <1>3
  <2>2. F[k] = F[k - 1] \o s[k] /\ H[k] = H[k - 1] \o st[k] /\ H[k - 1] = F[k - 1] /\ st[k] = s[k]
    BY <1>1, <1>3, <1>4, <2>1
  <2> QED  BY <2>1, <2>2
<1>7. H[n] = F[n]
  <2>1. \A k \in 0..n : k \in P
    <3> HIDE DEF P
    <3> QED  BY <1>3, <1>5, <1>6, Upward
  <2>2. n \in 0..n
    BY <1>3
  <2> QED  BY <2>1, <2>2
<1> DEFINE Q == {k \in 0..m : H[n + k] = F[n] \o G[k]}
<1>8. F[n] \in Seq(T)
  BY <1>1, <1>3
<1>9. 0 \in Q
  <2>1. n + 0 = n /\ 0 \in 0..m
    BY <1>3
  <2>2. F[n] \o <<>> = F[n]
    BY <1>8
  <2> QED  BY <1>2, <1>7, <2>1, <2>2
<1>10. \A k \in 1..m : k - 1 \in Q => k \in Q
  <2> SUFFICES ASSUME NEW k \in 1..m, k - 1 \in Q  PROVE k \in Q
    OBVIOUS
  <2>1. n + k \in 1..(n + m) /\ n + k - 1 = n + (k - 1) /\ k \in 0..m /\ k - 1 \in 0..m
    BY <1>3
  <2>2. G[k] = G[k - 1] \o t[k] /\ G[k - 1] \in Seq(T)
    BY <1>2, <2>1
  <2>3. H[n + k] = H[n + (k - 1)] \o t[k]
    <3>1. PICK j \in 1..(n + m) : j = n + k
      BY <2>1
    <3>2. H[j] = H[j - 1] \o st[j]
      BY ONLY <1>4
    <3>3. j - 1 = n + (k - 1)
      BY <1>3, <3>1
    <3>4. st[n + k] = t[k]
      BY <1>3
    <3> QED  BY ONLY <3>1, <3>2, <3>3, <3>4
  <2>4. H[n + (k - 1)] = F[n] \o G[k - 1] /\ t[k] \in Seq(T)
    BY <1>3
  <2>6. (F[n] \o G[k - 1]) \o t[k] = F[n] \o (G[k - 1] \o t[k])
    <3>1. F[n] \in Seq(T) /\ G[k - 1] \in Seq(T) /\ t[k] \in Seq(T)
      BY ONLY <1>8, <2>2, <2>4
    <3>2. PICK x, y, z : x = F[n] /\ y = G[k - 1] /\ z = t[k]
      OBVIOUS
    <3>3. x \in Seq(T) /\ y \in Seq(T) /\ z \in Seq(T)
      BY ONLY <3>1, <3>2
    <3>4. (x \o y) \o z = x \o (y \o z)
      BY ONLY <3>3, ConcatAssociative, SMTT(30)
    <3> QED  BY ONLY <3>2, <3>4
  <2>7. H[n + k] = F[n] \o G[k]
    BY ONLY <2>2, <2>3, <2>4, <2>6
  <2> QED  BY <2>1, <2>7
<1>11. H[n + m] = F[n] \o G[m]
  <2>1. \A k \in 0..m : k \in Q
    <3> HIDE DEF Q
    <3> QED  BY <1>3, <1>9, <1>10, Upward
  <2>2. m \in 0..m
    BY <1>3
  <2> QED  BY <2>1, <2>2
<1> QED  BY <1>1, <1>2, <1>4, <1>11

LEMMA FlattenOne ==
  ASSUME NEW T, NEW x \in Seq(T)
  PROVE  FlattenSeq(<<x>>) = x
<1>1. PICK F : Sums(F, <<x>>, T) /\ FlattenSeq(<<x>>) = F[1]
  <2>1. <<x>> \in Seq(Seq(T)) /\ Len(<<x>>) = 1
    OBVIOUS
  <2> QED  BY <2>1, FlattenSums
<1>2. F[0] = <<>> /\ F[1] = F[0] \o x
  <2>1. 1 \in 1..Len(<<x>>) /\ <<x>>[1] = x /\ 1 - 1 = 0
    OBVIOUS
  <2> QED  BY <1>1, <2>1 DEF Sums
<1>3. <<>> \o x = x
  OBVIOUS
<1> QED  BY <1>1, <1>2, <1>3
\* What a list in a flattened one is, before and after it is appended.
LEMMA AppendedIs ==
  ASSUME NEW T, NEW s \in Seq(T), NEW t \in Seq(T), NEW u, u = s \o t
  PROVE  /\ u \in Seq(T) /\ Len(u) = Len(s) + Len(t) /\ Len(s) \in Nat /\ Len(t) \in Nat
         /\ \A k \in 1..Len(s) : k \in 1..Len(u) /\ u[k] = s[k]
         /\ \A k \in 1..Len(t) : Len(s) + k \in 1..Len(u) /\ u[Len(s) + k] = t[k]
         /\ \A k \in 1..Len(u) : \/ k \in 1..Len(s)
                                 \/ k - Len(s) \in 1..Len(t) /\ u[k] = t[k - Len(s)]
OBVIOUS

\* Two lists of lists of the same shape flatten to lists of the same length,
\* and what is related in them is related in these.
LEMMA FlattenTogether ==
  ASSUME NEW S, NEW T, NEW s \in Seq(Seq(S)), NEW t \in Seq(Seq(T)), NEW R,
         Len(s) = Len(t),
         \A i \in 1..Len(s) : Len(s[i]) = Len(t[i]),
         \A i \in 1..Len(s) : \A k \in 1..Len(s[i]) : <<s[i][k], t[i][k]>> \in R
  PROVE  /\ Len(FlattenSeq(s)) = Len(FlattenSeq(t))
         /\ \A j \in 1..Len(FlattenSeq(s)) : <<FlattenSeq(s)[j], FlattenSeq(t)[j]>> \in R
<1> PICK n : n = Len(s)
  OBVIOUS
<1>0. n \in Nat /\ Len(t) = n
  OBVIOUS
<1>1. PICK F : /\ F \in [0..n -> Seq(S)] /\ F[0] = <<>> /\ FlattenSeq(s) = F[n]
               /\ \A k \in 1..n : F[k] = F[k - 1] \o s[k]
  <2>1. \E F : Sums(F, s, S) /\ FlattenSeq(s) = F[Len(s)]
    BY FlattenSums
  <2> QED  BY <2>1 DEF Sums
<1>2. PICK G : /\ G \in [0..n -> Seq(T)] /\ G[0] = <<>> /\ FlattenSeq(t) = G[n]
               /\ \A k \in 1..n : G[k] = G[k - 1] \o t[k]
  <2>1. \E E0 : Sums(E0, t, T) /\ FlattenSeq(t) = E0[Len(t)]
    BY FlattenSums
  <2> QED  BY <1>0, <2>1 DEF Sums
<1> DEFINE P == {k \in 0..n : /\ Len(F[k]) = Len(G[k])
                              /\ \A j \in 1..Len(F[k]) : <<F[k][j], G[k][j]>> \in R}
<1>3. 0 \in P
  <2>1. 0 \in 0..n /\ 1..Len(F[0]) = {} /\ Len(F[0]) = Len(G[0])
    BY <1>0, <1>1, <1>2
  <2> QED  BY <2>1
<1>4. \A k \in 1..n : k - 1 \in P => k \in P
  <2> SUFFICES ASSUME NEW k \in 1..n, k - 1 \in P  PROVE k \in P
    OBVIOUS
  <2>1. PICK a, b, x, y, c, d : a = F[k - 1] /\ b = s[k] /\ x = F[k]
                                /\ c = G[k - 1] /\ d = t[k] /\ y = G[k]
    OBVIOUS
  <2>2. k - 1 \in 0..n /\ k \in 0..n /\ k \in 1..Len(s) /\ k \in 1..Len(t)
    BY <1>0
  <2>3. /\ a \in Seq(S) /\ b \in Seq(S) /\ x = a \o b
        /\ c \in Seq(T) /\ d \in Seq(T) /\ y = c \o d
    <3>1. b \in Seq(S) /\ d \in Seq(T)
      BY <2>1, <2>2, ElementOfSeq
    <3> QED  BY <1>1, <1>2, <2>1, <2>2, <3>1
  <2>4. /\ Len(x) = Len(a) + Len(b) /\ Len(a) \in Nat /\ Len(b) \in Nat
        /\ \A j \in 1..Len(x) : \/ j \in 1..Len(a) /\ x[j] = a[j]
                                \/ j - Len(a) \in 1..Len(b) /\ x[j] = b[j - Len(a)]
    BY ONLY <2>3, AppendedIs
  <2>5. /\ Len(y) = Len(c) + Len(d)
        /\ \A j \in 1..Len(c) : y[j] = c[j]
        /\ \A j \in 1..Len(d) : y[Len(c) + j] = d[j]
    BY ONLY <2>3, AppendedIs
  <2>6. Len(a) = Len(c) /\ \A j \in 1..Len(a) : <<a[j], c[j]>> \in R
    BY <2>1
  <2>7. Len(b) = Len(d) /\ \A j \in 1..Len(b) : <<b[j], d[j]>> \in R
    BY <2>1, <2>2
  <2>8. Len(x) = Len(y)
    BY <2>4, <2>5, <2>6, <2>7
  <2>9. ASSUME NEW j \in 1..Len(x)  PROVE <<x[j], y[j]>> \in R
    <3>1. CASE j \in 1..Len(a) /\ x[j] = a[j]
      BY ONLY <2>5, <2>6, <3>1
    <3>2. CASE j - Len(a) \in 1..Len(b) /\ x[j] = b[j - Len(a)]
      <4>1. PICK l : l = j - Len(a)
        OBVIOUS
      <4>2. l \in 1..Len(b) /\ x[j] = b[l] /\ j = Len(c) + l
        BY <2>4, <2>6, <3>2, <4>1
      <4>3. y[j] = d[l]
        BY ONLY <2>5, <2>7, <4>2
      <4> QED  BY ONLY <2>7, <4>2, <4>3
    <3> QED  BY ONLY <2>4, <3>1, <3>2, j \in 1..Len(x)
  <2> QED  BY <2>1, <2>2, <2>8, <2>9
<1>5. n \in P
  <2>1. \A k \in 0..n : k \in P
    <3> HIDE DEF P
    <3> QED  BY <1>0, <1>3, <1>4, Upward
  <2> QED  BY <1>0, <2>1
<1> QED  BY <1>1, <1>2, <1>5

\* The flattened list has the elements of the lists and no others.
LEMMA FlattenElements ==
  ASSUME NEW T, NEW s \in Seq(Seq(T))
  PROVE  /\ \A j \in 1..Len(FlattenSeq(s)) :
              \E i \in 1..Len(s) : \E k \in 1..Len(s[i]) : FlattenSeq(s)[j] = s[i][k]
         /\ \A i \in 1..Len(s) : \A k \in 1..Len(s[i]) :
              \E j \in 1..Len(FlattenSeq(s)) : FlattenSeq(s)[j] = s[i][k]
<1> PICK n : n = Len(s)
  OBVIOUS
<1>0. n \in Nat
  OBVIOUS
<1>1. PICK F : /\ F \in [0..n -> Seq(T)] /\ F[0] = <<>> /\ FlattenSeq(s) = F[n]
               /\ \A k \in 1..n : F[k] = F[k - 1] \o s[k]
  <2>1. \E F : Sums(F, s, T) /\ FlattenSeq(s) = F[Len(s)]
    BY FlattenSums
  <2> QED  BY <2>1 DEF Sums
<1> DEFINE P == {m \in 0..n :
                   /\ \A j \in 1..Len(F[m]) :
                        \E i \in 1..m : \E k \in 1..Len(s[i]) : F[m][j] = s[i][k]
                   /\ \A i \in 1..m : \A k \in 1..Len(s[i]) :
                        \E j \in 1..Len(F[m]) : F[m][j] = s[i][k]}
<1>3. 0 \in P
  <2>1. 0 \in 0..n /\ 1..Len(F[0]) = {} /\ 1..0 = {}
    BY <1>0, <1>1
  <2> QED  BY <2>1
<1>4. \A m \in 1..n : m - 1 \in P => m \in P
  <2> SUFFICES ASSUME NEW m \in 1..n, m - 1 \in P  PROVE m \in P
    OBVIOUS
  <2>1. PICK a, b, x : a = F[m - 1] /\ b = s[m] /\ x = F[m]
    OBVIOUS
  <2>2. m - 1 \in 0..n /\ m \in 0..n /\ m \in 1..Len(s)
        /\ \A i : i \in 1..m <=> i \in 1..(m - 1) \/ i = m
    BY <1>0
  <2>3. a \in Seq(T) /\ b \in Seq(T) /\ x = a \o b
    <3>1. b \in Seq(T)
      BY <2>1, <2>2, ElementOfSeq
    <3> QED  BY <1>1, <2>1, <2>2, <3>1
  <2>4. /\ \A k \in 1..Len(a) : k \in 1..Len(x) /\ x[k] = a[k]
        /\ \A k \in 1..Len(b) : Len(a) + k \in 1..Len(x) /\ x[Len(a) + k] = b[k]
        /\ \A k \in 1..Len(x) : \/ k \in 1..Len(a)
                                \/ k - Len(a) \in 1..Len(b) /\ x[k] = b[k - Len(a)]
    BY ONLY <2>3, AppendedIs
  <2>5. /\ \A j \in 1..Len(a) : \E i \in 1..(m - 1) : \E k \in 1..Len(s[i]) : a[j] = s[i][k]
        /\ \A i \in 1..(m - 1) : \A k \in 1..Len(s[i]) : \E j \in 1..Len(a) : a[j] = s[i][k]
    BY <2>1
  <2>6. ASSUME NEW j \in 1..Len(x)
        PROVE  \E i \in 1..m : \E k \in 1..Len(s[i]) : x[j] = s[i][k]
    <3>1. CASE j \in 1..Len(a)
      <4>1. \E i \in 1..(m - 1) : \E k \in 1..Len(s[i]) : a[j] = s[i][k]
        BY ONLY <2>5, <3>1
      <4>2. x[j] = a[j]
        BY ONLY <2>4, <3>1
      <4> QED  BY ONLY <2>2, <4>1, <4>2
    <3>2. CASE j - Len(a) \in 1..Len(b) /\ x[j] = b[j - Len(a)]
      <4>1. m \in 1..m
        BY <2>2
      <4> QED  BY ONLY <2>1, <3>2, <4>1
    <3> QED  BY ONLY <2>4, <3>1, <3>2, j \in 1..Len(x)
  <2>7. ASSUME NEW i \in 1..m, NEW k \in 1..Len(s[i])
        PROVE  \E j \in 1..Len(x) : x[j] = s[i][k]
    <3>1. CASE i \in 1..(m - 1)
      <4>1. \E j \in 1..Len(a) : a[j] = s[i][k]
        BY ONLY <2>5, <3>1, k \in 1..Len(s[i])
      <4> QED  BY ONLY <2>4, <4>1
    <3>2. CASE i = m
      BY ONLY <2>1, <2>4, <3>2, k \in 1..Len(s[i])
    <3> QED  BY <2>2, <3>1, <3>2
  <2> QED  BY <2>1, <2>2, <2>6, <2>7
<1>5. n \in P
  <2> HIDE DEF P
  <2>1. \A k \in 0..n : k \in P
    BY <1>0, <1>3, <1>4, Upward
  <2> QED  BY <1>0, <2>1
<1>6. PICK x : x = F[n]
  OBVIOUS
<1>7. /\ \A j \in 1..Len(x) : \E i \in 1..n : \E k \in 1..Len(s[i]) : x[j] = s[i][k]
      /\ \A i \in 1..n : \A k \in 1..Len(s[i]) : \E j \in 1..Len(x) : x[j] = s[i][k]
  BY ONLY <1>5, <1>6
<1>8. x = FlattenSeq(s)
  BY ONLY <1>1, <1>6
<1>9. n = Len(s)
  OBVIOUS
<1> QED  BY ONLY <1>7, <1>8, <1>9
-----------------------------------------------------------------------------
(* Without                                                                 *)

\* f[k] is what is left of the first k checks.
Filtered(f, s, ids, n) ==
  f = [k \in 0..n |-> IF k = 0 THEN <<>>
                      ELSE IF s[k][2] \in ids THEN f[k - 1]
                      ELSE Append(f[k - 1], s[k])]

LEMMA FilteredMore ==
  ASSUME NEW s, NEW ids, NEW n \in Nat, NEW f, Filtered(f, s, ids, n)
  PROVE  \E g : Filtered(g, s, ids, n + 1)
<1> DEFINE next == IF s[n + 1][2] \in ids THEN f[n] ELSE Append(f[n], s[n + 1])
           g == [k \in 0..(n + 1) |-> IF k <= n THEN f[k] ELSE next]
<1>1. ASSUME NEW k \in 0..(n + 1)
      PROVE  g[k] = IF k = 0 THEN <<>>
                    ELSE IF s[k][2] \in ids THEN g[k - 1] ELSE Append(g[k - 1], s[k])
  <2>2. k # 0 => k - 1 \in 0..(n + 1) /\ k - 1 <= n
    OBVIOUS
  <2>3. k # 0 => g[k - 1] = f[k - 1]
    BY <2>2
  <2>4. CASE k <= n
    <3>1. g[k] = f[k] /\ k \in 0..n
      BY <2>4
    <3> HIDE DEF g
    <3> QED  BY <3>1, <2>3 DEF Filtered
  <2>5. CASE ~(k <= n)
    <3>1. k = n + 1 /\ k # 0 /\ k - 1 = n
      BY <2>5
    <3>2. g[k] = next
      BY <2>5
    <3> HIDE DEF g
    <3> QED  BY <2>3, <3>1, <3>2
  <2> QED  BY <2>4, <2>5
<1>2. g = [k \in 0..(n + 1) |-> g[k]]
  OBVIOUS
<1> HIDE DEF g
<1>3. Filtered(g, s, ids, n + 1)
  BY <1>1, <1>2 DEF Filtered
<1> QED  BY <1>3

LEMMA FilteredExists ==
  ASSUME NEW s, NEW ids, NEW n \in Nat
  PROVE  \E f : Filtered(f, s, ids, n)
<1> DEFINE P == {k \in 0..n : \E f : Filtered(f, s, ids, k)}
<1>1. 0 \in P
  <2> DEFINE e == [k \in 0..0 |-> <<>>]
  <2>1. e = [k \in 0..0 |-> e[k]] /\ \A k \in 0..0 : k = 0 /\ e[k] = <<>>
    OBVIOUS
  <2> HIDE DEF e
  <2>2. Filtered(e, s, ids, 0)
    BY <2>1 DEF Filtered
  <2> QED  BY <2>2
<1>2. \A k \in 1..n : k - 1 \in P => k \in P
  <2> SUFFICES ASSUME NEW k \in 1..n, k - 1 \in P  PROVE k \in P
    OBVIOUS
  <2>1. \E f : Filtered(f, s, ids, k - 1)
    OBVIOUS
  <2>2. k - 1 \in Nat /\ k - 1 + 1 = k
    OBVIOUS
  <2>3. \E f : Filtered(f, s, ids, k)
    BY <2>1, <2>2, FilteredMore
  <2> QED  BY <2>3
<1>3. n \in P
  <2> HIDE DEF P
  <2> QED  BY <1>1, <1>2, Upward
<1> QED  BY <1>3

LEMMA WithoutIs ==
  ASSUME NEW s, NEW ids, Len(s) \in Nat
  PROVE  \E f : /\ f[0] = <<>> /\ Without(s, ids) = f[Len(s)]
                /\ \A k \in 1..Len(s) :
                     f[k] = IF s[k][2] \in ids THEN f[k - 1] ELSE Append(f[k - 1], s[k])
<1> DEFINE F == CHOOSE f : f = [k \in 0..Len(s) |->
                                  IF k = 0 THEN <<>>
                                  ELSE IF s[k][2] \in ids THEN f[k - 1]
                                  ELSE Append(f[k - 1], s[k])]
<1>1. Without(s, ids) = F[Len(s)]
  BY DEF Without
<1>2. \E f : f = [k \in 0..Len(s) |-> IF k = 0 THEN <<>>
                                      ELSE IF s[k][2] \in ids THEN f[k - 1]
                                      ELSE Append(f[k - 1], s[k])]
  <2>1. \E f : Filtered(f, s, ids, Len(s))
    BY FilteredExists
  <2> QED  BY <2>1 DEF Filtered
<1>3. F = [k \in 0..Len(s) |-> IF k = 0 THEN <<>>
                               ELSE IF s[k][2] \in ids THEN F[k - 1]
                               ELSE Append(F[k - 1], s[k])]
  BY <1>2
<1> HIDE DEF F
<1>4. F[0] = <<>>
  <2>1. 0 \in 0..Len(s)
    OBVIOUS
  <2> QED  BY <1>3, <2>1
<1>5. ASSUME NEW k \in 1..Len(s)
      PROVE  F[k] = IF s[k][2] \in ids THEN F[k - 1] ELSE Append(F[k - 1], s[k])
  <2>1. k \in 0..Len(s) /\ k # 0
    OBVIOUS
  <2> QED  BY <1>3, <2>1
<1> QED  BY <1>1, <1>4, <1>5

LEMMA WithoutEmpty == ASSUME NEW ids  PROVE Without(<<>>, ids) = <<>>
<1>1. Len(<<>>) = 0
  OBVIOUS
<1> QED  BY <1>1, WithoutIs

LEMMA WithoutAppend ==
  ASSUME NEW T, NEW s \in Seq(T), NEW x \in T, NEW ids
  PROVE  Without(Append(s, x), ids)
           = IF x[2] \in ids THEN Without(s, ids) ELSE Append(Without(s, ids), x)
<1> PICK n, t : n = Len(s) /\ t = Append(s, x)
  OBVIOUS
<1>0. n \in Nat /\ Len(t) = n + 1 /\ t[n + 1] = x /\ \A k \in 1..n : t[k] = s[k]
  OBVIOUS
<1>1. PICK F : /\ F[0] = <<>> /\ Without(s, ids) = F[n]
               /\ \A k \in 1..n :
                    F[k] = IF s[k][2] \in ids THEN F[k - 1] ELSE Append(F[k - 1], s[k])
  BY <1>0, WithoutIs
<1>2. PICK G : /\ G[0] = <<>> /\ Without(t, ids) = G[n + 1]
               /\ \A k \in 1..(n + 1) :
                    G[k] = IF t[k][2] \in ids THEN G[k - 1] ELSE Append(G[k - 1], t[k])
  <2>1. Len(t) \in Nat /\ Len(t) = n + 1
    BY <1>0
  <2> QED  BY ONLY <2>1, WithoutIs
<1> DEFINE P == {k \in 0..n : G[k] = F[k]}
<1>3. 0 \in P
  BY <1>0, <1>1, <1>2
<1>4. \A k \in 1..n : k - 1 \in P => k \in P
  <2> SUFFICES ASSUME NEW k \in 1..n, k - 1 \in P  PROVE k \in P
    OBVIOUS
  <2>1. G[k - 1] = F[k - 1] /\ t[k] = s[k] /\ k \in 1..(n + 1) /\ k \in 0..n
    BY <1>0
  <2>2. F[k] = IF s[k][2] \in ids THEN F[k - 1] ELSE Append(F[k - 1], s[k])
    BY ONLY <1>1, k \in 1..n
  <2>3. G[k] = IF t[k][2] \in ids THEN G[k - 1] ELSE Append(G[k - 1], t[k])
    BY ONLY <1>2, <2>1
  <2>4. G[k] = F[k]
    BY ONLY <2>1, <2>2, <2>3
  <2> QED  BY <2>1, <2>4
<1>5. G[n] = F[n]
  <2> HIDE DEF P
  <2>1. \A k \in 0..n : k \in P
    BY <1>0, <1>3, <1>4, Upward
  <2> QED  BY <1>0, <2>1 DEF P
<1>6. G[n + 1] = IF t[n + 1][2] \in ids THEN G[n] ELSE Append(G[n], t[n + 1])
  <2>1. PICK j \in 1..(n + 1) : j = n + 1
    BY <1>0
  <2>2. G[j] = IF t[j][2] \in ids THEN G[j - 1] ELSE Append(G[j - 1], t[j])
    BY ONLY <1>2
  <2>3. j - 1 = n
    BY <1>0, <2>1
  <2> QED  BY ONLY <2>1, <2>2, <2>3
<1>7. t = Append(s, x)
  OBVIOUS
<1> QED  BY ONLY <1>0, <1>1, <1>2, <1>5, <1>6, <1>7
-----------------------------------------------------------------------------
(* Execution                                                               *)

Prims == [id : Nat, op : STRING, dst : Int, src : Seq(Int)]
Names == STRING \cup {"ldelem", "ldloc", "add", "stelem"}
Instructions == [op : Seq(Names), body : Seq(Prims)]

\* the primitive steps of the instructions c, and their numbers
Bodies(c) == [i \in DOMAIN c |-> c[i].body]
Steps(c) == FlattenSeq(Bodies(c))
Numbers(c) == [i \in DOMAIN c |-> [k \in DOMAIN c[i].body |-> c[i].body[k].id]]

\* the steps with whether each makes its check
Checked(c) == [i \in DOMAIN c |->
                [k \in DOMAIN c[i].body |->
                   <<c[i].body[k], ~Unchecked(c[i].op, c[i].body[k].op)>>]]

Excused(c) ==
  UNION {{p.id : p \in {q \in Range(c[i].body) : Unchecked(c[i].op, q.op)}}
         : i \in DOMAIN c}

\* each step once, in the order of the block
Ordered(g) == \A j, k \in 1..Len(g) : j < k => g[j].id < g[k].id

\* r is what the steps g make of m, one after the other, when those in ids
\* make no checks
StepBut(m, p, ids) == Step(m, p, p.id \notin ids)
Runs(r, m, g, ids) ==
  /\ r[0] = m
  /\ \A k \in 1..Len(g) : r[k] = StepBut(r[k - 1], g[k], ids)

Ran(r, s, n) ==
  r = [k \in 0..n |-> IF k = 0 THEN Input ELSE Step(r[k - 1], s[k][1], s[k][2])]

LEMMA RanMore ==
  ASSUME NEW s, NEW n \in Nat, NEW r, Ran(r, s, n)
  PROVE  \E g : Ran(g, s, n + 1)
<1> DEFINE next == Step(r[n], s[n + 1][1], s[n + 1][2])
           g == [k \in 0..(n + 1) |-> IF k <= n THEN r[k] ELSE next]
<1>1. ASSUME NEW k \in 0..(n + 1)
      PROVE  g[k] = IF k = 0 THEN Input ELSE Step(g[k - 1], s[k][1], s[k][2])
  <2>2. k # 0 => k - 1 \in 0..(n + 1) /\ k - 1 <= n
    OBVIOUS
  <2>3. k # 0 => g[k - 1] = r[k - 1]
    BY <2>2
  <2>4. CASE k <= n
    <3>1. g[k] = r[k] /\ k \in 0..n
      BY <2>4
    <3> HIDE DEF g
    <3> QED  BY <3>1, <2>3 DEF Ran
  <2>5. CASE ~(k <= n)
    <3>1. k = n + 1 /\ k # 0 /\ k - 1 = n
      BY <2>5
    <3>2. g[k] = next
      BY <2>5
    <3> HIDE DEF g
    <3> QED  BY <2>3, <3>1, <3>2
  <2> QED  BY <2>4, <2>5
<1>2. g = [k \in 0..(n + 1) |-> g[k]]
  OBVIOUS
<1> HIDE DEF g
<1>3. Ran(g, s, n + 1)
  BY <1>1, <1>2 DEF Ran
<1> QED  BY <1>3

LEMMA RanExists ==
  ASSUME NEW s, NEW n \in Nat
  PROVE  \E r : Ran(r, s, n)
<1> DEFINE P == {k \in 0..n : \E r : Ran(r, s, k)}
<1>1. 0 \in P
  <2> DEFINE e == [k \in 0..0 |-> Input]
  <2>1. e = [k \in 0..0 |-> e[k]] /\ \A k \in 0..0 : k = 0 /\ e[k] = Input
    OBVIOUS
  <2> HIDE DEF e
  <2>2. Ran(e, s, 0)
    BY <2>1 DEF Ran
  <2> QED  BY <2>2
<1>2. \A k \in 1..n : k - 1 \in P => k \in P
  <2> SUFFICES ASSUME NEW k \in 1..n, k - 1 \in P  PROVE k \in P
    OBVIOUS
  <2>1. \E r : Ran(r, s, k - 1)
    OBVIOUS
  <2>2. k - 1 \in Nat /\ k - 1 + 1 = k
    OBVIOUS
  <2>3. \E r : Ran(r, s, k)
    BY <2>1, <2>2, RanMore
  <2> QED  BY <2>3
<1>3. n \in P
  <2> HIDE DEF P
  <2> QED  BY <1>1, <1>2, Upward
<1> QED  BY <1>3

\* Execute takes the steps of its instructions from Input.
LEMMA ExecuteRan ==
  ASSUME NEW c, NEW s, s = FlattenSeq(Checked(c)), Len(s) \in Nat
  PROVE  \E r : /\ r[0] = Input /\ Execute(c) = r[Len(s)]
                /\ \A k \in 1..Len(s) : r[k] = Step(r[k - 1], s[k][1], s[k][2])
<1> DEFINE F == CHOOSE r : r = [k \in 0..Len(s) |->
                                  IF k = 0 THEN Input ELSE Step(r[k - 1], s[k][1], s[k][2])]
<1>1. Execute(c) = F[Len(s)]
  <2>1. Execute(c) =
          (CHOOSE r : r = [k \in 0..Len(FlattenSeq(Checked(c))) |->
             IF k = 0 THEN Input
             ELSE Step(r[k - 1], FlattenSeq(Checked(c))[k][1], FlattenSeq(Checked(c))[k][2])])
          [Len(FlattenSeq(Checked(c)))]
    BY DEF Execute, Checked
  <2> QED  BY <2>1
<1>2. \E r : r = [k \in 0..Len(s) |->
                    IF k = 0 THEN Input ELSE Step(r[k - 1], s[k][1], s[k][2])]
  <2>1. \E r : Ran(r, s, Len(s))
    BY RanExists
  <2> QED  BY <2>1 DEF Ran
<1>3. F = [k \in 0..Len(s) |-> IF k = 0 THEN Input ELSE Step(F[k - 1], s[k][1], s[k][2])]
  BY <1>2
<1> HIDE DEF F
<1>4. F[0] = Input
  <2>1. 0 \in 0..Len(s)
    OBVIOUS
  <2> QED  BY <1>3, <2>1
<1>5. ASSUME NEW k \in 1..Len(s)  PROVE F[k] = Step(F[k - 1], s[k][1], s[k][2])
  <2>1. k \in 0..Len(s) /\ k # 0
    OBVIOUS
  <2> QED  BY <1>3, <2>1
<1> QED  BY <1>1, <1>4, <1>5
LEMMA InstructionIs ==
  ASSUME NEW c \in Seq(Instructions), NEW i \in 1..Len(c)
  PROVE  /\ i \in DOMAIN c /\ c[i] \in Instructions /\ c[i].op \in Seq(Names)
         /\ c[i].body \in Seq(Prims) /\ DOMAIN c[i].body = 1..Len(c[i].body)
         /\ Len(c[i].body) \in Nat
         /\ \A k \in 1..Len(c[i].body) : c[i].body[k] \in Prims
<1>1. c[i] \in Instructions /\ i \in DOMAIN c
  BY ElementOfSeq
<1>2. PICK b : b = c[i].body
  OBVIOUS
<1>3. b \in Seq(Prims) /\ c[i].op \in Seq(Names)
  BY <1>1, <1>2 DEF Instructions
<1>4. DOMAIN b = 1..Len(b) /\ Len(b) \in Nat /\ \A k \in 1..Len(b) : b[k] \in Prims
  BY ONLY <1>3, ElementOfSeq
<1> QED  BY <1>1, <1>2, <1>3, <1>4

LEMMA BodiesAre ==
  ASSUME NEW c \in Seq(Instructions)
  PROVE  /\ Bodies(c) \in Seq(Seq(Prims)) /\ Len(Bodies(c)) = Len(c)
         /\ \A i \in 1..Len(c) : Bodies(c)[i] = c[i].body
<1>1. DOMAIN c = 1..Len(c) /\ Len(c) \in Nat
  OBVIOUS
<1>2. \A i \in 1..Len(c) : Bodies(c)[i] = c[i].body /\ Bodies(c)[i] \in Seq(Prims)
  BY <1>1, InstructionIs DEF Bodies
<1>3. Bodies(c) = [i \in 1..Len(c) |-> Bodies(c)[i]]
  BY <1>1 DEF Bodies
<1> QED  BY <1>1, <1>2, <1>3

LEMMA NumbersAre ==
  ASSUME NEW c \in Seq(Instructions)
  PROVE  /\ Numbers(c) \in Seq(Seq(Nat)) /\ Len(Numbers(c)) = Len(c)
         /\ \A i \in 1..Len(c) :
              /\ Len(Numbers(c)[i]) = Len(c[i].body)
              /\ \A k \in 1..Len(c[i].body) : Numbers(c)[i][k] = c[i].body[k].id
<1>1. DOMAIN c = 1..Len(c) /\ Len(c) \in Nat
  OBVIOUS
<1>2. ASSUME NEW i \in 1..Len(c)
      PROVE  /\ Numbers(c)[i] \in Seq(Nat) /\ Len(Numbers(c)[i]) = Len(c[i].body)
             /\ \A k \in 1..Len(c[i].body) : Numbers(c)[i][k] = c[i].body[k].id
  <2>1. PICK b, n, l : b = c[i].body /\ n = Len(b) /\ l = Numbers(c)[i]
    OBVIOUS
  <2>2. DOMAIN b = 1..n /\ n \in Nat /\ \A k \in 1..n : b[k] \in Prims
    BY <2>1, InstructionIs
  <2>3. l = [k \in 1..n |-> b[k].id]
    BY <1>1, <2>1, <2>2 DEF Numbers
  <2>4. \A k \in 1..n : b[k].id \in Nat
    BY <2>2 DEF Prims
  <2>5. l \in Seq(Nat) /\ Len(l) = n /\ \A k \in 1..n : l[k] = b[k].id
    BY ONLY <2>2, <2>3, <2>4
  <2> QED  BY <2>1, <2>5
<1>3. Numbers(c) = [i \in 1..Len(c) |-> Numbers(c)[i]]
  BY <1>1 DEF Numbers
<1>4. PICK l, n : l = Numbers(c) /\ n = Len(c)
  OBVIOUS
<1>5. l \in Seq(Seq(Nat)) /\ Len(l) = n
  <2>1. l = [i \in 1..n |-> l[i]] /\ (\A i \in 1..n : l[i] \in Seq(Nat)) /\ n \in Nat
    BY <1>1, <1>2, <1>3, <1>4
  <2> QED  BY ONLY <2>1
<1> QED  BY <1>2, <1>4, <1>5

\* x is p with a flag that says whether it makes its check in an instruction o
Flagged(x, o, p) == \/ x = <<p, TRUE>> /\ ~Unchecked(o, p.op)
                    \/ x = <<p, FALSE>> /\ Unchecked(o, p.op)

LEMMA FlaggedPair ==
  ASSUME NEW o, NEW p, NEW x, x = <<p, ~Unchecked(o, p.op)>>
  PROVE  Flagged(x, o, p)
<1>1. CASE Unchecked(o, p.op)
  <2>1. x = <<p, FALSE>>
    BY <1>1, Zenon
  <2> QED  BY <1>1, <2>1 DEF Flagged
<1>2. CASE ~Unchecked(o, p.op)
  <2>1. x = <<p, TRUE>>
    BY <1>2, Zenon
  <2> QED  BY <1>2, <2>1 DEF Flagged
<1> QED  BY <1>1, <1>2

LEMMA FlaggedIs ==
  ASSUME NEW o, NEW p, NEW x, Flagged(x, o, p)
  PROVE  /\ x[1] = p
         /\ \/ x[2] = TRUE /\ ~Unchecked(o, p.op)
            \/ x[2] = FALSE /\ Unchecked(o, p.op)
<1>1. CASE x = <<p, TRUE>> /\ ~Unchecked(o, p.op)
  <2>1. x[1] = p /\ x[2] = TRUE
    BY ONLY <1>1
  <2> QED  BY ONLY <1>1, <2>1, Zenon
<1>2. CASE x = <<p, FALSE>> /\ Unchecked(o, p.op)
  <2>1. x[1] = p /\ x[2] = FALSE
    BY ONLY <1>2
  <2> QED  BY ONLY <1>2, <2>1, Zenon
<1> QED  BY <1>1, <1>2 DEF Flagged

LEMMA FlaggedStep ==
  ASSUME NEW o, NEW p, NEW x, Flagged(x, o, p)
  PROVE  x[1] = p
<1>1. CASE x = <<p, TRUE>>
  BY ONLY <1>1
<1>2. CASE x = <<p, FALSE>>
  BY ONLY <1>2
<1> QED  BY <1>1, <1>2 DEF Flagged

LEMMA FlaggedIn ==
  ASSUME NEW o, NEW T, NEW p \in T, NEW x, Flagged(x, o, p)
  PROVE  x \in T \X BOOLEAN
<1>1. CASE x = <<p, TRUE>>
  BY ONLY <1>1
<1>2. CASE x = <<p, FALSE>>
  BY ONLY <1>2
<1> QED  BY <1>1, <1>2 DEF Flagged

LEMMA CheckedAre ==
  ASSUME NEW c \in Seq(Instructions)
  PROVE  /\ Checked(c) \in Seq(Seq(Prims \X BOOLEAN)) /\ Len(Checked(c)) = Len(c)
         /\ \A i \in 1..Len(c) :
              /\ Len(Checked(c)[i]) = Len(c[i].body)
              /\ \A k \in 1..Len(c[i].body) : Flagged(Checked(c)[i][k], c[i].op, c[i].body[k])
<1>1. DOMAIN c = 1..Len(c) /\ Len(c) \in Nat
  OBVIOUS
<1>2. ASSUME NEW i \in 1..Len(c)
      PROVE  /\ Checked(c)[i] \in Seq(Prims \X BOOLEAN) /\ Len(Checked(c)[i]) = Len(c[i].body)
             /\ \A k \in 1..Len(c[i].body) : Flagged(Checked(c)[i][k], c[i].op, c[i].body[k])
  <2>1. PICK b, n, l, o : b = c[i].body /\ n = Len(b) /\ l = Checked(c)[i] /\ o = c[i].op
    OBVIOUS
  <2>2. DOMAIN b = 1..n /\ n \in Nat /\ \A k \in 1..n : b[k] \in Prims
    BY <2>1, InstructionIs
  <2>3. l = [k \in 1..n |-> <<b[k], ~Unchecked(o, b[k].op)>>]
    BY <1>1, <2>1, <2>2 DEF Checked
  <2>4. ASSUME NEW k \in 1..n
        PROVE  Flagged(l[k], o, b[k]) /\ l[k] \in Prims \X BOOLEAN
    <3>1. l[k] = <<b[k], ~Unchecked(o, b[k].op)>>
      BY <2>3, Zenon
    <3>2. Flagged(l[k], o, b[k])
      BY ONLY <3>1, FlaggedPair
    <3>3. b[k] \in Prims
      BY <2>2
    <3>4. l[k] \in Prims \X BOOLEAN
      BY ONLY <3>2, <3>3, FlaggedIn
    <3> QED  BY <3>2, <3>4
  <2>5. l = [k \in 1..n |-> l[k]] /\ Len(l) = n
    <3>1. l = [k \in 1..n |-> l[k]]
      BY <2>3, Zenon
    <3> QED  BY <2>2, <3>1
  <2>6. l \in Seq(Prims \X BOOLEAN)
    BY ONLY <2>2, <2>4, <2>5
  <2> QED  BY <2>1, <2>4, <2>5, <2>6
<1>3. Checked(c) = [i \in 1..Len(c) |-> Checked(c)[i]]
  BY <1>1 DEF Checked
<1>4. PICK l, n : l = Checked(c) /\ n = Len(c)
  OBVIOUS
<1>5. l \in Seq(Seq(Prims \X BOOLEAN)) /\ Len(l) = n
  <2>1. /\ l = [i \in 1..n |-> l[i]] /\ n \in Nat
        /\ \A i \in 1..n : l[i] \in Seq(Prims \X BOOLEAN)
    BY <1>1, <1>2, <1>3, <1>4
  <2> QED  BY ONLY <2>1
<1> QED  BY <1>2, <1>4, <1>5

LEMMA StepsAre ==
  ASSUME NEW c \in Seq(Instructions)
  PROVE  /\ Steps(c) \in Seq(Prims) /\ Len(Steps(c)) \in Nat
         /\ FlattenSeq(Numbers(c)) \in Seq(Nat)
         /\ Len(FlattenSeq(Numbers(c))) = Len(Steps(c))
         /\ \A j \in 1..Len(Steps(c)) : FlattenSeq(Numbers(c))[j] = Steps(c)[j].id
         /\ FlattenSeq(Checked(c)) \in Seq(Prims \X BOOLEAN)
         /\ Len(FlattenSeq(Checked(c))) = Len(Steps(c))
         /\ \A j \in 1..Len(Steps(c)) : FlattenSeq(Checked(c))[j][1] = Steps(c)[j]
<1>1. PICK b, l, s : b = Bodies(c) /\ l = Numbers(c) /\ s = Checked(c)
  OBVIOUS
<1>2. /\ b \in Seq(Seq(Prims)) /\ Len(b) = Len(c) /\ Len(c) \in Nat
      /\ \A i \in 1..Len(b) : b[i] = c[i].body /\ \A k \in 1..Len(b[i]) : b[i][k] \in Prims
  BY <1>1, BodiesAre, InstructionIs
<1>3. /\ l \in Seq(Seq(Nat)) /\ Len(b) = Len(l)
      /\ \A i \in 1..Len(b) : /\ Len(b[i]) = Len(l[i])
                              /\ \A k \in 1..Len(b[i]) : l[i][k] = b[i][k].id
  <2>1. /\ l \in Seq(Seq(Nat)) /\ Len(l) = Len(c)
        /\ \A i \in 1..Len(c) : /\ Len(l[i]) = Len(c[i].body)
                                /\ \A k \in 1..Len(c[i].body) : l[i][k] = c[i].body[k].id
    BY <1>1, NumbersAre
  <2> QED  BY ONLY <1>2, <2>1
<1>4. /\ s \in Seq(Seq(Prims \X BOOLEAN)) /\ Len(b) = Len(s)
      /\ \A i \in 1..Len(b) : /\ Len(b[i]) = Len(s[i])
                              /\ \A k \in 1..Len(b[i]) : s[i][k][1] = b[i][k]
                              /\ \A k \in 1..Len(b[i]) : s[i][k] \in Prims \X BOOLEAN
  <2>1. /\ s \in Seq(Seq(Prims \X BOOLEAN)) /\ Len(b) = Len(s)
        /\ \A i \in 1..Len(b) : /\ Len(b[i]) = Len(s[i])
                                /\ \A k \in 1..Len(b[i]) : Flagged(s[i][k], c[i].op, b[i][k])
    <3>1. /\ s \in Seq(Seq(Prims \X BOOLEAN)) /\ Len(s) = Len(c)
          /\ \A i \in 1..Len(c) :
               /\ Len(s[i]) = Len(c[i].body)
               /\ \A k \in 1..Len(c[i].body) : Flagged(s[i][k], c[i].op, c[i].body[k])
      BY <1>1, CheckedAre
    <3> QED  BY ONLY <1>2, <3>1
  <2>2. ASSUME NEW i \in 1..Len(b), NEW k \in 1..Len(b[i])
        PROVE  s[i][k][1] = b[i][k] /\ s[i][k] \in Prims \X BOOLEAN
    <3>1. PICK x, p : x = s[i][k] /\ p = b[i][k]
      OBVIOUS
    <3>2. Flagged(x, c[i].op, p) /\ p \in Prims
      BY <1>2, <2>1, <3>1
    <3>3. x[1] = p
      BY ONLY <3>2, FlaggedStep
    <3>4. x \in Prims \X BOOLEAN
      BY ONLY <3>2, FlaggedIn
    <3> QED  BY <3>1, <3>3, <3>4
  <2> QED  BY <2>1, <2>2
<1>5. FlattenSeq(b) \in Seq(Prims) /\ FlattenSeq(l) \in Seq(Nat)
      /\ FlattenSeq(s) \in Seq(Prims \X BOOLEAN)
  BY <1>2, <1>3, <1>4, FlattenType
<1>6. /\ Len(FlattenSeq(l)) = Len(FlattenSeq(b))
      /\ \A j \in 1..Len(FlattenSeq(b)) : FlattenSeq(l)[j] = FlattenSeq(b)[j].id
  <2> DEFINE R == {<<p, p.id>> : p \in Prims}
  <2>1. \A i \in 1..Len(b) : \A k \in 1..Len(b[i]) : <<b[i][k], l[i][k]>> \in R
    BY <1>2, <1>3
  <2>2. \A x, y : <<x, y>> \in R => y = x.id
    OBVIOUS
  <2> HIDE DEF R
  <2>3. /\ Len(FlattenSeq(b)) = Len(FlattenSeq(l))
        /\ \A j \in 1..Len(FlattenSeq(b)) : <<FlattenSeq(b)[j], FlattenSeq(l)[j]>> \in R
    BY <1>2, <1>3, <2>1, FlattenTogether
  <2> QED  BY <2>2, <2>3
<1>7. /\ Len(FlattenSeq(s)) = Len(FlattenSeq(b))
      /\ \A j \in 1..Len(FlattenSeq(b)) : FlattenSeq(s)[j][1] = FlattenSeq(b)[j]
  <2> DEFINE R == {<<x[1], x>> : x \in Prims \X BOOLEAN}
  <2>1. \A i \in 1..Len(b) : \A k \in 1..Len(b[i]) : <<b[i][k], s[i][k]>> \in R
    BY <1>2, <1>4
  <2>2. \A x, y : <<x, y>> \in R => y[1] = x
    OBVIOUS
  <2> HIDE DEF R
  <2>3. /\ Len(FlattenSeq(b)) = Len(FlattenSeq(s))
        /\ \A j \in 1..Len(FlattenSeq(b)) : <<FlattenSeq(b)[j], FlattenSeq(s)[j]>> \in R
    BY <1>2, <1>4, <2>1, FlattenTogether
  <2> QED  BY <2>2, <2>3
<1>8. Len(FlattenSeq(b)) \in Nat
  <2>1. PICK f : f = FlattenSeq(b)
    OBVIOUS
  <2> QED  BY <1>5, <2>1
<1> QED  BY <1>1, <1>5, <1>6, <1>7, <1>8 DEF Steps
\* The checks that are left out are those of the steps in Excused.
LEMMA ExecuteRuns ==
  ASSUME NEW c \in Seq(Instructions), Ordered(Steps(c))
  PROVE  \E r : Runs(r, Input, Steps(c), Excused(c)) /\ Execute(c) = r[Len(Steps(c))]
<1> PICK g, s : g = Steps(c) /\ s = FlattenSeq(Checked(c))
  OBVIOUS
<1>1. /\ g \in Seq(Prims) /\ Len(g) \in Nat /\ Len(s) = Len(g)
      /\ \A j \in 1..Len(g) : s[j][1] = g[j]
  BY StepsAre
<1>9. \A j \in 1..Len(g) : g[j].id \in Nat
  <2>1. \A j \in 1..Len(g) : g[j] \in Prims
    BY <1>1, ElementOfSeq
  <2> QED  BY <2>1 DEF Prims
<1>2. PICK r : /\ r[0] = Input /\ Execute(c) = r[Len(g)]
               /\ \A k \in 1..Len(g) : r[k] = Step(r[k - 1], s[k][1], s[k][2])
  <2>1. Len(s) \in Nat /\ s = FlattenSeq(Checked(c)) /\ Len(s) = Len(g)
    BY <1>1
  <2> QED  BY ONLY <2>1, ExecuteRan
<1>3. /\ \A j \in 1..Len(g) :
           \E i \in 1..Len(c) : \E k \in 1..Len(c[i].body) :
             Flagged(s[j], c[i].op, c[i].body[k])
      /\ \A i \in 1..Len(c) : \A k \in 1..Len(c[i].body) :
           \E j \in 1..Len(g) : Flagged(s[j], c[i].op, c[i].body[k])
  <2>1. PICK l : l = Checked(c)
    OBVIOUS
  <2>2. /\ l \in Seq(Seq(Prims \X BOOLEAN)) /\ Len(l) = Len(c)
        /\ \A i \in 1..Len(c) :
             /\ Len(l[i]) = Len(c[i].body)
             /\ \A k \in 1..Len(c[i].body) : Flagged(l[i][k], c[i].op, c[i].body[k])
    BY <2>1, CheckedAre
  <2>3. /\ \A j \in 1..Len(s) :
             \E i \in 1..Len(l) : \E k \in 1..Len(l[i]) : s[j] = l[i][k]
        /\ \A i \in 1..Len(l) : \A k \in 1..Len(l[i]) :
             \E j \in 1..Len(s) : s[j] = l[i][k]
    <3>1. s = FlattenSeq(l) /\ l \in Seq(Seq(Prims \X BOOLEAN))
      BY <2>1, <2>2
    <3> HIDE <2>2
    <3>2. /\ \A j \in 1..Len(FlattenSeq(l)) :
               \E i \in 1..Len(l) : \E k \in 1..Len(l[i]) : FlattenSeq(l)[j] = l[i][k]
          /\ \A i \in 1..Len(l) : \A k \in 1..Len(l[i]) :
               \E j \in 1..Len(FlattenSeq(l)) : FlattenSeq(l)[j] = l[i][k]
      BY ONLY <3>1, FlattenElements
    <3> QED  BY ONLY <3>1, <3>2
  <2>4. Len(s) = Len(g)
    BY <1>1
  <2>5. ASSUME NEW j \in 1..Len(g)
        PROVE  \E i \in 1..Len(c) : \E k \in 1..Len(c[i].body) :
                 Flagged(s[j], c[i].op, c[i].body[k])
    <3>1. PICK i \in 1..Len(l) : \E k \in 1..Len(l[i]) : s[j] = l[i][k]
      BY <2>3, <2>4
    <3>2. PICK k \in 1..Len(l[i]) : s[j] = l[i][k]
      BY <3>1
    <3>3. i \in 1..Len(c) /\ k \in 1..Len(c[i].body)
      BY <2>2
    <3> QED  BY <2>2, <3>2, <3>3
  <2>6. ASSUME NEW i \in 1..Len(c), NEW k \in 1..Len(c[i].body)
        PROVE  \E j \in 1..Len(g) : Flagged(s[j], c[i].op, c[i].body[k])
    <3>1. i \in 1..Len(l) /\ k \in 1..Len(l[i]) /\ Flagged(l[i][k], c[i].op, c[i].body[k])
      BY <2>2
    <3>2. \E j \in 1..Len(s) : s[j] = l[i][k]
      BY <2>3, <3>1
    <3> QED  BY <2>4, <3>1, <3>2
  <2> QED  BY <2>5, <2>6
<1>4. ASSUME NEW i \in 1..Len(c), NEW k \in 1..Len(c[i].body), Unchecked(c[i].op, c[i].body[k].op)
      PROVE  c[i].body[k].id \in Excused(c)
  <2>1. i \in DOMAIN c /\ c[i].body[k] \in Range(c[i].body)
    BY InstructionIs DEF Range
  <2> QED  BY <1>4, <2>1 DEF Excused
<1>5. ASSUME NEW x \in Excused(c)
      PROVE  \E i \in 1..Len(c) : \E k \in 1..Len(c[i].body) :
               Unchecked(c[i].op, c[i].body[k].op) /\ x = c[i].body[k].id
  <2>1. PICK i \in DOMAIN c : \E p \in Range(c[i].body) : Unchecked(c[i].op, p.op) /\ x = p.id
    BY DEF Excused
  <2>2. PICK p \in Range(c[i].body) : Unchecked(c[i].op, p.op) /\ x = p.id
    BY <2>1
  <2>3. i \in 1..Len(c)
    OBVIOUS
  <2>4. PICK k \in 1..Len(c[i].body) : p = c[i].body[k]
    BY <2>3, InstructionIs DEF Range
  <2> QED  BY <2>2, <2>3, <2>4
<1>7. ASSUME NEW j \in 1..Len(g)  PROVE s[j][2] = (g[j].id \notin Excused(c))
  <2>1. PICK i \in 1..Len(c) : \E k \in 1..Len(c[i].body) : Flagged(s[j], c[i].op, c[i].body[k])
    BY <1>3
  <2>2. PICK k \in 1..Len(c[i].body) : Flagged(s[j], c[i].op, c[i].body[k])
    BY <2>1
  <2>3. g[j] = c[i].body[k]
    <3>1. s[j][1] = c[i].body[k]
      <4>1. PICK x, o, p : x = s[j] /\ o = c[i].op /\ p = c[i].body[k]
        OBVIOUS
      <4>2. Flagged(x, o, p)
        BY <2>2, <4>1
      <4>3. x[1] = p
        BY ONLY <4>2, FlaggedStep
      <4> QED  BY <4>1, <4>3
    <3> QED  BY <1>1, <3>1
  <2>4. CASE s[j][2] = FALSE /\ Unchecked(c[i].op, c[i].body[k].op)
    <3>1. g[j].id \in Excused(c)
      BY <1>4, <2>3, <2>4
    <3> QED  BY <2>4, <3>1
  <2>5. CASE s[j][2] = TRUE /\ ~Unchecked(c[i].op, c[i].body[k].op)
    <3>1. g[j].id \notin Excused(c)
      <4> SUFFICES ASSUME g[j].id \in Excused(c)  PROVE FALSE
        OBVIOUS
      <4>1. PICK h \in 1..Len(c) : \E m \in 1..Len(c[h].body) :
              Unchecked(c[h].op, c[h].body[m].op) /\ g[j].id = c[h].body[m].id
        BY <1>5
      <4>2. PICK m \in 1..Len(c[h].body) :
              Unchecked(c[h].op, c[h].body[m].op) /\ g[j].id = c[h].body[m].id
        BY <4>1
      <4>3. PICK l \in 1..Len(g) : Flagged(s[l], c[h].op, c[h].body[m])
        BY <1>3
      <4>4. g[l] = c[h].body[m] /\ s[l][2] = FALSE
        <5>1. s[l][1] = c[h].body[m]
          <6>1. PICK x, o, p : x = s[l] /\ o = c[h].op /\ p = c[h].body[m]
            OBVIOUS
          <6>2. Flagged(x, o, p)
            BY <4>3, <6>1
          <6>3. x[1] = p
            BY ONLY <6>2, FlaggedStep
          <6> QED  BY <6>1, <6>3
        <5>2. s[l][2] = FALSE
          <6>1. \/ s[l][2] = TRUE /\ ~Unchecked(c[h].op, c[h].body[m].op)
                \/ s[l][2] = FALSE /\ Unchecked(c[h].op, c[h].body[m].op)
            BY ONLY <4>3, FlaggedIs, ZenonT(40)
          <6> QED  BY ONLY <4>2, <6>1, Zenon
        <5> QED  BY <1>1, <5>1, <5>2
      <4>6. \A x, y \in 1..Len(g) : x < y => g[x].id < g[y].id
        BY DEF Ordered
      <4>7. l = j
        <5>1. g[l].id = g[j].id /\ g[l].id \in Nat /\ g[j].id \in Nat
          BY <1>9, <4>2, <4>4
        <5> QED  BY <1>1, <4>6, <5>1
      <4> QED  BY <2>5, <4>4, <4>7
    <3> QED  BY <2>5, <3>1
  <2>6. \/ s[j][2] = TRUE /\ ~Unchecked(c[i].op, c[i].body[k].op)
        \/ s[j][2] = FALSE /\ Unchecked(c[i].op, c[i].body[k].op)
    BY ONLY <2>2, FlaggedIs, ZenonT(40)
  <2> QED  BY <2>4, <2>5, <2>6
<1>6. ASSUME NEW k \in 1..Len(g)  PROVE r[k] = Step(r[k - 1], g[k], g[k].id \notin Excused(c))
  BY <1>1, <1>2, <1>7
<1>8. Runs(r, Input, g, Excused(c))
  BY <1>2, <1>6 DEF Runs, StepBut
<1> QED  BY <1>2, <1>8
-----------------------------------------------------------------------------
(* Lowering                                                                *)

\* instruction p is a copy when a values are stacked, and leaves b
CopyOf(p, a, b) ==
  /\ p.op \in Copies
  /\ \/ p.dst = a + 1 /\ b = a + 1 /\ \E x \in Locals : p.src = <<x>>
     \/ a > 0 /\ p.dst \in Stored /\ b = a - 1 /\ p.src = <<a>>
     \/ a > 0 /\ p.dst = a + 1 /\ b = a + 1 /\ p.src = <<a>>

LEMMA LocalSlot ==
  /\ \A x \in Locals : x \in Int /\ x < 0
  /\ \A x \in Stored : x \in Locals
  BY LocalsAreNegative

\* A copy that does not store to a local pushes.
LEMMA CopyPushes ==
  ASSUME NEW p, NEW a \in Nat, NEW b \in Nat, CopyOf(p, a, b), p.dst > 0
  PROVE  b = a + 1 /\ p.dst = b /\ p.dst \notin Locals
<1>1. PICK d : d = p.dst
  OBVIOUS
<1>2. d \notin Locals
  <2> SUFFICES ASSUME d \in Locals  PROVE FALSE
    OBVIOUS
  <2>1. d \in Int /\ d < 0 /\ d > 0
    BY <1>1, LocalSlot
  <2> QED  BY <2>1
<1>3. d \notin Stored
  BY <1>2, LocalSlot
<1>4. b = a + 1 /\ d = a + 1
  BY <1>1, <1>3 DEF CopyOf
<1> QED  BY <1>1, <1>2, <1>4

\* p takes its operands from the top of the stack
StackOf(p, a, b) ==
  /\ p.op \notin Copies
  /\ Pops(p.op) <= a
  /\ p.dst = a - Pops(p.op) + 1
  /\ p.src = [k \in 1..Pops(p.op) |-> a - Pops(p.op) + k]
  /\ b = a - Pops(p.op) + Pushes(p.op)

\* the steps s, with D[k] values stacked after the k-th
Stacked(s, D) ==
  /\ s \in Seq(Prims)
  /\ D \in [0..Len(s) -> Nat]
  /\ \A k \in 1..Len(s) :
       /\ s[k].id = k
       /\ CopyOf(s[k], D[k - 1], D[k]) \/ StackOf(s[k], D[k - 1], D[k])

LEMMA PopsIs == ASSUME NEW op  PROVE Pops(op) \in 0..3 /\ Pushes(op) \in 0..1
BY DEF Pops, Pushes

LEMMA LoweredIs ==
  ASSUME NEW id \in Nat, NEW op \in STRING, NEW a \in Nat, NEW s \in Lowered(id, op, a)
  PROVE  /\ s[1] \in Prims /\ s[1].id = id /\ s[2] \in Nat
         /\ CopyOf(s[1], a, s[2]) \/ StackOf(s[1], a, s[2])
<1>1. CASE op \in Copies
  <2>1. \/ \E x \in Locals : s = <<Prim(id, op, a + 1, <<x>>), a + 1>>
        \/ a # 0 /\ \E x \in Stored : s = <<Prim(id, op, x, <<a>>), a - 1>>
        \/ a # 0 /\ s = <<Prim(id, op, a + 1, <<a>>), a + 1>>
    BY <1>1 DEF Lowered
  <2>2. CASE \E x \in Locals : s = <<Prim(id, op, a + 1, <<x>>), a + 1>>
    <3>1. PICK x \in Locals : s = <<Prim(id, op, a + 1, <<x>>), a + 1>>
      BY <2>2
    <3>2. x \in Int
      BY LocalsAreNegative
    <3>3. <<x>> \in Seq(Int)
      BY <3>2
    <3> QED  BY <1>1, <3>1, <3>3 DEF Prim, Prims, CopyOf
  <2>3. CASE a # 0 /\ \E x \in Stored : s = <<Prim(id, op, x, <<a>>), a - 1>>
    <3>1. PICK x \in Stored : s = <<Prim(id, op, x, <<a>>), a - 1>>
      BY <2>3
    <3>2. x \in Int
      BY LocalsAreNegative
    <3>3. <<a>> \in Seq(Int) /\ a > 0 /\ a - 1 \in Nat
      BY <2>3
    <3> QED  BY <1>1, <3>1, <3>2, <3>3 DEF Prim, Prims, CopyOf
  <2>4. CASE a # 0 /\ s = <<Prim(id, op, a + 1, <<a>>), a + 1>>
    <3>3. <<a>> \in Seq(Int) /\ a > 0
      BY <2>4
    <3> QED  BY <1>1, <2>4, <3>3 DEF Prim, Prims, CopyOf
  <2> QED  BY <2>1, <2>2, <2>3, <2>4
<1>2. CASE op \notin Copies
  <2>1. PICK n : n = Pops(op)
    OBVIOUS
  <2>2. n \in 0..3 /\ Pushes(op) \in 0..1
    BY <2>1, PopsIs
  <2>3. n <= a /\ s = <<Prim(id, op, a - n + 1, [k \in 1..n |-> a - n + k]), a - n + Pushes(op)>>
    BY <1>2, <2>1, <2>2 DEF Lowered
  <2>4. [k \in 1..n |-> a - n + k] \in Seq(Int)
    BY <2>2
  <2>5. s[1] \in Prims /\ s[1].id = id /\ s[2] \in Nat
    BY <2>2, <2>3, <2>4 DEF Prim, Prims
  <2>6. StackOf(s[1], a, s[2])
    <3>1. s[1].op = op /\ s[1].dst = a - n + 1 /\ s[1].src = [k \in 1..n |-> a - n + k]
          /\ s[2] = a - n + Pushes(op)
      BY <2>3 DEF Prim
    <3> QED  BY <1>2, <2>1, <2>3, <3>1 DEF StackOf
  <2> QED  BY <2>5, <2>6
<1> QED  BY <1>1, <1>2

LoweredUpTo(f, ops, d, n) ==
  f = [k \in 0..n |->
         IF k = 0 THEN {<<<<>>, d>>}
         ELSE UNION {{<<Append(b[1], s[1]), s[2]>> : s \in Lowered(k, ops[k], b[2])}
                     : b \in f[k - 1]}]

LEMMA LoweredUpToMore ==
  ASSUME NEW ops, NEW d, NEW n \in Nat, NEW f, LoweredUpTo(f, ops, d, n)
  PROVE  \E g : LoweredUpTo(g, ops, d, n + 1)
<1> DEFINE next == UNION {{<<Append(b[1], s[1]), s[2]>> : s \in Lowered(n + 1, ops[n + 1], b[2])}
                          : b \in f[n]}
           g == [k \in 0..(n + 1) |-> IF k <= n THEN f[k] ELSE next]
<1>1. ASSUME NEW k \in 0..(n + 1)
      PROVE  g[k] = IF k = 0 THEN {<<<<>>, d>>}
                    ELSE UNION {{<<Append(b[1], s[1]), s[2]>> : s \in Lowered(k, ops[k], b[2])}
                                : b \in g[k - 1]}
  <2>2. k # 0 => k - 1 \in 0..(n + 1) /\ k - 1 <= n
    OBVIOUS
  <2>3. k # 0 => g[k - 1] = f[k - 1]
    BY <2>2
  <2>4. CASE k <= n
    <3>1. g[k] = f[k] /\ k \in 0..n
      BY <2>4
    <3> HIDE DEF g
    <3> QED  BY <3>1, <2>3 DEF LoweredUpTo
  <2>5. CASE ~(k <= n)
    <3>1. k = n + 1 /\ k # 0 /\ k - 1 = n
      BY <2>5
    <3>2. g[k] = next
      BY <2>5
    <3> HIDE DEF g
    <3> QED  BY <2>3, <3>1, <3>2
  <2> QED  BY <2>4, <2>5
<1>2. g = [k \in 0..(n + 1) |-> g[k]]
  OBVIOUS
<1> HIDE DEF g
<1>3. LoweredUpTo(g, ops, d, n + 1)
  BY <1>1, <1>2 DEF LoweredUpTo
<1> QED  BY <1>3

LEMMA LoweredUpToExists ==
  ASSUME NEW ops, NEW d, NEW n \in Nat
  PROVE  \E f : LoweredUpTo(f, ops, d, n)
<1> DEFINE P == {k \in 0..n : \E f : LoweredUpTo(f, ops, d, k)}
<1>1. 0 \in P
  <2> DEFINE e == [k \in 0..0 |-> {<<<<>>, d>>}]
  <2>1. e = [k \in 0..0 |-> e[k]] /\ \A k \in 0..0 : k = 0 /\ e[k] = {<<<<>>, d>>}
    OBVIOUS
  <2> HIDE DEF e
  <2>2. LoweredUpTo(e, ops, d, 0)
    BY <2>1 DEF LoweredUpTo
  <2> QED  BY <2>2
<1>2. \A k \in 1..n : k - 1 \in P => k \in P
  <2> SUFFICES ASSUME NEW k \in 1..n, k - 1 \in P  PROVE k \in P
    OBVIOUS
  <2>1. \E f : LoweredUpTo(f, ops, d, k - 1)
    OBVIOUS
  <2>2. k - 1 \in Nat /\ k - 1 + 1 = k
    OBVIOUS
  <2>3. \E f : LoweredUpTo(f, ops, d, k)
    BY <2>1, <2>2, LoweredUpToMore
  <2> QED  BY <2>3
<1>3. n \in P
  <2> HIDE DEF P
  <2> QED  BY <1>1, <1>2, Upward
<1> QED  BY <1>3

LoweringSteps(f, ops, d) ==
  /\ f[0] = {<<<<>>, d>>}
  /\ \A k \in 1..Len(ops) : \A x \in f[k] :
       \E b \in f[k - 1] : \E s \in Lowered(k, ops[k], b[2]) :
         x = <<Append(b[1], s[1]), s[2]>>

LEMMA LoweringsStep ==
  ASSUME NEW ops \in Seq(STRING), NEW d
  PROVE  \E f : LoweringSteps(f, ops, d) /\ Lowerings(ops, d) = f[Len(ops)]
<1> DEFINE F == CHOOSE f : f = [k \in 0..Len(ops) |->
              IF k = 0 THEN {<<<<>>, d>>}
              ELSE UNION {{<<Append(b[1], s[1]), s[2]>> : s \in Lowered(k, ops[k], b[2])}
                          : b \in f[k - 1]}]
<1>1. Lowerings(ops, d) = F[Len(ops)]
  BY DEF Lowerings
<1>2. LoweredUpTo(F, ops, d, Len(ops))
  <2>1. Len(ops) \in Nat
    OBVIOUS
  <2>2. \E f : LoweredUpTo(f, ops, d, Len(ops))
    BY <2>1, LoweredUpToExists
  <2> QED  BY <2>2 DEF LoweredUpTo
<1> HIDE DEF F
<1>3. F[0] = {<<<<>>, d>>}
  <2>1. 0 \in 0..Len(ops)
    OBVIOUS
  <2> QED  BY <1>2, <2>1 DEF LoweredUpTo
<1>4. ASSUME NEW k \in 1..Len(ops), NEW x \in F[k]
      PROVE  \E b \in F[k - 1] : \E s \in Lowered(k, ops[k], b[2]) :
               x = <<Append(b[1], s[1]), s[2]>>
  <2>1. k \in 0..Len(ops) /\ k # 0
    OBVIOUS
  <2>2. F[k] = UNION {{<<Append(b[1], s[1]), s[2]>> : s \in Lowered(k, ops[k], b[2])}
                      : b \in F[k - 1]}
    BY <1>2, <2>1 DEF LoweredUpTo
  <2> QED  BY <2>2
<1> QED  BY <1>1, <1>3, <1>4 DEF LoweringSteps
\* s with its depths D, and then p
LEMMA StackedMore ==
  ASSUME NEW s, NEW D, Stacked(s, D), NEW p \in Prims, NEW b \in Nat, NEW n, n = Len(s),
         p.id = n + 1, CopyOf(p, D[n], b) \/ StackOf(p, D[n], b)
  PROVE  \E E : /\ Stacked(Append(s, p), E) /\ E[0] = D[0] /\ E[n + 1] = b
                /\ Len(Append(s, p)) = n + 1
<1> DEFINE E == [k \in 0..(n + 1) |-> IF k <= n THEN D[k] ELSE b]
<1>1. PICK t : t = Append(s, p)
  OBVIOUS
<1>2. s \in Seq(Prims) /\ D \in [0..n -> Nat] /\ n \in Nat
  BY DEF Stacked
<1>3. /\ t \in Seq(Prims) /\ Len(t) = n + 1 /\ t[n + 1] = p
      /\ \A k \in 1..n : t[k] = s[k]
  BY <1>1, <1>2
<1>4. /\ E \in [0..(n + 1) -> Nat] /\ E[n + 1] = b
      /\ \A k \in 0..n : E[k] = D[k]
  BY <1>2
<1> HIDE DEF E
<1>5. ASSUME NEW k \in 1..(n + 1)
      PROVE  t[k].id = k /\ (CopyOf(t[k], E[k - 1], E[k]) \/ StackOf(t[k], E[k - 1], E[k]))
  <2>1. CASE k \in 1..n
    <3>1. t[k] = s[k] /\ E[k] = D[k] /\ E[k - 1] = D[k - 1]
      <4>1. k - 1 \in 0..n /\ k \in 0..n
        BY <1>2, <2>1
      <4> QED  BY <1>3, <1>4, <2>1, <4>1
    <3>2. s[k].id = k /\ (CopyOf(s[k], D[k - 1], D[k]) \/ StackOf(s[k], D[k - 1], D[k]))
      BY <2>1 DEF Stacked
    <3> QED  BY <3>1, <3>2
  <2>2. CASE k = n + 1
    <3>1. k - 1 = n /\ n \in 0..n
      BY <1>2, <2>2
    <3>2. t[k] = p /\ E[k] = b /\ E[k - 1] = D[n] /\ p.id = k
      BY <1>3, <1>4, <2>2, <3>1
    <3> QED  BY <3>2
  <2> QED  BY <1>2, <2>1, <2>2
<1>6. Stacked(t, E)
  BY <1>3, <1>4, <1>5 DEF Stacked
<1>7. E[0] = D[0]
  BY <1>2, <1>4
<1> QED  BY <1>1, <1>3, <1>4, <1>6, <1>7

LEMMA LoweringsAre ==
  ASSUME NEW ops \in Seq(STRING), NEW d \in Nat, NEW x \in Lowerings(ops, d)
  PROVE  \E D : Stacked(x[1], D) /\ D[0] = d /\ D[Len(x[1])] = x[2] /\ Len(x[1]) = Len(ops)
<1> PICK n : n = Len(ops)
  OBVIOUS
<1>9. n = Len(ops)
  OBVIOUS
<1>0. n \in Nat /\ \A k \in 1..n : ops[k] \in STRING
  BY ElementOfSeq
<1>1. PICK f : /\ f[0] = {<<<<>>, d>>} /\ Lowerings(ops, d) = f[n]
               /\ \A k \in 1..n : \A y \in f[k] :
                    \E b \in f[k - 1] : \E s \in Lowered(k, ops[k], b[2]) :
                      y = <<Append(b[1], s[1]), s[2]>>
  <2>1. PICK f : LoweringSteps(f, ops, d) /\ Lowerings(ops, d) = f[Len(ops)]
    BY LoweringsStep
  <2> WITNESS f
  <2> QED  BY <2>1 DEF LoweringSteps
<1> DEFINE Good(y, k) == \E D : /\ Stacked(y[1], D) /\ D[0] = d
                                /\ D[k] = y[2] /\ Len(y[1]) = k
           P == {k \in 0..n : \A y \in f[k] : Good(y, k)}
<1>2. 0 \in P
  <2>1. ASSUME NEW y \in f[0]  PROVE Good(y, 0)
    <3>1. y = <<<<>>, d>>
      BY <1>1
    <3> DEFINE e == [k \in 0..0 |-> d]
    <3>2. e \in [0..0 -> Nat] /\ e[0] = d
      OBVIOUS
    <3> HIDE DEF e
    <3>3. y[1] = <<>> /\ y[2] = d
      BY <3>1
    <3>4. <<>> \in Seq(Prims) /\ Len(<<>>) = 0 /\ 1..0 = {}
      OBVIOUS
    <3>5. Stacked(<<>>, e)
      BY <3>2, <3>4 DEF Stacked
    <3> QED  BY <3>2, <3>3, <3>4, <3>5
  <2> QED  BY <1>0, <2>1
<1>3. \A k \in 1..n : k - 1 \in P => k \in P
  <2> SUFFICES ASSUME NEW k \in 1..n, k - 1 \in P  PROVE k \in P
    OBVIOUS
  <2>1. ASSUME NEW y \in f[k]  PROVE Good(y, k)
    <3>1. PICK b \in f[k - 1] : \E s \in Lowered(k, ops[k], b[2]) :
                                  y = <<Append(b[1], s[1]), s[2]>>
      BY <1>1
    <3>2. PICK s \in Lowered(k, ops[k], b[2]) : y = <<Append(b[1], s[1]), s[2]>>
      BY <3>1
    <3>3. Good(b, k - 1)
      OBVIOUS
    <3>4. PICK D : /\ Stacked(b[1], D) /\ D[0] = d
                   /\ D[k - 1] = b[2] /\ Len(b[1]) = k - 1
      BY <3>3
    <3>5. b[2] \in Nat /\ k \in Nat /\ k - 1 + 1 = k
      <4>1. D \in [0..(k - 1) -> Nat] /\ k - 1 \in 0..(k - 1)
        BY <3>4 DEF Stacked
      <4> QED  BY <3>4, <4>1
    <3>6. /\ s[1] \in Prims /\ s[1].id = k /\ s[2] \in Nat
          /\ CopyOf(s[1], b[2], s[2]) \/ StackOf(s[1], b[2], s[2])
      BY <1>0, <3>5, LoweredIs
    <3>7. PICK t, p, l, m : t = b[1] /\ p = s[1] /\ l = s[2] /\ m = k - 1
      OBVIOUS
    <3>8. /\ Stacked(t, D) /\ p \in Prims /\ l \in Nat /\ m = Len(t) /\ p.id = m + 1
          /\ CopyOf(p, D[m], l) \/ StackOf(p, D[m], l)
      BY <3>4, <3>5, <3>6, <3>7
    <3>9. \E E : /\ Stacked(Append(t, p), E) /\ E[0] = D[0] /\ E[m + 1] = l
                 /\ Len(Append(t, p)) = m + 1
      BY ONLY <3>8, StackedMore
    <3>10. y[1] = Append(t, p) /\ y[2] = l /\ m + 1 = k /\ D[0] = d
      BY <3>2, <3>4, <3>5, <3>7
    <3> QED  BY <3>9, <3>10
  <2> QED  BY <1>0, <2>1
<1>4. n \in P
  <2> HIDE DEF P
  <2>1. \A k \in 0..n : k \in P
    BY <1>0, <1>2, <1>3, Upward
  <2> QED  BY <1>0, <2>1
<1> QED  BY <1>1, <1>4
-----------------------------------------------------------------------------
(* The lowered block and the block a pass makes of it, side by side        *)

\* the checks d are those of c but for the steps K
Spared(c, d, K) == \E T : c \in Seq(T) /\ d = Without(c, K)

\* m, of the lowered block, and n, of the transformed one, cannot be told
\* apart when a values are stacked
Alike(m, n, a, K) ==
  /\ DOMAIN m.slots = Int /\ DOMAIN n.slots = Int
  /\ m.writes = n.writes
  /\ \A x \in Locals \cup 1..a : m.slots[x] = n.slots[x]
  /\ Spared(m.checks, n.checks, K)

Shown(op) == op \in Branches \cup Stores

Wrote(f, g, op, x, v) == g = IF Shown(op) THEN f ELSE [f EXCEPT ![x] = v]

LEMMA SparedMore ==
  ASSUME NEW c, NEW d, NEW K, Spared(c, d, K), NEW x
  PROVE  /\ x[2] \in K => Spared(Append(c, x), d, K)
         /\ x[2] \notin K => Spared(Append(c, x), Append(d, x), K)
<1>1. PICK T : c \in Seq(T) /\ d = Without(c, K)
  BY DEF Spared
<1>2. PICK U : U = T \cup {x}
  OBVIOUS
<1>3. c \in Seq(U) /\ x \in U /\ Append(c, x) \in Seq(U)
  <2>1. T \subseteq U /\ x \in U
    BY <1>2
  <2>2. \A i \in 1..Len(c) : c[i] \in T
    BY <1>1, ElementOfSeq
  <2>3. c \in Seq(U)
    BY <1>1, <2>1, <2>2
  <2> QED  BY <2>1, <2>3
<1>4. Without(Append(c, x), K) = IF x[2] \in K THEN Without(c, K) ELSE Append(Without(c, K), x)
  BY ONLY <1>3, WithoutAppend
<1>5. CASE x[2] \in K
  <2>1. Without(Append(c, x), K) = d
    BY <1>1, <1>4, <1>5
  <2> QED  BY <1>3, <1>5, <2>1 DEF Spared
<1>6. CASE x[2] \notin K
  <2>1. Without(Append(c, x), K) = Append(d, x)
    BY <1>1, <1>4, <1>6
  <2> QED  BY <1>3, <1>6, <2>1 DEF Spared
<1> QED  BY <1>5, <1>6

\* Two steps that read the same values, in two machines.
LEMMA TwinSteps ==
  ASSUME NEW m, NEW n, NEW K, NEW p, NEW q,
         p.op = q.op, p.id = q.id,
         \/ p.dst = q.dst
         \/ p.dst \notin Locals /\ q.dst \notin Locals /\ ~Shown(p.op),
         Operands(p, m.slots) = Operands(q, n.slots),
         m.writes = n.writes, Spared(m.checks, n.checks, K),
         NEW m1, m1 = StepBut(m, p, {}), NEW n1, n1 = StepBut(n, q, K)
  PROVE  /\ m1.writes = n1.writes
         /\ Spared(m1.checks, n1.checks, K)
         /\ \E v : /\ Wrote(m.slots, m1.slots, p.op, p.dst, v)
                   /\ Wrote(n.slots, n1.slots, p.op, q.dst, v)
<1>1. PICK v : v = IF p.op \in Copies THEN Operands(p, m.slots)[1]
                   ELSE <<p.op, p.id, Operands(p, m.slots), Len(m.writes)>>
  OBVIOUS
<1>2. PICK x : x = <<p.op, p.id, Operands(p, m.slots), Len(m.writes)>>
  OBVIOUS
<1>3. /\ m1.slots = IF Shown(p.op) THEN m.slots ELSE [m.slots EXCEPT ![p.dst] = v]
      /\ m1.writes = IF Shown(p.op) \/ p.dst \in Locals
                     THEN Append(m.writes, <<p.dst, v>>) ELSE m.writes
      /\ m1.checks = IF p.op \in Raising THEN Append(m.checks, x) ELSE m.checks
  BY <1>1, <1>2, Zenon DEF StepBut, Step, Shown
<1>4. /\ n1.slots = IF Shown(p.op) THEN n.slots ELSE [n.slots EXCEPT ![q.dst] = v]
      /\ n1.writes = IF Shown(p.op) \/ q.dst \in Locals
                     THEN Append(m.writes, <<q.dst, v>>) ELSE m.writes
      /\ n1.checks = IF q.id \notin K /\ p.op \in Raising
                     THEN Append(n.checks, x) ELSE n.checks
  BY <1>1, <1>2, Zenon DEF StepBut, Step, Shown
<1>5. m1.writes = n1.writes
  BY <1>3, <1>4
<1>6. Spared(m1.checks, n1.checks, K)
  <2>1. /\ x[2] \in K => Spared(Append(m.checks, x), n.checks, K)
        /\ x[2] \notin K => Spared(Append(m.checks, x), Append(n.checks, x), K)
    BY SparedMore
  <2>2. x[2] = p.id
    BY <1>2
  <2> QED  BY <1>3, <1>4, <2>1, <2>2
<1>7. Wrote(m.slots, m1.slots, p.op, p.dst, v) /\ Wrote(n.slots, n1.slots, p.op, q.dst, v)
  BY <1>3, <1>4 DEF Wrote
<1> QED  BY <1>5, <1>6, <1>7

LEMMA OperandsSame ==
  ASSUME NEW p, NEW q, NEW f, NEW g, p.op = q.op, DOMAIN p.src = DOMAIN q.src,
         \A k \in DOMAIN p.src : f[p.src[k]] = g[q.src[k]],
         p.op = "add" => {1, 2} \subseteq DOMAIN p.src
  PROVE  Operands(p, f) = Operands(q, g)
<1>1. CASE p.op = "add"
  <2>1. f[p.src[1]] = g[q.src[1]] /\ f[p.src[2]] = g[q.src[2]]
    BY <1>1
  <2> QED  BY <1>1, <2>1 DEF Operands
<1>2. CASE p.op # "add"
  <2>1. [k \in DOMAIN p.src |-> f[p.src[k]]] = [k \in DOMAIN q.src |-> g[q.src[k]]]
    OBVIOUS
  <2> QED  BY <1>2, <2>1 DEF Operands
<1> QED  BY <1>1, <1>2

Fits(p, a, b) == CopyOf(p, a, b) \/ StackOf(p, a, b)

\* A lowered step reads what is stacked or a local, and leaves alone what was
\* stacked before it and still is.
LEMMA FitsReads ==
  ASSUME NEW p \in Prims, NEW a \in Nat, NEW b \in Nat, Fits(p, a, b)
  PROVE  /\ \A k \in DOMAIN p.src : p.src[k] \in Locals \cup 1..a
         /\ p.op = "add" => {1, 2} \subseteq DOMAIN p.src
         /\ p.op \in Copies => 1 \in DOMAIN p.src
         /\ Shown(p.op) => b <= a
         /\ \A x \in Locals \cup 1..b : x # p.dst => x \in Locals \cup 1..a
<1>1. CASE CopyOf(p, a, b)
  <2>1. p.op \in {"ldloc", "ldlocS"}
    BY <1>1 DEF CopyOf, Copies
  <2>2. p.op # "add" /\ ~Shown(p.op)
    BY <2>1 DEF Shown, Branches, Stores
  <2>3. PICK x : x \in Locals \cup 1..a /\ p.src = <<x>>
    BY <1>1 DEF CopyOf
  <2>4. \/ p.dst \in Locals /\ b <= a
        \/ p.dst = a + 1 /\ b = a + 1
    <3>1. p.dst \in Stored => p.dst \in Locals
      BY LocalSlot
    <3> QED  BY <1>1, <3>1 DEF CopyOf
  <2>5. \A y \in Locals \cup 1..b : y # p.dst => y \in Locals \cup 1..a
    BY <2>4
  <2>6. DOMAIN p.src = {1} /\ p.src[1] = x
    BY <2>3
  <2> QED  BY <2>2, <2>3, <2>5, <2>6
<1>2. CASE StackOf(p, a, b)
  <2>1. PICK n : n = Pops(p.op)
    OBVIOUS
  <2>2. n \in 0..3 /\ Pushes(p.op) \in 0..1
    BY <2>1, PopsIs
  <2>3. /\ p.op \notin Copies /\ n <= a /\ p.dst = a - n + 1
        /\ p.src = [k \in 1..n |-> a - n + k] /\ b = a - n + Pushes(p.op)
    BY <1>2, <2>1 DEF StackOf
  <2>4. DOMAIN p.src = 1..n /\ \A k \in 1..n : p.src[k] = a - n + k /\ p.src[k] \in 1..a
    BY <2>2, <2>3
  <2>5. p.op = "add" => n = 2
    BY <2>1 DEF Pops, Binary
  <2>6. p.op = "add" => {1, 2} \subseteq DOMAIN p.src
    BY <2>4, <2>5
  <2>7. Shown(p.op) => b <= a
    BY <2>2, <2>3 DEF Shown, Pushes
  <2>8. \A x \in 1..b : x # p.dst => x \in 1..a
    BY <2>2, <2>3
  <2> QED  BY <2>3, <2>4, <2>6, <2>7, <2>8
<1> QED  BY <1>1, <1>2 DEF Fits

\* What both machines write to one slot they still agree on.
LEMMA WroteBoth ==
  ASSUME NEW f, NEW g, NEW f1, NEW g1, NEW op, NEW x \in Int, NEW v, NEW a \in Nat, NEW b \in Nat,
         DOMAIN f = Int, DOMAIN g = Int,
         \A y \in Locals \cup 1..a : f[y] = g[y],
         Shown(op) => b <= a,
         \A y \in Locals \cup 1..b : y # x => y \in Locals \cup 1..a,
         Wrote(f, f1, op, x, v), Wrote(g, g1, op, x, v)
  PROVE  /\ DOMAIN f1 = Int /\ DOMAIN g1 = Int
         /\ \A y \in Locals \cup 1..b : f1[y] = g1[y]
<1>1. CASE Shown(op)
  <2>1. f1 = f /\ g1 = g
    BY <1>1 DEF Wrote
  <2>2. b <= a
    BY <1>1
  <2>3. \A y \in Locals \cup 1..b : y \in Locals \cup 1..a
    BY <2>2
  <2> QED  BY <2>1, <2>3
<1>2. CASE ~Shown(op)
  <2>1. f1 = [f EXCEPT ![x] = v] /\ g1 = [g EXCEPT ![x] = v]
    BY <1>2 DEF Wrote
  <2>2. DOMAIN f1 = Int /\ DOMAIN g1 = Int
    BY <2>1
  <2>3. f1[x] = v /\ g1[x] = v
    BY <2>1
  <2>4. \A y \in Int : y # x => f1[y] = f[y] /\ g1[y] = g[y]
    BY <2>1
  <2>5. ASSUME NEW y \in Locals \cup 1..b  PROVE f1[y] = g1[y]
    <3>1. y \in Int
      BY LocalsAreNegative
    <3>2. CASE y = x
      BY <2>3, <3>2
    <3>3. CASE y # x
      <4>1. f[y] = g[y]
        BY <3>3
      <4> QED  BY <2>4, <3>1, <3>3, <4>1
    <3> QED  BY <3>2, <3>3
  <2> QED  BY <2>2, <2>5
<1> QED  BY <1>1, <1>2

\* The two machines take a lowered step together.
LEMMA StepAgrees ==
  ASSUME NEW p \in Prims, NEW a \in Nat, NEW b \in Nat, Fits(p, a, b),
         NEW m, NEW n, NEW K, Alike(m, n, a, K),
         NEW m1, m1 = StepBut(m, p, {}), NEW n1, n1 = StepBut(n, p, K)
  PROVE  Alike(m1, n1, b, K)
<1>1. /\ \A k \in DOMAIN p.src : p.src[k] \in Locals \cup 1..a
      /\ p.op = "add" => {1, 2} \subseteq DOMAIN p.src
      /\ Shown(p.op) => b <= a
      /\ \A x \in Locals \cup 1..b : x # p.dst => x \in Locals \cup 1..a
  BY FitsReads
<1>2. /\ DOMAIN m.slots = Int /\ DOMAIN n.slots = Int
      /\ m.writes = n.writes
      /\ \A x \in Locals \cup 1..a : m.slots[x] = n.slots[x]
      /\ Spared(m.checks, n.checks, K)
  BY DEF Alike
<1>3. Operands(p, m.slots) = Operands(p, n.slots)
  <2>1. \A k \in DOMAIN p.src : m.slots[p.src[k]] = n.slots[p.src[k]]
    BY <1>1, <1>2
  <2> QED  BY <1>1, <2>1, OperandsSame
<1>4. /\ m1.writes = n1.writes
      /\ Spared(m1.checks, n1.checks, K)
      /\ \E v : /\ Wrote(m.slots, m1.slots, p.op, p.dst, v)
                /\ Wrote(n.slots, n1.slots, p.op, p.dst, v)
  BY <1>2, <1>3, TwinSteps
<1>5. PICK v : /\ Wrote(m.slots, m1.slots, p.op, p.dst, v)
               /\ Wrote(n.slots, n1.slots, p.op, p.dst, v)
  BY <1>4
<1>6. PICK f, g, f1, g1, x, op : f = m.slots /\ g = n.slots /\ f1 = m1.slots /\ g1 = n1.slots
                                 /\ x = p.dst /\ op = p.op
  OBVIOUS
<1>7. /\ x \in Int /\ DOMAIN f = Int /\ DOMAIN g = Int
      /\ \A y \in Locals \cup 1..a : f[y] = g[y]
      /\ Shown(op) => b <= a
      /\ \A y \in Locals \cup 1..b : y # x => y \in Locals \cup 1..a
      /\ Wrote(f, f1, op, x, v) /\ Wrote(g, g1, op, x, v)
      /\ a \in Nat /\ b \in Nat
  BY <1>1, <1>2, <1>5, <1>6 DEF Prims
<1>8. /\ DOMAIN f1 = Int /\ DOMAIN g1 = Int
      /\ \A y \in Locals \cup 1..b : f1[y] = g1[y]
  BY ONLY <1>7, WroteBoth
<1> QED  BY <1>4, <1>6, <1>8 DEF Alike

\* the steps g lead from m to x
Reaches(m, g, K, x) == \E r : Runs(r, m, g, K) /\ x = r[Len(g)]

LEMMA ReachesNothing ==
  ASSUME NEW m, NEW K, NEW x, Reaches(m, <<>>, K, x)
  PROVE  x = m
<1>1. PICK r : Runs(r, m, <<>>, K) /\ x = r[Len(<<>>)]
  BY DEF Reaches
<1>2. Len(<<>>) = 0
  OBVIOUS
<1> QED  BY <1>1, <1>2 DEF Runs

LEMMA ReachesOne ==
  ASSUME NEW m, NEW p, NEW K, NEW x, Reaches(m, <<p>>, K, x)
  PROVE  x = StepBut(m, p, K)
<1>1. PICK r : Runs(r, m, <<p>>, K) /\ x = r[Len(<<p>>)]
  BY DEF Reaches
<1>2. Len(<<p>>) = 1 /\ 1 \in 1..1 /\ <<p>>[1] = p /\ 1 - 1 = 0
  OBVIOUS
<1>3. r[1] = StepBut(r[1 - 1], <<p>>[1], K) /\ r[0] = m
  BY <1>1, <1>2 DEF Runs
<1> QED  BY <1>1, <1>2, <1>3

LEMMA ReachesSplit ==
  ASSUME NEW T, NEW g \in Seq(T), NEW h \in Seq(T), NEW u, u = g \o h,
         NEW m, NEW K, NEW x, Reaches(m, u, K, x)
  PROVE  \E y : Reaches(m, g, K, y) /\ Reaches(y, h, K, x)
<1>1. PICK r : Runs(r, m, u, K) /\ x = r[Len(u)]
  BY DEF Reaches
<1>2. PICK a, b : a = Len(g) /\ b = Len(h)
  OBVIOUS
<1>3. /\ a \in Nat /\ b \in Nat /\ Len(u) = a + b
      /\ \A k \in 1..a : u[k] = g[k]
      /\ \A k \in 1..b : u[a + k] = h[k]
  BY <1>2
<1>4. /\ r[0] = m
      /\ \A k \in 1..(a + b) : r[k] = StepBut(r[k - 1], u[k], K)
  BY <1>1, <1>3 DEF Runs
<1>5. Runs(r, m, g, K)
  <2>1. \A k \in 1..a : k \in 1..(a + b)
    BY <1>3
  <2> QED  BY <1>2, <1>3, <1>4, <2>1 DEF Runs
<1> DEFINE q == [k \in 0..b |-> r[a + k]]
<1>6. q[0] = r[a] /\ q[b] = r[a + b] /\ \A k \in 0..b : q[k] = r[a + k]
  BY <1>3
<1> HIDE DEF q
<1>7. ASSUME NEW k \in 1..b  PROVE q[k] = StepBut(q[k - 1], h[k], K)
  <2>1. /\ k \in 0..b /\ k - 1 \in 0..b /\ a + (k - 1) = (a + k) - 1
        /\ a + k \in 1..(a + b)
    BY <1>3
  <2>2. q[k] = r[a + k] /\ q[k - 1] = r[a + (k - 1)]
    BY <1>6, <2>1
  <2>3. PICK j : j = a + k
    OBVIOUS
  <2>4. r[j] = StepBut(r[j - 1], u[j], K)
    BY <1>4, <2>1, <2>3
  <2>5. u[j] = h[k]
    BY <1>3, <2>3
  <2>6. r[j - 1] = q[k - 1] /\ r[j] = q[k]
    BY <2>1, <2>2, <2>3
  <2> QED  BY <2>4, <2>5, <2>6
<1>8. Runs(q, r[a], h, K)
  BY <1>2, <1>6, <1>7 DEF Runs
<1>9. x = q[Len(h)] /\ r[a] = r[Len(g)]
  BY <1>1, <1>2, <1>3, <1>6
<1> QED  BY <1>5, <1>8, <1>9 DEF Reaches

\* the steps h do for the transformed block, from a stacked values to b, what
\* the steps g do for the lowered one
Sim(g, a, h, b) ==
  \A K, m, n, m1, n1 :
    Alike(m, n, a, K) /\ Reaches(m, g, {}, m1) /\ Reaches(n, h, K, n1)
      => Alike(m1, n1, b, K)

LEMMA SimNothing == ASSUME NEW a  PROVE Sim(<<>>, a, <<>>, a)
<1> SUFFICES ASSUME NEW K, NEW m, NEW n, NEW m1, NEW n1, Alike(m, n, a, K),
                    Reaches(m, <<>>, {}, m1), Reaches(n, <<>>, K, n1)
             PROVE  Alike(m1, n1, a, K)
  BY DEF Sim
<1>1. m1 = m /\ n1 = n
  BY ReachesNothing
<1> QED  BY <1>1

LEMMA SimSame ==
  ASSUME NEW p \in Prims, NEW a \in Nat, NEW b \in Nat, Fits(p, a, b)
  PROVE  Sim(<<p>>, a, <<p>>, b)
<1> SUFFICES ASSUME NEW K, NEW m, NEW n, NEW m1, NEW n1, Alike(m, n, a, K),
                    Reaches(m, <<p>>, {}, m1), Reaches(n, <<p>>, K, n1)
             PROVE  Alike(m1, n1, b, K)
  BY DEF Sim
<1>1. m1 = StepBut(m, p, {}) /\ n1 = StepBut(n, p, K)
  BY ReachesOne
<1> QED  BY <1>1, StepAgrees

LEMMA SimConcat ==
  ASSUME NEW T, NEW g1 \in Seq(T), NEW g2 \in Seq(T), NEW h1 \in Seq(T), NEW h2 \in Seq(T),
         NEW a, NEW b, NEW c, Sim(g1, a, h1, b), Sim(g2, b, h2, c)
  PROVE  Sim(g1 \o g2, a, h1 \o h2, c)
<1> SUFFICES ASSUME NEW K, NEW m, NEW n, NEW m1, NEW n1, Alike(m, n, a, K),
                    Reaches(m, g1 \o g2, {}, m1), Reaches(n, h1 \o h2, K, n1)
             PROVE  Alike(m1, n1, c, K)
  BY DEF Sim
<1>1. \E y : Reaches(m, g1, {}, y) /\ Reaches(y, g2, {}, m1)
  <2>1. PICK u : u = g1 \o g2
    OBVIOUS
  <2>2. Reaches(m, u, {}, m1)
    BY <2>1
  <2> QED  BY <2>1, <2>2, ReachesSplit
<1>2. \E y : Reaches(n, h1, K, y) /\ Reaches(y, h2, K, n1)
  <2>1. PICK u : u = h1 \o h2
    OBVIOUS
  <2>2. Reaches(n, u, K, n1)
    BY <2>1
  <2> QED  BY <2>1, <2>2, ReachesSplit
<1>3. PICK y : Reaches(m, g1, {}, y) /\ Reaches(y, g2, {}, m1)
  BY <1>1
<1>4. PICK z : Reaches(n, h1, K, z) /\ Reaches(z, h2, K, n1)
  BY <1>2
<1>5. Alike(y, z, b, K)
  BY <1>3, <1>4 DEF Sim
<1> QED  BY <1>3, <1>4, <1>5 DEF Sim

\* q is p but for what it reads
Redirect(q, p, z) == q \in Prims /\ q.id = p.id /\ q.op = p.op /\ q.dst = p.dst /\ q.src = z

LEMMA RedirectIs ==
  ASSUME NEW p \in Prims, NEW z \in Seq(Int)
  PROVE  Redirect([p EXCEPT !.src = z], p, z)
BY DEF Prims, Redirect

LEMMA TwoIs == ASSUME NEW T, NEW x \in T, NEW y \in T  PROVE <<x, y>> = <<x>> \o <<y>>
<1>1. PICK a, b, c : a = <<x>> /\ b = <<y>> /\ c = a \o b
  OBVIOUS
<1>2. a \in Seq(T) /\ b \in Seq(T) /\ Len(a) = 1 /\ Len(b) = 1 /\ a[1] = x /\ b[1] = y
  BY <1>1
<1>3. c = a \o b
  BY <1>1
<1>4. /\ c \in Seq(T) /\ Len(c) = Len(a) + Len(b)
      /\ \A k \in 1..Len(a) : k \in 1..Len(c) /\ c[k] = a[k]
      /\ \A k \in 1..Len(b) : Len(a) + k \in 1..Len(c) /\ c[Len(a) + k] = b[k]
  <2>1. a \in Seq(T) /\ b \in Seq(T) /\ c = a \o b
    BY <1>2, <1>3
  <2> QED  BY ONLY <2>1, AppendedIs
<1>5. Len(c) = 2 /\ c[1] = x /\ c[2] = y
  <2>1. 1 \in 1..Len(a) /\ 1 \in 1..Len(b) /\ Len(a) + 1 = 2
    BY <1>2
  <2> QED  BY <1>2, <1>4, <2>1
<1>6. c = <<x, y>>
  <2>1. c \in Seq(T)
    BY <1>4
  <2> QED  BY ONLY <1>5, <2>1
<1> QED  BY <1>1, <1>6

\* A copy that pushes changes one slot and nothing else.
LEMMA CopyKeeps ==
  ASSUME NEW p \in Prims, NEW a \in Nat, NEW b \in Nat, CopyOf(p, a, b), p.dst > 0,
         NEW m, DOMAIN m.slots = Int, NEW K, NEW m1, m1 = StepBut(m, p, K)
  PROVE  /\ b = a + 1 /\ p.dst = b
         /\ \E x \in Locals \cup 1..a : p.src = <<x>> /\ m1.slots[b] = m.slots[x]
         /\ DOMAIN m1.slots = Int
         /\ \A y \in Int : y # b => m1.slots[y] = m.slots[y]
         /\ m1.writes = m.writes /\ m1.checks = m.checks
<1>1. p.op \in {"ldloc", "ldlocS"}
  BY DEF CopyOf, Copies
<1>2. p.op # "add" /\ p.op \in Copies /\ ~Shown(p.op) /\ p.op \notin Raising
  BY <1>1 DEF Copies, Shown, Branches, Stores, Raising, ElementLoads
<1>3. b = a + 1 /\ p.dst = b /\ p.dst \notin Locals
  BY CopyPushes
<1>4. PICK x : x \in Locals \cup 1..a /\ p.src = <<x>>
  BY DEF CopyOf
<1>5. p.dst \notin Locals
  BY <1>3
<1>6. Operands(p, m.slots)[1] = m.slots[x]
  <2>1. DOMAIN p.src = {1} /\ p.src[1] = x
    BY <1>4
  <2>2. Operands(p, m.slots) = [k \in DOMAIN p.src |-> m.slots[p.src[k]]]
    BY <1>2 DEF Operands
  <2> QED  BY <2>1, <2>2
<1>7. /\ m1.slots = [m.slots EXCEPT ![b] = m.slots[x]]
      /\ m1.writes = m.writes /\ m1.checks = m.checks
  <2>1. /\ m1.slots = IF Shown(p.op) THEN m.slots
                      ELSE [m.slots EXCEPT ![p.dst] = IF p.op \in Copies THEN Operands(p, m.slots)[1]
                                                      ELSE <<p.op, p.id, Operands(p, m.slots), Len(m.writes)>>]
        /\ Shown(p.op) \/ p.dst \in Locals \/ m1.writes = m.writes
        /\ p.op \in Raising \/ m1.checks = m.checks
    BY Zenon DEF StepBut, Step, Shown
  <2> QED  BY <1>2, <1>3, <1>5, <1>6, <2>1
<1>8. DOMAIN m1.slots = Int /\ m1.slots[b] = m.slots[x]
  BY <1>7
<1>9. \A y \in Int : y # b => m1.slots[y] = m.slots[y]
  BY <1>7
<1> QED  BY <1>3, <1>4, <1>7, <1>8, <1>9

LEMMA ReachesFirst ==
  ASSUME NEW T, NEW p \in T, NEW g \in Seq(T), NEW u, u = <<p>> \o g,
         NEW m, NEW K, NEW x, Reaches(m, u, K, x)
  PROVE  \E y : y = StepBut(m, p, K) /\ Reaches(y, g, K, x)
<1>1. PICK l : l = <<p>>
  OBVIOUS
<1>2. l \in Seq(T) /\ u = l \o g
  BY <1>1
<1>3. \E y : Reaches(m, l, K, y) /\ Reaches(y, g, K, x)
  BY <1>2, ReachesSplit
<1>4. PICK y : Reaches(m, l, K, y) /\ Reaches(y, g, K, x)
  BY <1>3
<1>5. y = StepBut(m, p, K)
  BY <1>1, <1>4, ReachesOne
<1> QED  BY <1>4, <1>5

LEMMA ReachesTwo ==
  ASSUME NEW p1 \in Prims, NEW p2 \in Prims, NEW m, NEW K, NEW x,
         Reaches(m, <<p1, p2>>, K, x)
  PROVE  \E y : y = StepBut(m, p1, K) /\ x = StepBut(y, p2, K)
<1>1. PICK g, u : g = <<p2>> /\ u = <<p1, p2>>
  OBVIOUS
<1>2. g \in Seq(Prims) /\ u = <<p1>> \o g
  <2>1. g \in Seq(Prims)
    BY <1>1
  <2>2. <<p1, p2>> = <<p1>> \o <<p2>>
    BY TwoIs
  <2> QED  BY ONLY <1>1, <2>1, <2>2
<1>3. Reaches(m, u, K, x)
  BY <1>1
<1>4. PICK y : y = StepBut(m, p1, K) /\ Reaches(y, g, K, x)
  BY <1>2, <1>3, ReachesFirst
<1> QED  BY <1>1, <1>4, ReachesOne

LEMMA ReachesThree ==
  ASSUME NEW p1 \in Prims, NEW p2 \in Prims, NEW p3 \in Prims, NEW m, NEW K, NEW x,
         Reaches(m, <<p1, p2, p3>>, K, x)
  PROVE  \E y, z : y = StepBut(m, p1, K) /\ z = StepBut(y, p2, K) /\ x = StepBut(z, p3, K)
<1>1. PICK g, u : g = <<p2, p3>> /\ u = <<p1, p2, p3>>
  OBVIOUS
<1>2. g \in Seq(Prims) /\ u = <<p1>> \o g
  BY <1>1
<1>3. Reaches(m, u, K, x)
  BY <1>1
<1>4. PICK y : y = StepBut(m, p1, K) /\ Reaches(y, g, K, x)
  BY <1>2, <1>3, ReachesFirst
<1> QED  BY <1>1, <1>4, ReachesTwo

LEMMA ReachesFour ==
  ASSUME NEW p1 \in Prims, NEW p2 \in Prims, NEW p3 \in Prims, NEW p4 \in Prims,
         NEW m, NEW K, NEW x, Reaches(m, <<p1, p2, p3, p4>>, K, x)
  PROVE  \E y, z, w : /\ y = StepBut(m, p1, K) /\ z = StepBut(y, p2, K)
                      /\ w = StepBut(z, p3, K) /\ x = StepBut(w, p4, K)
<1>1. PICK g, u : g = <<p2, p3, p4>> /\ u = <<p1, p2, p3, p4>>
  OBVIOUS
<1>2. g \in Seq(Prims) /\ u = <<p1>> \o g
  BY <1>1
<1>3. Reaches(m, u, K, x)
  BY <1>1
<1>4. PICK y : y = StepBut(m, p1, K) /\ Reaches(y, g, K, x)
  BY <1>2, <1>3, ReachesFirst
<1> QED  BY <1>1, <1>4, ReachesThree

Foldables == {"add", "sub", "mul", "div", "rem", "and"}

\* A binary operation that reads what its operands are copies of does what
\* the two copies and the operation do.
LEMMA FoldSim ==
  ASSUME NEW p1 \in Prims, NEW p2 \in Prims, NEW p3 \in Prims,
         NEW d0 \in Nat, NEW d1 \in Nat, NEW d2 \in Nat, NEW d3 \in Nat,
         CopyOf(p1, d0, d1), CopyOf(p2, d1, d2), StackOf(p3, d2, d3),
         p3.op \in Foldables, p2.src[1] # p1.dst,
         p3.dst = p1.dst, p3.src = <<p1.dst, p2.dst>>,
         NEW q, Redirect(q, p3, <<p1.src[1], p2.src[1]>>)
  PROVE  Sim(<<p1, p2, p3>>, d0, <<q>>, d3)
<1>1. Pops(p3.op) = 2 /\ Pushes(p3.op) = 1 /\ p3.op \notin Copies /\ ~Shown(p3.op)
  BY DEF Foldables, Pops, Pushes, Copies, Shown, Branches, Stores, Binary, ElementLoads
<1>2. /\ 2 <= d2 /\ p3.dst = d2 - 1 /\ d3 = d2 - 1
      /\ DOMAIN p3.src = {1, 2} /\ p3.src[1] = d2 - 1 /\ p3.src[2] = d2
  <2>1. PICK n : n = Pops(p3.op)
    OBVIOUS
  <2>2. n = 2
    BY <1>1, <2>1
  <2>3. /\ n <= d2 /\ p3.dst = d2 - n + 1 /\ d3 = d2 - n + Pushes(p3.op)
        /\ p3.src = [k \in 1..n |-> d2 - n + k]
    BY <2>1 DEF StackOf
  <2> QED  BY <1>1, <2>2, <2>3
<1>3. p1.dst = d2 - 1 /\ p2.dst = d2
  <2>1. p3.src[1] = p1.dst /\ p3.src[2] = p2.dst
    OBVIOUS
  <2> QED  BY <1>2, <2>1
<1>4. p1.dst > 0 /\ p2.dst > 0
  BY <1>2, <1>3
<1>5. /\ d1 = d0 + 1 /\ d2 = d0 + 2
      /\ \E x \in Locals \cup 1..d0 : p1.src = <<x>>
      /\ \E y \in Locals \cup 1..d1 : p2.src = <<y>>
  BY <1>3, <1>4, LocalsAreNegative DEF CopyOf
<1>6. PICK x \in Locals \cup 1..d0 : p1.src = <<x>>
  BY <1>5
<1>7. PICK y \in Locals \cup 1..d1 : p2.src = <<y>>
  BY <1>5
<1>8. p1.src[1] = x /\ p2.src[1] = y /\ y # d1
  BY <1>3, <1>5, <1>6, <1>7
<1>9. y \in Locals \cup 1..d0
  BY <1>5, <1>8
<1>10. x \in Int /\ y \in Int /\ x # d1 /\ x # d2 /\ y # d1 /\ y # d2
  BY <1>5, <1>9, LocalsAreNegative
<1>11. q \in Prims /\ q.id = p3.id /\ q.op = p3.op /\ q.dst = p3.dst /\ q.src = <<x, y>>
  BY <1>8 DEF Redirect
<1>12. Sim(<<p1, p2, p3>>, d0, <<q>>, d3)
  <2> SUFFICES ASSUME NEW K, NEW m, NEW n, NEW m3, NEW n1, Alike(m, n, d0, K),
                      Reaches(m, <<p1, p2, p3>>, {}, m3), Reaches(n, <<q>>, K, n1)
               PROVE  Alike(m3, n1, d3, K)
    BY DEF Sim
  <2>1. \E a, b : a = StepBut(m, p1, {}) /\ b = StepBut(a, p2, {}) /\ m3 = StepBut(b, p3, {})
    BY ReachesThree
  <2>2. PICK m1, m2 : m1 = StepBut(m, p1, {}) /\ m2 = StepBut(m1, p2, {}) /\ m3 = StepBut(m2, p3, {})
    BY <2>1
  <2>3. n1 = StepBut(n, q, K)
    BY ReachesOne
  <2>4. /\ DOMAIN m.slots = Int /\ DOMAIN n.slots = Int
        /\ m.writes = n.writes
        /\ \A z \in Locals \cup 1..d0 : m.slots[z] = n.slots[z]
        /\ Spared(m.checks, n.checks, K)
    BY DEF Alike
  <2>5. /\ m1.slots[d1] = m.slots[x]
        /\ DOMAIN m1.slots = Int
        /\ \A z \in Int : z # d1 => m1.slots[z] = m.slots[z]
        /\ m1.writes = m.writes /\ m1.checks = m.checks
    <3>1. /\ \E z \in Locals \cup 1..d0 : p1.src = <<z>> /\ m1.slots[d1] = m.slots[z]
          /\ DOMAIN m1.slots = Int
          /\ \A z \in Int : z # d1 => m1.slots[z] = m.slots[z]
          /\ m1.writes = m.writes /\ m1.checks = m.checks
      BY <1>4, <2>2, <2>4, CopyKeeps
    <3> QED  BY <1>6, <3>1
  <2>6. /\ m2.slots[d2] = m1.slots[y]
        /\ DOMAIN m2.slots = Int
        /\ \A z \in Int : z # d2 => m2.slots[z] = m1.slots[z]
        /\ m2.writes = m1.writes /\ m2.checks = m1.checks
    <3>1. /\ \E z \in Locals \cup 1..d1 : p2.src = <<z>> /\ m2.slots[d2] = m1.slots[z]
          /\ DOMAIN m2.slots = Int
          /\ \A z \in Int : z # d2 => m2.slots[z] = m1.slots[z]
          /\ m2.writes = m1.writes /\ m2.checks = m1.checks
      BY <1>4, <2>2, <2>5, CopyKeeps
    <3> QED  BY <1>7, <3>1
  <2>7. m2.slots[d1] = n.slots[x] /\ m2.slots[d2] = n.slots[y]
    <3>1. m.slots[x] = n.slots[x] /\ m.slots[y] = n.slots[y]
      BY <1>9, <2>4
    <3>2. m2.slots[d1] = m1.slots[d1] /\ m1.slots[y] = m.slots[y]
      BY <1>5, <1>10, <2>5, <2>6
    <3> QED  BY <2>5, <2>6, <3>1, <3>2
  <2>8. \A z \in Locals \cup 1..d0 : m2.slots[z] = n.slots[z]
    <3>1. \A z \in Locals \cup 1..d0 : z \in Int /\ z # d1 /\ z # d2
      BY <1>5, LocalsAreNegative
    <3> QED  BY <2>4, <2>5, <2>6, <3>1
  <2>9. Operands(p3, m2.slots) = Operands(q, n.slots)
    <3>1. DOMAIN q.src = {1, 2} /\ q.src[1] = x /\ q.src[2] = y
      BY <1>11
    <3>2. \A k \in DOMAIN p3.src : m2.slots[p3.src[k]] = n.slots[q.src[k]]
      BY <1>2, <1>5, <2>7, <3>1
    <3> QED  BY <1>2, <1>11, <3>1, <3>2, OperandsSame
  <2>10. m2.writes = n.writes /\ Spared(m2.checks, n.checks, K)
    BY <2>4, <2>5, <2>6
  <2>11. /\ m3.writes = n1.writes
         /\ Spared(m3.checks, n1.checks, K)
         /\ \E v : /\ Wrote(m2.slots, m3.slots, p3.op, p3.dst, v)
                   /\ Wrote(n.slots, n1.slots, p3.op, q.dst, v)
    BY <1>11, <2>2, <2>3, <2>9, <2>10, TwinSteps
  <2>12. PICK v : /\ Wrote(m2.slots, m3.slots, p3.op, p3.dst, v)
                  /\ Wrote(n.slots, n1.slots, p3.op, q.dst, v)
    BY <2>11
  <2>13. PICK f, g, f1, g1, o : /\ f = m2.slots /\ g = n.slots /\ f1 = m3.slots /\ g1 = n1.slots
                                /\ o = p3.op
    OBVIOUS
  <2>14. /\ d3 \in Int /\ DOMAIN f = Int /\ DOMAIN g = Int
         /\ \A z \in Locals \cup 1..d0 : f[z] = g[z]
         /\ Shown(o) => d3 <= d0
         /\ \A z \in Locals \cup 1..d3 : z # d3 => z \in Locals \cup 1..d0
         /\ Wrote(f, f1, o, d3, v) /\ Wrote(g, g1, o, d3, v)
    <3>1. \A z \in Locals \cup 1..d3 : z # d3 => z \in Locals \cup 1..d0
      BY <1>2, <1>5
    <3>2. p3.dst = d3 /\ q.dst = d3
      BY <1>2, <1>11
    <3> QED  BY <1>1, <2>4, <2>6, <2>8, <2>12, <2>13, <3>1, <3>2
  <2>15. /\ DOMAIN f1 = Int /\ DOMAIN g1 = Int
         /\ \A z \in Locals \cup 1..d3 : f1[z] = g1[z]
    <3>1. d0 \in Nat /\ d3 \in Nat
      OBVIOUS
    <3> QED  BY ONLY <2>14, <3>1, WroteBoth
  <2> QED  BY <2>11, <2>13, <2>15 DEF Alike
<1> QED  BY <1>12

\* A load that reads what its operand is a copy of does what the copy and the
\* load do.
LEMMA RedirectSim ==
  ASSUME NEW p1 \in Prims, NEW p2 \in Prims,
         NEW d0 \in Nat, NEW d1 \in Nat, NEW d2 \in Nat,
         CopyOf(p1, d0, d1), StackOf(p2, d1, d2),
         p2.op \in {"ldind", "ldfldv"}, p2.src[1] = p1.dst,
         NEW q, Redirect(q, p2, p1.src)
  PROVE  Sim(<<p1, p2>>, d0, <<q>>, d2)
<1>1. Pops(p2.op) = 1 /\ Pushes(p2.op) = 1 /\ p2.op # "add" /\ ~Shown(p2.op)
  BY DEF Pops, Pushes, Shown, Branches, Stores, Binary, ElementLoads
<1>2. 1 <= d1 /\ p2.dst = d1 /\ d2 = d1 /\ DOMAIN p2.src = {1} /\ p2.src[1] = d1
  <2>1. PICK n : n = Pops(p2.op)
    OBVIOUS
  <2>2. n = 1
    BY <1>1, <2>1
  <2>3. /\ n <= d1 /\ p2.dst = d1 - n + 1 /\ d2 = d1 - n + Pushes(p2.op)
        /\ p2.src = [k \in 1..n |-> d1 - n + k]
    BY <2>1 DEF StackOf
  <2> QED  BY <1>1, <2>2, <2>3
<1>3. p1.dst = d1 /\ p1.dst > 0
  BY <1>2
<1>4. d1 = d0 + 1 /\ \E x \in Locals \cup 1..d0 : p1.src = <<x>>
  BY <1>3, LocalsAreNegative DEF CopyOf
<1>5. PICK x \in Locals \cup 1..d0 : p1.src = <<x>>
  BY <1>4
<1>6. q \in Prims /\ q.id = p2.id /\ q.op = p2.op /\ q.dst = p2.dst /\ q.src = <<x>>
  BY <1>5 DEF Redirect
<1>7. Sim(<<p1, p2>>, d0, <<q>>, d2)
  <2> SUFFICES ASSUME NEW K, NEW m, NEW n, NEW m2, NEW n1, Alike(m, n, d0, K),
                      Reaches(m, <<p1, p2>>, {}, m2), Reaches(n, <<q>>, K, n1)
               PROVE  Alike(m2, n1, d2, K)
    BY DEF Sim
  <2>1. \E a : a = StepBut(m, p1, {}) /\ m2 = StepBut(a, p2, {})
    BY ReachesTwo
  <2>2. PICK m1 : m1 = StepBut(m, p1, {}) /\ m2 = StepBut(m1, p2, {})
    BY <2>1
  <2>3. n1 = StepBut(n, q, K)
    BY ReachesOne
  <2>4. /\ DOMAIN m.slots = Int /\ DOMAIN n.slots = Int
        /\ m.writes = n.writes
        /\ \A z \in Locals \cup 1..d0 : m.slots[z] = n.slots[z]
        /\ Spared(m.checks, n.checks, K)
    BY DEF Alike
  <2>5. /\ m1.slots[d1] = m.slots[x]
        /\ DOMAIN m1.slots = Int
        /\ \A z \in Int : z # d1 => m1.slots[z] = m.slots[z]
        /\ m1.writes = m.writes /\ m1.checks = m.checks
    <3>1. /\ \E z \in Locals \cup 1..d0 : p1.src = <<z>> /\ m1.slots[d1] = m.slots[z]
          /\ DOMAIN m1.slots = Int
          /\ \A z \in Int : z # d1 => m1.slots[z] = m.slots[z]
          /\ m1.writes = m.writes /\ m1.checks = m.checks
      BY <1>3, <2>2, <2>4, CopyKeeps
    <3> QED  BY <1>5, <3>1
  <2>8. \A z \in Locals \cup 1..d0 : m1.slots[z] = n.slots[z]
    <3>1. \A z \in Locals \cup 1..d0 : z \in Int /\ z # d1
      BY <1>4, LocalsAreNegative
    <3> QED  BY <2>4, <2>5, <3>1
  <2>9. Operands(p2, m1.slots) = Operands(q, n.slots)
    <3>1. DOMAIN q.src = {1} /\ q.src[1] = x
      BY <1>6
    <3>2. \A k \in DOMAIN p2.src : m1.slots[p2.src[k]] = n.slots[q.src[k]]
      BY <1>2, <2>4, <2>5, <3>1
    <3> QED  BY <1>1, <1>2, <1>6, <3>1, <3>2, OperandsSame
  <2>10. m1.writes = n.writes /\ Spared(m1.checks, n.checks, K)
    BY <2>4, <2>5
  <2>11. /\ m2.writes = n1.writes
         /\ Spared(m2.checks, n1.checks, K)
         /\ \E v : /\ Wrote(m1.slots, m2.slots, p2.op, p2.dst, v)
                   /\ Wrote(n.slots, n1.slots, p2.op, q.dst, v)
    BY <1>6, <2>2, <2>3, <2>9, <2>10, TwinSteps
  <2>12. PICK v : /\ Wrote(m1.slots, m2.slots, p2.op, p2.dst, v)
                  /\ Wrote(n.slots, n1.slots, p2.op, q.dst, v)
    BY <2>11
  <2>13. PICK f, g, f1, g1, o : /\ f = m1.slots /\ g = n.slots /\ f1 = m2.slots /\ g1 = n1.slots
                                /\ o = p2.op
    OBVIOUS
  <2>14. /\ d2 \in Int /\ DOMAIN f = Int /\ DOMAIN g = Int
         /\ \A z \in Locals \cup 1..d0 : f[z] = g[z]
         /\ Shown(o) => d2 <= d0
         /\ \A z \in Locals \cup 1..d2 : z # d2 => z \in Locals \cup 1..d0
         /\ Wrote(f, f1, o, d2, v) /\ Wrote(g, g1, o, d2, v)
    <3>1. \A z \in Locals \cup 1..d2 : z # d2 => z \in Locals \cup 1..d0
      BY <1>2, <1>4
    <3>2. p2.dst = d2 /\ q.dst = d2
      BY <1>2, <1>6
    <3> QED  BY <1>1, <2>4, <2>5, <2>8, <2>12, <2>13, <3>1, <3>2
  <2>15. /\ DOMAIN f1 = Int /\ DOMAIN g1 = Int
         /\ \A z \in Locals \cup 1..d2 : f1[z] = g1[z]
    <3>1. d0 \in Nat /\ d2 \in Nat
      OBVIOUS
    <3> QED  BY ONLY <2>14, <3>1, WroteBoth
  <2> QED  BY <2>11, <2>13, <2>15 DEF Alike
<1> QED  BY <1>7

\* The increment of an element that keeps what it loads and what it adds to
\* itself does what the four steps it is made of do.
LEMMA IncrementSim ==
  ASSUME NEW p1 \in Prims, NEW p2 \in Prims, NEW p3 \in Prims, NEW p4 \in Prims,
         NEW d0 \in Nat, NEW d1 \in Nat, NEW d2 \in Nat, NEW d3 \in Nat, NEW d4 \in Nat,
         StackOf(p1, d0, d1), CopyOf(p2, d1, d2), StackOf(p3, d2, d3), StackOf(p4, d3, d4),
         p1.op = "ldelem", p3.op = "add", p4.op = "stelem",
         p3.src \in {<<p1.dst, p2.dst>>, <<p2.dst, p1.dst>>},
         p2.src[1] # p1.dst,
         NEW q1, q1 \in Prims, q1.id = p1.id, q1.op = p1.op, q1.dst = 0, q1.src = p1.src,
         NEW q2, q2 \in Prims, q2.id = p3.id, q2.op = p3.op, q2.dst = 0,
         q2.src = <<0, p2.src[1]>>,
         NEW q3, q3 \in Prims, q3.id = p4.id, q3.op = p4.op, q3.dst = p4.dst,
         q3.src = [p4.src EXCEPT ![3] = 0]
  PROVE  Sim(<<p1, p2, p3, p4>>, d0, <<q1, q2, q3>>, d4)
<1>1. /\ Pops(p1.op) = 2 /\ Pushes(p1.op) = 1 /\ p1.op \notin Copies /\ p1.op # "add"
      /\ Pops(p3.op) = 2 /\ Pushes(p3.op) = 1
      /\ Pops(p4.op) = 3 /\ Pushes(p4.op) = 0 /\ p4.op # "add" /\ Shown(p4.op)
      /\ ~Shown(p1.op) /\ ~Shown(p3.op)
  BY DEF Pops, Pushes, Copies, Shown, Branches, Stores, Binary, ElementLoads
<1>2. /\ 2 <= d0 /\ p1.dst = d1 /\ d1 = d0 - 1
      /\ DOMAIN p1.src = {1, 2} /\ p1.src[1] = d0 - 1 /\ p1.src[2] = d0
  <2>1. PICK n : n = Pops(p1.op)
    OBVIOUS
  <2>2. n = 2
    BY <1>1, <2>1
  <2>3. /\ n <= d0 /\ p1.dst = d0 - n + 1 /\ d1 = d0 - n + Pushes(p1.op)
        /\ p1.src = [k \in 1..n |-> d0 - n + k]
    BY <2>1 DEF StackOf
  <2> QED  BY <1>1, <2>2, <2>3
<1>3. /\ 2 <= d2 /\ p3.dst = d3 /\ d3 = d2 - 1
      /\ DOMAIN p3.src = {1, 2} /\ p3.src[1] = d2 - 1 /\ p3.src[2] = d2
  <2>1. PICK n : n = Pops(p3.op)
    OBVIOUS
  <2>2. n = 2
    BY <1>1, <2>1
  <2>3. /\ n <= d2 /\ p3.dst = d2 - n + 1 /\ d3 = d2 - n + Pushes(p3.op)
        /\ p3.src = [k \in 1..n |-> d2 - n + k]
    BY <2>1 DEF StackOf
  <2> QED  BY <1>1, <2>2, <2>3
<1>4. /\ 3 <= d3 /\ d4 = d3 - 3
      /\ DOMAIN p4.src = {1, 2, 3} /\ p4.src[1] = d3 - 2 /\ p4.src[2] = d3 - 1 /\ p4.src[3] = d3
  <2>1. PICK n : n = Pops(p4.op)
    OBVIOUS
  <2>2. n = 3
    BY <1>1, <2>1
  <2>3. /\ n <= d3 /\ d4 = d3 - n + Pushes(p4.op)
        /\ p4.src = [k \in 1..n |-> d3 - n + k]
    BY <2>1 DEF StackOf
  <2> QED  BY <1>1, <2>2, <2>3
<1>5. p2.dst > 0
  <2>1. p2.dst = p3.src[1] \/ p2.dst = p3.src[2]
    OBVIOUS
  <2> QED  BY <1>3, <2>1
<1>6. d2 = d1 + 1 /\ p2.dst = d2 /\ \E y \in Locals \cup 1..d1 : p2.src = <<y>>
  <2>1. d2 = d1 + 1 /\ p2.dst = d2
    BY <1>5, CopyPushes
  <2> QED  BY <2>1 DEF CopyOf
<1>7. PICK y \in Locals \cup 1..d1 : p2.src = <<y>>
  BY <1>6
<1>8. p2.src[1] = y /\ y # d1
  BY <1>2, <1>7
<1>9. /\ d3 = d1 /\ y \in Locals \cup 1..d0 /\ y # d1 /\ y # d2 /\ y # 0 /\ y \in Int
      /\ d1 \in 1..d0 /\ d1 # d2 /\ 0 \notin Locals
  BY <1>2, <1>3, <1>6, <1>8, LocalsAreNegative
<1>10. \A z \in Locals \cup 1..(d1 - 1) : /\ z \in Int /\ z # d1 /\ z # d2 /\ z # 0
                                          /\ z \in Locals \cup 1..d0
  <2> TAKE z \in Locals \cup 1..(d1 - 1)
  <2>1. CASE z \in Locals
    <3>1. z \in Int /\ z < 0
      BY <2>1, LocalSlot
    <3> QED  BY <1>2, <1>6, <2>1, <3>1
  <2>2. CASE z \in 1..(d1 - 1)
    BY <1>2, <1>6, <2>2
  <2> QED  BY <2>1, <2>2
<1>11. Sim(<<p1, p2, p3, p4>>, d0, <<q1, q2, q3>>, d4)
  <2> SUFFICES ASSUME NEW K, NEW m, NEW n, NEW m4, NEW n3, Alike(m, n, d0, K),
                      Reaches(m, <<p1, p2, p3, p4>>, {}, m4), Reaches(n, <<q1, q2, q3>>, K, n3)
               PROVE  Alike(m4, n3, d4, K)
    BY DEF Sim
  <2>1. \E a, b, c : /\ a = StepBut(m, p1, {}) /\ b = StepBut(a, p2, {})
                     /\ c = StepBut(b, p3, {}) /\ m4 = StepBut(c, p4, {})
    BY ReachesFour
  <2>2. PICK m1, m2, m3 : /\ m1 = StepBut(m, p1, {}) /\ m2 = StepBut(m1, p2, {})
                          /\ m3 = StepBut(m2, p3, {}) /\ m4 = StepBut(m3, p4, {})
    BY <2>1
  <2>3. \E a, b : a = StepBut(n, q1, K) /\ b = StepBut(a, q2, K) /\ n3 = StepBut(b, q3, K)
    BY ReachesThree
  <2>4. PICK n1, n2 : n1 = StepBut(n, q1, K) /\ n2 = StepBut(n1, q2, K) /\ n3 = StepBut(n2, q3, K)
    BY <2>3
  <2>5. /\ DOMAIN m.slots = Int /\ DOMAIN n.slots = Int
        /\ m.writes = n.writes
        /\ \A z \in Locals \cup 1..d0 : m.slots[z] = n.slots[z]
        /\ Spared(m.checks, n.checks, K)
    BY DEF Alike
  <2>6. Operands(p1, m.slots) = Operands(q1, n.slots)
    <3>1. \A k \in DOMAIN p1.src : m.slots[p1.src[k]] = n.slots[q1.src[k]]
      BY <1>2, <2>5
    <3> QED  BY <1>1, <1>2, <3>1, OperandsSame
  <2>7. /\ m1.writes = n1.writes
        /\ Spared(m1.checks, n1.checks, K)
        /\ \E v : /\ Wrote(m.slots, m1.slots, p1.op, p1.dst, v)
                  /\ Wrote(n.slots, n1.slots, p1.op, q1.dst, v)
    <3>1. p1.dst \notin Locals /\ q1.dst \notin Locals
      BY <1>2, <1>9, LocalsAreNegative
    <3> QED  BY <1>1, <2>2, <2>4, <2>5, <2>6, <3>1, TwinSteps
  <2>8. PICK v : /\ Wrote(m.slots, m1.slots, p1.op, p1.dst, v)
                 /\ Wrote(n.slots, n1.slots, p1.op, q1.dst, v)
    BY <2>7
  <2>9. /\ m1.slots = [m.slots EXCEPT ![d1] = v]
        /\ n1.slots = [n.slots EXCEPT ![0] = v]
    BY <1>1, <1>2, <2>8 DEF Wrote
  <2>10. /\ DOMAIN m1.slots = Int /\ DOMAIN n1.slots = Int
         /\ m1.slots[d1] = v /\ n1.slots[0] = v
         /\ \A z \in Int : z # d1 => m1.slots[z] = m.slots[z]
         /\ \A z \in Int : z # 0 => n1.slots[z] = n.slots[z]
    BY <2>5, <2>9
  <2>11. /\ m2.slots[d2] = m1.slots[y]
         /\ DOMAIN m2.slots = Int
         /\ \A z \in Int : z # d2 => m2.slots[z] = m1.slots[z]
         /\ m2.writes = m1.writes /\ m2.checks = m1.checks
    <3>1. /\ \E z \in Locals \cup 1..d1 : p2.src = <<z>> /\ m2.slots[d2] = m1.slots[z]
          /\ DOMAIN m2.slots = Int
          /\ \A z \in Int : z # d2 => m2.slots[z] = m1.slots[z]
          /\ m2.writes = m1.writes /\ m2.checks = m1.checks
      BY <1>5, <2>2, <2>10, CopyKeeps
    <3> QED  BY <1>7, <3>1
  <2>12. m2.slots[d1] = v /\ m2.slots[d2] = n1.slots[y] /\ n1.slots[0] = v
    <3>1. m2.slots[d1] = m1.slots[d1]
      BY <1>9, <2>11
    <3>2. m1.slots[y] = m.slots[y] /\ n1.slots[y] = n.slots[y] /\ m.slots[y] = n.slots[y]
      BY <1>9, <2>5, <2>10
    <3> QED  BY <2>10, <2>11, <3>1, <3>2
  <2>13. Operands(p3, m2.slots) = Operands(q2, n1.slots)
    <3>1. Operands(p3, m2.slots) = <<{m2.slots[d1], m2.slots[d2]}>>
      BY <1>3, <1>6 DEF Operands
    <3>2. Operands(q2, n1.slots) = <<{n1.slots[0], n1.slots[y]}>>
      <4>1. q2.src[1] = 0 /\ q2.src[2] = y /\ q2.op = "add"
        BY <1>8
      <4> QED  BY <4>1 DEF Operands
    <3> QED  BY <2>12, <3>1, <3>2
  <2>14. /\ m3.writes = n2.writes
         /\ Spared(m3.checks, n2.checks, K)
         /\ \E u : /\ Wrote(m2.slots, m3.slots, p3.op, p3.dst, u)
                   /\ Wrote(n1.slots, n2.slots, p3.op, q2.dst, u)
    <3>1. p3.dst \notin Locals /\ q2.dst \notin Locals
      BY <1>3, <1>9, LocalsAreNegative
    <3>2. m2.writes = n1.writes /\ Spared(m2.checks, n1.checks, K)
      BY <2>7, <2>11
    <3> QED  BY <1>1, <2>2, <2>4, <2>13, <3>1, <3>2, TwinSteps
  <2>15. PICK u : /\ Wrote(m2.slots, m3.slots, p3.op, p3.dst, u)
                  /\ Wrote(n1.slots, n2.slots, p3.op, q2.dst, u)
    BY <2>14
  <2>16. /\ m3.slots = [m2.slots EXCEPT ![d1] = u]
         /\ n2.slots = [n1.slots EXCEPT ![0] = u]
    BY <1>1, <1>3, <1>9, <2>15 DEF Wrote
  <2>17. /\ DOMAIN m3.slots = Int /\ DOMAIN n2.slots = Int
         /\ m3.slots[d1] = u /\ n2.slots[0] = u
         /\ \A z \in Int : z # d1 => m3.slots[z] = m2.slots[z]
         /\ \A z \in Int : z # 0 => n2.slots[z] = n1.slots[z]
    BY <2>10, <2>11, <2>16
  <2>18. \A z \in Locals \cup 1..(d1 - 1) : m3.slots[z] = n2.slots[z]
    BY <1>10, <2>5, <2>10, <2>11, <2>17
  <2>19. Operands(p4, m3.slots) = Operands(q3, n2.slots)
    <3>1. /\ DOMAIN q3.src = {1, 2, 3}
          /\ q3.src[1] = d3 - 2 /\ q3.src[2] = d3 - 1 /\ q3.src[3] = 0
      BY <1>4
    <3>2. d3 - 2 \in 1..(d1 - 1) /\ d3 - 1 \in 1..(d1 - 1)
      BY <1>4, <1>9
    <3>3. \A k \in DOMAIN p4.src : m3.slots[p4.src[k]] = n2.slots[q3.src[k]]
      <4>1. m3.slots[d3 - 2] = n2.slots[d3 - 2] /\ m3.slots[d3 - 1] = n2.slots[d3 - 1]
        BY <2>18, <3>2
      <4> QED  BY <1>4, <1>9, <2>17, <3>1, <4>1
    <3> QED  BY <1>1, <1>4, <3>1, <3>3, OperandsSame
  <2>20. /\ m4.writes = n3.writes
         /\ Spared(m4.checks, n3.checks, K)
         /\ \E w : /\ Wrote(m3.slots, m4.slots, p4.op, p4.dst, w)
                   /\ Wrote(n2.slots, n3.slots, p4.op, q3.dst, w)
    BY <2>2, <2>4, <2>14, <2>19, TwinSteps
  <2>21. m4.slots = m3.slots /\ n3.slots = n2.slots
    BY <1>1, <2>20 DEF Wrote
  <2>22. \A z \in Locals \cup 1..d4 : m4.slots[z] = n3.slots[z]
    <3>1. \A z \in Locals \cup 1..d4 : z \in Locals \cup 1..(d1 - 1)
      BY <1>4, <1>9
    <3> QED  BY <2>18, <2>21, <3>1
  <2> QED  BY <2>17, <2>20, <2>21, <2>22 DEF Alike
<1> QED  BY <1>11
-----------------------------------------------------------------------------
(* The steps of a list of instructions                                     *)

LEMMA Least ==
  ASSUME NEW S, S \subseteq Nat, S # {}
  PROVE  \E r \in S : \A q \in S : r <= q
<1>1. PICK i \in S : \A j \in S : ~(<<j, i>> \in OpToRel(<, Nat))
  BY WFMin, NatLessThanWellFounded
<1>2. ASSUME NEW q \in S  PROVE i <= q
  <2>1. i \in Nat /\ q \in Nat
    OBVIOUS
  <2>2. ~(q < i)
    BY <1>1, <2>1 DEF OpToRel
  <2> QED  BY <2>1, <2>2
<1> QED  BY <1>2

LEMMA StepsEmpty == Steps(<<>>) = <<>>
<1>1. Bodies(<<>>) = <<>>
  BY DEF Bodies
<1> QED  BY <1>1, FlattenEmpty DEF Steps

LEMMA StepsConcat ==
  ASSUME NEW c \in Seq(Instructions), NEW d \in Seq(Instructions)
  PROVE  Steps(c \o d) = Steps(c) \o Steps(d)
<1>1. PICK u : u = c \o d
  OBVIOUS
<1>2. /\ u \in Seq(Instructions) /\ Len(u) = Len(c) + Len(d) /\ Len(c) \in Nat /\ Len(d) \in Nat
      /\ \A k \in 1..Len(c) : k \in 1..Len(u) /\ u[k] = c[k]
      /\ \A k \in 1..Len(d) : Len(c) + k \in 1..Len(u) /\ u[Len(c) + k] = d[k]
      /\ \A k \in 1..Len(u) : \/ k \in 1..Len(c)
                              \/ k - Len(c) \in 1..Len(d) /\ u[k] = d[k - Len(c)]
  BY <1>1, AppendedIs
<1>3. PICK x, y, z : x = Bodies(c) /\ y = Bodies(d) /\ z = Bodies(u)
  OBVIOUS
<1>4. /\ x \in Seq(Seq(Prims)) /\ Len(x) = Len(c) /\ \A i \in 1..Len(c) : x[i] = c[i].body
      /\ y \in Seq(Seq(Prims)) /\ Len(y) = Len(d) /\ \A i \in 1..Len(d) : y[i] = d[i].body
      /\ z \in Seq(Seq(Prims)) /\ Len(z) = Len(u) /\ \A i \in 1..Len(u) : z[i] = u[i].body
  BY <1>2, <1>3, BodiesAre
<1>5. z = x \o y
  <2>1. PICK w, Q : w = x \o y /\ Q = Seq(Prims)
    OBVIOUS
  <2>2. x \in Seq(Q) /\ y \in Seq(Q) /\ z \in Seq(Q) /\ w = x \o y
    BY <1>4, <2>1
  <2>3. /\ w \in Seq(Q) /\ Len(w) = Len(x) + Len(y)
        /\ \A k \in 1..Len(x) : k \in 1..Len(w) /\ w[k] = x[k]
        /\ \A k \in 1..Len(y) : Len(x) + k \in 1..Len(w) /\ w[Len(x) + k] = y[k]
    BY ONLY <2>2, AppendedIs
  <2>4. Len(x) = Len(c) /\ Len(y) = Len(d) /\ Len(z) = Len(u) /\ Len(w) = Len(z) /\ Len(z) \in Nat
    BY <1>2, <1>4, <2>3
  <2>5. ASSUME NEW k \in 1..Len(z)  PROVE w[k] = z[k]
    <3>1. k \in 1..Len(u)
      BY <2>4
    <3>2. CASE k \in 1..Len(c)
      <4>1. w[k] = x[k] /\ x[k] = c[k].body /\ u[k] = c[k] /\ z[k] = u[k].body
        BY <1>2, <1>4, <2>3, <2>4, <3>1, <3>2
      <4> QED  BY <4>1
    <3>3. CASE k - Len(c) \in 1..Len(d) /\ u[k] = d[k - Len(c)]
      <4>1. PICK j : j = k - Len(c)
        OBVIOUS
      <4>2. j \in 1..Len(d) /\ k = Len(x) + j /\ u[k] = d[j]
        BY <1>2, <2>4, <3>3, <4>1
      <4>3. w[k] = y[j] /\ y[j] = d[j].body /\ z[k] = u[k].body
        BY <1>4, <2>3, <2>4, <3>1, <4>2
      <4> QED  BY <4>2, <4>3
    <3> QED  BY <1>2, <3>1, <3>2, <3>3
  <2>6. w = z
    <3>1. w \in Seq(Q) /\ z \in Seq(Q) /\ Len(w) = Len(z) /\ \A k \in 1..Len(w) : w[k] = z[k]
      BY <2>2, <2>3, <2>4, <2>5
    <3> QED  BY ONLY <3>1, SeqEqual
  <2> QED  BY <2>1, <2>6
<1>6. FlattenSeq(x \o y) = FlattenSeq(x) \o FlattenSeq(y)
  BY <1>4, FlattenConcat
<1> QED  BY <1>1, <1>3, <1>5, <1>6 DEF Steps

LEMMA StepsOne ==
  ASSUME NEW i \in Instructions
  PROVE  Steps(<<i>>) = i.body
<1>1. <<i>> \in Seq(Instructions) /\ i.body \in Seq(Prims)
  BY DEF Instructions
<1>2. Bodies(<<i>>) = <<i.body>>
  BY DEF Bodies
<1>3. FlattenSeq(<<i.body>>) = i.body
  BY <1>1, FlattenOne
<1> QED  BY <1>2, <1>3 DEF Steps

\* A merged instruction takes the steps of those it is made of.
LEMMA MergeIs ==
  ASSUME NEW w \in Seq(Instructions), NEW n \in 1..Len(w)
  PROVE  /\ Merge(w, n)[1] = n /\ Merge(w, n)[2] \in Seq(Instructions)
         /\ Len(Merge(w, n)[2]) = 1
         /\ Steps(Merge(w, n)[2]) = Steps(SubSeq(w, 1, n))
<1>1. PICK v : v = SubSeq(w, 1, n)
  OBVIOUS
<1>2. v \in Seq(Instructions) /\ Len(v) = n /\ n \in Nat /\ \A k \in 1..n : v[k] = w[k]
  BY <1>1
<1>3. PICK o, b : o = [k \in 1..n |-> w[k].op] /\ b = [k \in 1..n |-> w[k].body]
  OBVIOUS
<1>4. \A k \in 1..n : w[k].op \in Seq(Names) /\ w[k].body \in Seq(Prims)
  <2>1. \A k \in 1..n : w[k] \in Instructions
    BY ElementOfSeq
  <2> QED  BY <2>1 DEF Instructions
<1>5. o \in Seq(Seq(Names)) /\ b \in Seq(Seq(Prims)) /\ Len(b) = n
  BY <1>2, <1>3, <1>4
<1>6. b = Bodies(v)
  <2>1. Bodies(v) \in Seq(Seq(Prims)) /\ Len(Bodies(v)) = n /\ \A k \in 1..n : Bodies(v)[k] = v[k].body
    BY <1>2, BodiesAre
  <2>2. \A k \in 1..n : b[k] = Bodies(v)[k]
    BY <1>2, <1>3, <2>1
  <2> QED  BY <1>5, <2>1, <2>2
<1>7. PICK i : i = [op |-> FlattenSeq(o), body |-> FlattenSeq(b)]
  OBVIOUS
<1>8. i \in Instructions /\ i.body = FlattenSeq(b)
  <2>1. FlattenSeq(o) \in Seq(Names) /\ FlattenSeq(b) \in Seq(Prims)
    BY <1>5, FlattenType
  <2> QED  BY <1>7, <2>1 DEF Instructions
<1>9. Merge(w, n) = <<n, <<i>>>>
  BY <1>3, <1>7 DEF Merge
<1>10. Steps(<<i>>) = FlattenSeq(b) /\ Steps(v) = FlattenSeq(b)
  BY <1>6, <1>8, StepsOne DEF Steps
<1> QED  BY <1>1, <1>8, <1>9, <1>10
-----------------------------------------------------------------------------
(* What a pass puts in the place of steps of the source                    *)

Doubles(s) ==
  \E k \in 1..(Len(s) - 3) :
     /\ <<s[k].op, s[k + 1].op, s[k + 2].op>> = <<"ldelem", "ldloc", "add">>
     /\ s[k + 1].src[1] = s[k].dst

\* the steps g stand in for the i-th to the j-th step of s
Serves(s, D, g, i, j) ==
  /\ g \in Seq(Prims)
  /\ Ordered(g) /\ \A k \in 1..Len(g) : g[k].id \in i..j
  /\ ~Doubles(s) => Sim(SubSeq(s, i, j), D[i - 1], g, D[j])

LEMMA StackedIs ==
  ASSUME NEW s, NEW D, Stacked(s, D)
  PROVE  /\ s \in Seq(Prims) /\ Len(s) \in Nat
         /\ \A k \in 0..Len(s) : D[k] \in Nat
         /\ \A k \in 1..Len(s) :
              /\ s[k] \in Prims /\ s[k].id = k /\ k - 1 \in 0..Len(s)
              /\ D[k - 1] \in Nat /\ D[k] \in Nat
              /\ Fits(s[k], D[k - 1], D[k])
<1>1. s \in Seq(Prims) /\ D \in [0..Len(s) -> Nat] /\ Len(s) \in Nat
  BY DEF Stacked
<1>2. \A k \in 1..Len(s) : s[k] \in Prims
  BY <1>1, ElementOfSeq
<1>3. \A k \in 1..Len(s) : k \in 0..Len(s) /\ k - 1 \in 0..Len(s)
  BY <1>1
<1> QED  BY <1>1, <1>2, <1>3 DEF Stacked, Fits

LEMMA ServesNothing ==
  ASSUME NEW s, NEW D, Stacked(s, D), NEW j \in 0..Len(s)
  PROVE  Serves(s, D, <<>>, j + 1, j)
<1>1. SubSeq(s, j + 1, j) = <<>>
  BY SubSeqEmpty, StackedIs
<1>2. j + 1 - 1 = j
  BY StackedIs
<1>3. Sim(<<>>, D[j], <<>>, D[j])
  BY SimNothing
<1>4. /\ <<>> \in Seq(Prims) /\ Len(<<>>) = 0 /\ 1..0 = {}
  OBVIOUS
<1>5. Ordered(<<>>)
  BY <1>4 DEF Ordered
<1>6. PICK e, i : e = <<>> /\ i = j + 1
  OBVIOUS
<1>7. Sim(SubSeq(s, i, j), D[i - 1], e, D[j])
  <2>1. SubSeq(s, i, j) = e
    BY <1>1, <1>6
  <2>2. i - 1 = j
    BY <1>2, <1>6
  <2>3. Sim(e, D[j], e, D[j])
    BY ONLY <1>3, <1>6
  <2> QED  BY ONLY <2>1, <2>2, <2>3
<1>8. e \in Seq(Prims) /\ Ordered(e) /\ \A k \in 1..Len(e) : e[k].id \in i..j
  BY <1>4, <1>5, <1>6
<1>9. Serves(s, D, e, i, j)
  BY <1>7, <1>8 DEF Serves
<1> QED  BY <1>6, <1>9

LEMMA ServesConcat ==
  ASSUME NEW s, NEW D, Stacked(s, D), NEW i \in 1..(Len(s) + 1), NEW j \in (i - 1)..Len(s),
         NEW l \in j..Len(s), NEW g, NEW h,
         Serves(s, D, g, i, j), Serves(s, D, h, j + 1, l)
  PROVE  Serves(s, D, g \o h, i, l)
<1>1. PICK u : u = g \o h
  OBVIOUS
<1>2. Len(s) \in Nat /\ s \in Seq(Prims)
  BY StackedIs
<1>3. /\ g \in Seq(Prims) /\ h \in Seq(Prims)
      /\ \A k \in 1..Len(g) : g[k].id \in i..j
      /\ \A k \in 1..Len(h) : h[k].id \in (j + 1)..l
      /\ \A x, y \in 1..Len(g) : x < y => g[x].id < g[y].id
      /\ \A x, y \in 1..Len(h) : x < y => h[x].id < h[y].id
  BY DEF Serves, Ordered
<1>4. /\ u \in Seq(Prims) /\ Len(u) = Len(g) + Len(h) /\ Len(g) \in Nat /\ Len(h) \in Nat
      /\ \A k \in 1..Len(g) : k \in 1..Len(u) /\ u[k] = g[k]
      /\ \A k \in 1..Len(u) : \/ k \in 1..Len(g)
                              \/ k - Len(g) \in 1..Len(h) /\ u[k] = h[k - Len(g)]
  <2>1. g \in Seq(Prims) /\ h \in Seq(Prims) /\ u = g \o h
    BY <1>1, <1>3
  <2> QED  BY ONLY <2>1, AppendedIs
<1>5. \A k \in 1..Len(u) : u[k].id \in i..l
  <2> TAKE k \in 1..Len(u)
  <2>1. CASE k \in 1..Len(g)
    <3>1. u[k] = g[k] /\ g[k].id \in i..j
      BY <1>3, <1>4, <2>1
    <3>2. i..j \subseteq i..l
      BY <1>2
    <3> QED  BY <3>1, <3>2
  <2>2. CASE k - Len(g) \in 1..Len(h) /\ u[k] = h[k - Len(g)]
    <3>1. u[k].id \in (j + 1)..l
      BY <1>3, <2>2
    <3>2. (j + 1)..l \subseteq i..l
      BY <1>2
    <3> QED  BY <3>1, <3>2
  <2> QED  BY <1>4, <2>1, <2>2
<1>6. Ordered(u)
  <2> SUFFICES ASSUME NEW x \in 1..Len(u), NEW y \in 1..Len(u), x < y
               PROVE  u[x].id < u[y].id
    BY DEF Ordered
  <2>1. CASE x \in 1..Len(g) /\ y \in 1..Len(g)
    BY <1>3, <1>4, <2>1
  <2>2. CASE x \in 1..Len(g) /\ y \notin 1..Len(g)
    <3>1. u[x].id \in i..j
      BY <1>3, <1>4, <2>2
    <3>2. u[y].id \in (j + 1)..l
      BY <1>3, <1>4, <2>2
    <3> QED  BY <1>2, <3>1, <3>2
  <2>3. CASE x \notin 1..Len(g)
    <3>1. y \notin 1..Len(g)
      BY <1>4, <2>3
    <3>2. PICK a, b : a = x - Len(g) /\ b = y - Len(g)
      OBVIOUS
    <3>3. a \in 1..Len(h) /\ b \in 1..Len(h) /\ a < b /\ u[x] = h[a] /\ u[y] = h[b]
      BY <1>4, <2>3, <3>1, <3>2
    <3> QED  BY <1>3, <3>3
  <2> QED  BY <2>1, <2>2, <2>3
<1>7. ASSUME ~Doubles(s)  PROVE Sim(SubSeq(s, i, l), D[i - 1], u, D[l])
  <2>1. Sim(SubSeq(s, i, j), D[i - 1], g, D[j])
    BY <1>7 DEF Serves
  <2>2. Sim(SubSeq(s, j + 1, l), D[j], h, D[l])
    <3>1. j + 1 - 1 = j
      BY <1>2
    <3> QED  BY <1>7, <3>1 DEF Serves
  <2>3. SubSeq(s, i, j) \o SubSeq(s, j + 1, l) = SubSeq(s, i, l)
    BY <1>2, ConcatAdjacentSubSeq
  <2>4. SubSeq(s, i, j) \in Seq(Prims) /\ SubSeq(s, j + 1, l) \in Seq(Prims)
    BY <1>2
  <2>5. PICK p, q, a, b, c : /\ p = SubSeq(s, i, j) /\ q = SubSeq(s, j + 1, l)
                             /\ a = D[i - 1] /\ b = D[j] /\ c = D[l]
    OBVIOUS
  <2>6. /\ p \in Seq(Prims) /\ q \in Seq(Prims) /\ g \in Seq(Prims) /\ h \in Seq(Prims)
        /\ Sim(p, a, g, b) /\ Sim(q, b, h, c)
    BY <1>3, <2>1, <2>2, <2>4, <2>5
  <2>7. Sim(p \o q, a, g \o h, c)
    BY ONLY <2>6, SimConcat
  <2> QED  BY <1>1, <2>3, <2>5, <2>7
<1> QED  BY <1>1, <1>4, <1>5, <1>6, <1>7 DEF Serves

LEMMA ServesOne ==
  ASSUME NEW s, NEW D, Stacked(s, D), NEW i \in 1..Len(s)
  PROVE  Serves(s, D, <<s[i]>>, i, i)
<1>1. /\ s \in Seq(Prims) /\ Len(s) \in Nat /\ s[i] \in Prims /\ s[i].id = i
      /\ D[i - 1] \in Nat /\ D[i] \in Nat /\ Fits(s[i], D[i - 1], D[i])
  BY StackedIs
<1>2. SubSeq(s, i, i) = <<s[i]>>
  <2>1. SubSeq(s, i, i) = <<s[i]>> \o SubSeq(s, i + 1, i)
    <3>1. i \in i..Len(s)
      BY <1>1
    <3> QED  BY <1>1, <3>1, SubSeqRecursiveFirst
  <2>2. SubSeq(s, i + 1, i) = <<>>
    BY SubSeqEmpty
  <2>3. <<s[i]>> \in Seq(Prims)
    BY <1>1
  <2>4. <<s[i]>> \o <<>> = <<s[i]>>
    BY <2>3, ConcatEmptySeq
  <2> QED  BY <2>1, <2>2, <2>4
<1>3. Sim(<<s[i]>>, D[i - 1], <<s[i]>>, D[i])
  BY <1>1, SimSame
<1>4. <<s[i]>> \in Seq(Prims) /\ Len(<<s[i]>>) = 1 /\ \A k \in 1..1 : <<s[i]>>[k] = s[i]
  BY <1>1
<1>5. Ordered(<<s[i]>>) /\ \A k \in 1..Len(<<s[i]>>) : <<s[i]>>[k].id \in i..i
  BY <1>1, <1>4 DEF Ordered
<1> QED  BY <1>2, <1>3, <1>4, <1>5 DEF Serves

\* Steps stand in for themselves.
LEMMA ServesSame ==
  ASSUME NEW s, NEW D, Stacked(s, D), NEW i \in 1..(Len(s) + 1), NEW j \in (i - 1)..Len(s)
  PROVE  Serves(s, D, SubSeq(s, i, j), i, j)
<1>1. s \in Seq(Prims) /\ Len(s) \in Nat
  BY StackedIs
<1> DEFINE P == {k \in 0..(Len(s) - i + 1) : Serves(s, D, SubSeq(s, i, i - 1 + k), i, i - 1 + k)}
<1>2. 0 \in P
  <2>1. SubSeq(s, i, i - 1) = <<>> /\ i - 1 \in 0..Len(s) /\ i - 1 + 1 = i /\ i - 1 + 0 = i - 1
        /\ 0 \in 0..(Len(s) - i + 1)
    BY <1>1, SubSeqEmpty
  <2>2. PICK k : k = i - 1
    OBVIOUS
  <2>3. Serves(s, D, <<>>, k + 1, k)
    BY <2>1, <2>2, ServesNothing
  <2> QED  BY <2>1, <2>2, <2>3
<1>3. \A k \in 1..(Len(s) - i + 1) : k - 1 \in P => k \in P
  <2> SUFFICES ASSUME NEW k \in 1..(Len(s) - i + 1), k - 1 \in P  PROVE k \in P
    OBVIOUS
  <2>1. PICK n : n = i - 1 + (k - 1)
    OBVIOUS
  <2>2. n \in (i - 1)..Len(s) /\ n + 1 \in i..Len(s) /\ n + 1 \in 1..Len(s) /\ n + 1 = i - 1 + k
        /\ n + 1 \in n..Len(s)
    BY <1>1, <2>1
  <2>3. Serves(s, D, SubSeq(s, i, n), i, n)
    BY <2>1
  <2>4. Serves(s, D, <<s[n + 1]>>, n + 1, n + 1)
    BY <2>2, ServesOne
  <2>5. Serves(s, D, SubSeq(s, i, n) \o <<s[n + 1]>>, i, n + 1)
    BY <2>2, <2>3, <2>4, ServesConcat
  <2>6. SubSeq(s, i, n + 1) = SubSeq(s, i, n) \o <<s[n + 1]>>
    <3>1. PICK l : l = n + 1
      OBVIOUS
    <3>2. i \in 1..Len(s) /\ l \in i..Len(s) /\ l - 1 = n
      BY <1>1, <2>2, <3>1
    <3>3. SubSeq(s, i, l) = SubSeq(s, i, l - 1) \o <<s[l]>>
      BY <1>1, <3>2, SubSeqRecursiveSecond
    <3> QED  BY <3>1, <3>2, <3>3
  <2>7. Serves(s, D, SubSeq(s, i, n + 1), i, n + 1)
    BY <2>5, <2>6
  <2>8. k \in 0..(Len(s) - i + 1)
    OBVIOUS
  <2> QED  BY <2>2, <2>7, <2>8
<1>4. PICK k : k = j - i + 1
  OBVIOUS
<1>5. k \in 0..(Len(s) - i + 1) /\ i - 1 + k = j /\ Len(s) - i + 1 \in Nat
  BY <1>1, <1>4
<1>6. k \in P
  <2> HIDE DEF P
  <2>1. \A x \in 0..(Len(s) - i + 1) : x \in P
    BY <1>2, <1>3, <1>5, Upward
  <2> QED  BY <1>5, <2>1
<1> QED  BY <1>5, <1>6
-----------------------------------------------------------------------------
(* The rules                                                               *)

NonEmpty(x) == Len(x) \in Nat /\ Len(x) >= 1 /\ DOMAIN x = 1..Len(x)

\* a table of rules, each of at least one instruction
Table(t) == \E T : t \in Seq(T) /\ \A x \in T : NonEmpty(x)

LEMMA TableIs ==
  ASSUME NEW t, Table(t)
  PROVE  /\ Len(t) \in Nat /\ DOMAIN t = 1..Len(t)
         /\ \A r \in 1..Len(t) : NonEmpty(t[r])
<1>1. PICK T : t \in Seq(T) /\ \A x \in T : NonEmpty(x)
  BY DEF Table
<1>2. \A r \in 1..Len(t) : t[r] \in T
  BY <1>1, ElementOfSeq
<1> QED  BY <1>1, <1>2

LEMMA TableOf ==
  ASSUME NEW t, NEW n \in Nat, t = [r \in 1..n |-> t[r]], \A r \in 1..n : NonEmpty(t[r])
  PROVE  Table(t)
<1> DEFINE T == {t[r] : r \in 1..n}
<1>1. t \in Seq(T)
  OBVIOUS
<1>2. \A x \in T : NonEmpty(x)
  OBVIOUS
<1> QED  BY <1>1, <1>2 DEF Table

LEMMA TableConcat ==
  ASSUME NEW t, NEW u, Table(t), Table(u)
  PROVE  Table(t \o u)
<1>1. PICK T : t \in Seq(T) /\ \A x \in T : NonEmpty(x)
  BY DEF Table
<1>2. PICK U : u \in Seq(U) /\ \A x \in U : NonEmpty(x)
  BY DEF Table
<1>3. PICK W : W = T \cup U
  OBVIOUS
<1>4. T \subseteq W /\ U \subseteq W /\ \A x \in W : NonEmpty(x)
  BY <1>1, <1>2, <1>3
<1>5. t \in Seq(W) /\ u \in Seq(W)
  BY <1>1, <1>2, <1>4, SeqMonotonic
<1>6. t \o u \in Seq(W)
  BY <1>5
<1> QED  BY <1>4, <1>6 DEF Table

LEMMA TableFront ==
  ASSUME NEW t, Table(t), NEW n \in 1..Len(t)
  PROVE  Table(SubSeq(t, 1, n))
<1>1. PICK T : t \in Seq(T) /\ \A x \in T : NonEmpty(x)
  BY DEF Table
<1>2. SubSeq(t, 1, n) \in Seq(T)
  BY <1>1
<1> QED  BY <1>1, <1>2 DEF Table

LEMMA TableSimple ==
  ASSUME NEW t, Table(t)
  PROVE  Table(Simple(t))
<1>1. PICK n : n = Len(t)
  OBVIOUS
<1>2. n \in Nat /\ DOMAIN t = 1..n /\ \A r \in 1..n : NonEmpty(t[r])
  BY <1>1, TableIs
<1>3. PICK u : u = Simple(t)
  OBVIOUS
<1>4. u = [r \in 1..n |-> [k \in DOMAIN t[r] |-> <<t[r][k]>>]]
  BY <1>2, <1>3 DEF Simple
<1>5. u = [r \in 1..n |-> u[r]]
  BY <1>4
<1>6. ASSUME NEW r \in 1..n  PROVE NonEmpty(u[r])
  <2>1. PICK x, y : x = t[r] /\ y = u[r]
    OBVIOUS
  <2>2. Len(x) \in Nat /\ Len(x) >= 1 /\ DOMAIN x = 1..Len(x)
    BY <1>2, <2>1 DEF NonEmpty
  <2>3. y = [k \in 1..Len(x) |-> <<x[k]>>]
    BY <1>4, <2>1, <2>2
  <2>4. DOMAIN y = 1..Len(x) /\ Len(y) = Len(x)
    BY <2>2, <2>3
  <2> QED  BY <2>1, <2>2, <2>4 DEF NonEmpty
<1> QED  BY <1>2, <1>3, <1>5, <1>6, TableOf

LEMMA CopyRulesTable == Table(CopyRules) /\ Len(CopyRules) = 8
<1>1. CopyRules = [r \in 1..8 |-> CopyRules[r]] /\ Len(CopyRules) = 8
  BY DEF CopyRules
<1>2. \A r \in 1..8 : NonEmpty(CopyRules[r])
  BY DEF CopyRules, NonEmpty
<1> QED  BY <1>1, <1>2, TableOf

LEMMA ConstantRulesTable == Table(ConstantRules) /\ Len(ConstantRules) = 9
<1>1. ConstantRules = [r \in 1..9 |-> ConstantRules[r]] /\ Len(ConstantRules) = 9
  BY DEF ConstantRules
<1>2. \A r \in 1..9 : NonEmpty(ConstantRules[r])
  BY DEF ConstantRules, NonEmpty
<1> QED  BY <1>1, <1>2, TableOf

LEMMA TwoCopyRulesTable == Table(TwoCopyRules) /\ Len(TwoCopyRules) = 7
<1>1. TwoCopyRules = [r \in 1..7 |-> TwoCopyRules[r]] /\ Len(TwoCopyRules) = 7
  BY DEF TwoCopyRules
<1>2. \A r \in 1..7 : NonEmpty(TwoCopyRules[r])
  <2>0. NonEmpty(TwoCopyRules[1])
    BY SMTT(30) DEF TwoCopyRules, NonEmpty
  <2>1. \A r \in 2..3 : NonEmpty(TwoCopyRules[r])
    BY SMTT(30) DEF TwoCopyRules, NonEmpty
  <2>2. \A r \in 4..5 : NonEmpty(TwoCopyRules[r])
    BY SMTT(30) DEF TwoCopyRules, NonEmpty
  <2>3. \A r \in 6..7 : NonEmpty(TwoCopyRules[r])
    BY SMTT(30) DEF TwoCopyRules, NonEmpty
  <2>4. \A r \in 1..7 : r = 1 \/ r \in 2..3 \/ r \in 4..5 \/ r \in 6..7
    OBVIOUS
  <2> QED  BY <2>0, <2>1, <2>2, <2>3, <2>4
<1> QED  BY <1>1, <1>2, TableOf

LEMMA BareCopyRulesTable == Table(BareCopyRules) /\ Len(BareCopyRules) = 2
<1>1. BareCopyRules = [r \in 1..2 |-> BareCopyRules[r]] /\ Len(BareCopyRules) = 2
  BY DEF BareCopyRules
<1>2. \A r \in 1..2 : NonEmpty(BareCopyRules[r])
  BY DEF BareCopyRules, NonEmpty
<1> QED  BY <1>1, <1>2, TableOf

LEMMA FieldRulesTable == Table(FieldRules) /\ Len(FieldRules) = 8
<1>1. FieldRules = [r \in 1..8 |-> FieldRules[r]] /\ Len(FieldRules) = 8
  BY DEF FieldRules
<1>2. \A r \in 1..8 : NonEmpty(FieldRules[r])
  BY DEF FieldRules, NonEmpty
<1> QED  BY <1>1, <1>2, TableOf

LEMMA ArithmeticRulesTable == Table(ArithmeticRules) /\ Len(ArithmeticRules) = 10
<1>1. ArithmeticRules = [r \in 1..10 |-> ArithmeticRules[r]] /\ Len(ArithmeticRules) = 10
  BY DEF ArithmeticRules
<1>2. \A r \in 1..10 : NonEmpty(ArithmeticRules[r])
  BY DEF ArithmeticRules, NonEmpty
<1> QED  BY <1>1, <1>2, TableOf

LEMMA PairRulesTable == Table(PairRules) /\ Len(PairRules) = 7
<1>1. PairRules = [r \in 1..7 |-> PairRules[r]] /\ Len(PairRules) = 7
  BY DEF PairRules
<1>2. \A r \in 1..7 : NonEmpty(PairRules[r])
  BY DEF PairRules, NonEmpty
<1> QED  BY <1>1, <1>2, TableOf

LEMMA QuotientRulesTable == Table(QuotientRules) /\ Len(QuotientRules) = 6
<1>1. QuotientRules = [r \in 1..6 |-> QuotientRules[r]] /\ Len(QuotientRules) = 6
  BY DEF QuotientRules
<1>2. \A r \in 1..6 : NonEmpty(QuotientRules[r])
  BY DEF QuotientRules, NonEmpty
<1> QED  BY <1>1, <1>2, TableOf

LEMMA StructCopyRulesTable == Table(StructCopyRules) /\ Len(StructCopyRules) = 5
<1>1. StructCopyRules = [r \in 1..5 |-> StructCopyRules[r]] /\ Len(StructCopyRules) = 5
  BY DEF StructCopyRules
<1>2. \A r \in 1..5 : NonEmpty(StructCopyRules[r])
  BY DEF StructCopyRules, NonEmpty
<1> QED  BY <1>1, <1>2, TableOf

LEMMA FieldSumRulesTable == Table(FieldSumRules) /\ Len(FieldSumRules) = 2
<1>1. FieldSumRules = [r \in 1..2 |-> FieldSumRules[r]] /\ Len(FieldSumRules) = 2
  BY DEF FieldSumRules
<1>2. \A r \in 1..2 : NonEmpty(FieldSumRules[r])
  BY DEF FieldSumRules, NonEmpty
<1> QED  BY <1>1, <1>2, TableOf

LEMMA AddressRulesTable == Table(AddressRules) /\ Len(AddressRules) = 3
<1>1. AddressRules = [r \in 1..3 |-> AddressRules[r]] /\ Len(AddressRules) = 3
  BY DEF AddressRules
<1>2. \A r \in 1..3 : NonEmpty(AddressRules[r])
  BY DEF AddressRules, NonEmpty
<1> QED  BY <1>1, <1>2, TableOf

LEMMA LooseFieldRulesTable == Table(LooseFieldRules) /\ Len(LooseFieldRules) = 6
<1>1. LooseFieldRules = [r \in 1..6 |-> LooseFieldRules[r]] /\ Len(LooseFieldRules) = 6
  BY DEF LooseFieldRules
<1>2. \A r \in 1..6 : NonEmpty(LooseFieldRules[r])
  BY DEF LooseFieldRules, NonEmpty
<1> QED  BY <1>1, <1>2, TableOf

LEMMA FifthPassTable == Table(FifthPass) /\ Len(FifthPass) = 2
<1>1. FifthPass = [r \in 1..2 |-> FifthPass[r]] /\ Len(FifthPass) = 2
  BY DEF FifthPass
<1>2. \A r \in 1..2 : NonEmpty(FifthPass[r])
  BY DEF FifthPass, NonEmpty
<1> QED  BY <1>1, <1>2, TableOf

LEMMA SixthPassTable == Table(SixthPass) /\ Len(SixthPass) = 5
<1>1. SixthPass = [r \in 1..5 |-> SixthPass[r]] /\ Len(SixthPass) = 5
  BY DEF SixthPass
<1>2. \A r \in 1..5 : NonEmpty(SixthPass[r])
  BY DEF SixthPass, NonEmpty
<1> QED  BY <1>1, <1>2, TableOf

LEMMA SeventhPassTable == Table(SeventhPass) /\ Len(SeventhPass) = 2
<1>1. SeventhPass = [r \in 1..2 |-> SeventhPass[r]] /\ Len(SeventhPass) = 2
  BY DEF SeventhPass
<1>2. \A r \in 1..2 : NonEmpty(SeventhPass[r])
  BY DEF SeventhPass, NonEmpty
<1> QED  BY <1>1, <1>2, TableOf

LEMMA RulesAre == \A p \in 1..Passes : Table(Rules[p])
<1>1. PICK a : a = Simple(CopyRules \o ConstantRules \o TwoCopyRules \o BareCopyRules
                            \o FieldRules \o ArithmeticRules)
  OBVIOUS
<1>2. Table(a)
  BY <1>1, CopyRulesTable, ConstantRulesTable, TwoCopyRulesTable, BareCopyRulesTable,
     FieldRulesTable, ArithmeticRulesTable, TableConcat, TableSimple, Zenon
<1>3. PICK b : b = PairRules \o QuotientRules \o StructCopyRules \o FieldSumRules
                     \o AddressRules \o LooseFieldRules
  OBVIOUS
<1>4. Table(b)
  BY <1>3, PairRulesTable, QuotientRulesTable, StructCopyRulesTable, FieldSumRulesTable,
     AddressRulesTable, LooseFieldRulesTable, TableConcat, Zenon
<1>5. Table(ThirdPass)
  <2>1. Table(SubSeq(PairRules, 1, 5)) /\ Table(SubSeq(AddressRules, 1, 1))
    <3>1. 5 \in 1..Len(PairRules) /\ 1 \in 1..Len(AddressRules)
      BY PairRulesTable, AddressRulesTable
    <3> QED  BY <3>1, PairRulesTable, AddressRulesTable, TableFront, Zenon
  <2> QED  BY <2>1, TableConcat DEF ThirdPass
<1>6. Table(FourthPass)
  <2>1. PICK x : x = <<<<<<"sub", "max">>, <<"stfld", "ldfldv", "ldc">>>>>>
    OBVIOUS
  <2>2. Table(x)
    <3>1. x = [r \in 1..1 |-> x[r]]
      BY <2>1
    <3>2. \A r \in 1..1 : NonEmpty(x[r])
      BY <2>1 DEF NonEmpty
    <3> QED  BY <3>1, <3>2, TableOf
  <2>3. Table(SubSeq(QuotientRules, 2, 3))
    <3>1. PICK T : QuotientRules \in Seq(T) /\ \A y \in T : NonEmpty(y)
      BY QuotientRulesTable DEF Table
    <3>2. SubSeq(QuotientRules, 2, 3) \in Seq(T)
      BY <3>1, QuotientRulesTable
    <3> QED  BY <3>1, <3>2 DEF Table
  <2> QED  BY <2>1, <2>2, <2>3, FieldSumRulesTable, TableConcat, Zenon DEF FourthPass
<1>7. Rules = <<a, b, ThirdPass, FourthPass, FifthPass, SixthPass, SeventhPass>>
  BY <1>1, <1>3 DEF Rules
<1> TAKE p \in 1..Passes
<1>8. p \in {1, 2, 3, 4, 5, 6, 7}
  BY DEF Passes
<1>9. Rules[p] \in {a, b, ThirdPass, FourthPass, FifthPass, SixthPass, SeventhPass}
  BY <1>7, <1>8
<1> QED  BY <1>2, <1>4, <1>5, <1>6, <1>9, FifthPassTable, SixthPassTable, SeventhPassTable

\* A rule consumes at least one instruction and no more than there are.
LEMMA ByRuleIs ==
  ASSUME NEW w, NEW t, Table(t), Len(w) \in Nat
  PROVE  ByRule(w, t) = <<>> \/ \E n \in 1..Len(w) : ByRule(w, t) = Merge(w, n)
<1> DEFINE fits == {r \in DOMAIN t : IsNext(w, t[r]) /\ OperandsFit(w, t[r])}
<1>1. CASE fits = {}
  BY <1>1 DEF ByRule
<1>2. CASE fits # {}
  <2>1. Len(t) \in Nat /\ DOMAIN t = 1..Len(t) /\ \A r \in 1..Len(t) : NonEmpty(t[r])
    BY TableIs
  <2>2. fits \subseteq Nat
    BY <2>1
  <2> DEFINE least == CHOOSE r \in fits : \A q \in fits : r <= q
  <2>3. ByRule(w, t) = Merge(w, Len(t[least]))
    BY <1>2 DEF ByRule
  <2>4. \E r \in fits : \A q \in fits : r <= q
    <3> HIDE DEF fits
    <3> QED  BY <1>2, <2>2, Least
  <2>5. least \in fits
    <3> HIDE DEF fits
    <3> QED  BY <2>4
  <2> HIDE DEF least
  <2>6. IsNext(w, t[least]) /\ NonEmpty(t[least])
    BY <2>1, <2>5
  <2>7. Len(t[least]) \in 1..Len(w)
    BY <2>6 DEF IsNext, NonEmpty
  <2> QED  BY <2>3, <2>7
<1> QED  BY <1>1, <1>2
-----------------------------------------------------------------------------
(* A pass                                                                  *)

\* what a pass sees from its k-th instruction on, what it emits for it, and
\* where it goes on
Seen(c, p, k) == IF p = 1 THEN Fold(SubSeq(c, k, Len(c))) ELSE SubSeq(c, k, Len(c))
Emitted(c, p, k) == Rewrite(Seen(c, p, k), p)[2]
Onward(c, p, k) ==
  k + (Len(SubSeq(c, k, Len(c))) - Len(Seen(c, p, k))) + Rewrite(Seen(c, p, k), p)[1]

Passing(f, c, p, j) ==
  f = [k \in j..(Len(c) + 1) |->
         IF k > Len(c) THEN <<>> ELSE Emitted(c, p, k) \o f[Onward(c, p, k)]]

LEMMA PassingMore ==
  ASSUME NEW c, Len(c) \in Nat, NEW p, NEW j \in 1..Len(c), NEW f, Passing(f, c, p, j + 1),
         \A k \in 1..Len(c) : Onward(c, p, k) \in (k + 1)..(Len(c) + 1)
  PROVE  \E g : Passing(g, c, p, j)
<1>1. PICK n : n = Len(c)
  OBVIOUS
<1> DEFINE g == [k \in j..(n + 1) |->
                   IF k = j THEN Emitted(c, p, j) \o f[Onward(c, p, j)] ELSE f[k]]
<1>2. ASSUME NEW k \in j..(n + 1)
      PROVE  g[k] = IF k > n THEN <<>> ELSE Emitted(c, p, k) \o g[Onward(c, p, k)]
  <2>1. k <= n => Onward(c, p, k) \in (k + 1)..(n + 1)
    BY <1>1
  <2>2. k <= n => g[Onward(c, p, k)] = f[Onward(c, p, k)]
    <3>1. PICK o : o = Onward(c, p, k)
      OBVIOUS
    <3>2. k <= n => o \in j..(n + 1) /\ o # j
      BY <1>1, <2>1, <3>1
    <3>3. k <= n => g[o] = f[o]
      BY <3>2
    <3> QED  BY <3>1, <3>3
  <2>3. CASE k = j
    <3>1. g[k] = Emitted(c, p, k) \o f[Onward(c, p, k)] /\ k <= n
      BY <1>1, <2>3
    <3> HIDE DEF g
    <3>2. g[Onward(c, p, k)] = f[Onward(c, p, k)]
      BY <2>2, <3>1
    <3>3. ~(k > n)
      BY <1>1, <3>1
    <3> QED  BY <3>1, <3>2, <3>3, Zenon
  <2>4. CASE k # j
    <3>1. g[k] = f[k] /\ k \in (j + 1)..(n + 1)
      BY <1>1, <2>4
    <3> HIDE DEF g
    <3>2. f[k] = IF k > n THEN <<>> ELSE Emitted(c, p, k) \o f[Onward(c, p, k)]
      BY <1>1, <3>1 DEF Passing
    <3> QED  BY <1>1, <2>2, <3>1, <3>2
  <2> QED  BY <2>3, <2>4
<1>3. g = [k \in j..(n + 1) |-> g[k]]
  OBVIOUS
<1> HIDE DEF g
<1>4. Passing(g, c, p, j)
  BY <1>1, <1>2, <1>3 DEF Passing
<1> QED  BY <1>4

LEMMA PassingExists ==
  ASSUME NEW c, Len(c) \in Nat, NEW p,
         \A k \in 1..Len(c) : Onward(c, p, k) \in (k + 1)..(Len(c) + 1)
  PROVE  \E f : Passing(f, c, p, 1)
<1>1. PICK n : n = Len(c)
  OBVIOUS
<1> DEFINE P == {k \in 0..n : \E f : Passing(f, c, p, k + 1)}
<1>2. n \in P
  <2> DEFINE e == [k \in (n + 1)..(n + 1) |-> <<>>]
  <2>1. \A k \in (n + 1)..(n + 1) : k > n /\ e[k] = <<>>
    BY <1>1
  <2>2. e = [k \in (n + 1)..(n + 1) |-> e[k]]
    OBVIOUS
  <2> HIDE DEF e
  <2>3. e = [k \in (n + 1)..(n + 1) |->
               IF k > n THEN <<>> ELSE Emitted(c, p, k) \o e[Onward(c, p, k)]]
    BY <2>1, <2>2
  <2>4. Passing(e, c, p, n + 1)
    BY <1>1, <2>3 DEF Passing
  <2> QED  BY <1>1, <2>4
<1>3. \A k \in 1..n : k \in P => k - 1 \in P
  <2> SUFFICES ASSUME NEW k \in 1..n, k \in P  PROVE k - 1 \in P
    OBVIOUS
  <2>1. PICK f : Passing(f, c, p, k + 1)
    OBVIOUS
  <2>2. k \in 1..Len(c)
    BY <1>1
  <2>3. \E g : Passing(g, c, p, k)
    BY <2>1, <2>2, PassingMore
  <2>4. k - 1 + 1 = k /\ k - 1 \in 0..n
    BY <1>1
  <2> QED  BY <2>3, <2>4
<1>4. 0 \in P
  <2> HIDE DEF P
  <2>1. \A k \in 0..n : k \in P
    BY <1>1, <1>2, <1>3, Downward
  <2> QED  BY <1>1, <2>1
<1> QED  BY <1>4

\* What is true of what is emitted for each part, and passes to parts put
\* together, is true of the result.
May(G, x, i, j) == <<x, i, j>> \in G

LEMMA PassIs ==
  ASSUME NEW c, Len(c) \in Nat, NEW p, NEW G,
         May(G, <<>>, Len(c) + 1, Len(c) + 1),
         \A k \in 1..Len(c) : /\ Onward(c, p, k) \in (k + 1)..(Len(c) + 1)
                              /\ May(G, Emitted(c, p, k), k, Onward(c, p, k)),
         \A x, y, i, j : May(G, x, i, j) /\ May(G, y, j, Len(c) + 1)
                           => May(G, x \o y, i, Len(c) + 1)
  PROVE  May(G, RunPass(c, p), 1, Len(c) + 1)
<1>1. PICK n : n = Len(c)
  OBVIOUS
<1> DEFINE F == CHOOSE f : f = [k \in 1..(Len(c) + 1) |->
                  IF k > Len(c) THEN <<>> ELSE Emitted(c, p, k) \o f[Onward(c, p, k)]]
<1>2. RunPass(c, p) = F[1]
  BY DEF RunPass, Emitted, Onward, Seen
<1>3. Passing(F, c, p, 1)
  <2>1. \E f : Passing(f, c, p, 1)
    BY PassingExists
  <2> QED  BY <2>1 DEF Passing
<1> HIDE DEF F
<1>4. \A k \in 1..(n + 1) :
        F[k] = IF k > n THEN <<>> ELSE Emitted(c, p, k) \o F[Onward(c, p, k)]
  BY <1>1, <1>3 DEF Passing
<1> DEFINE P == {k \in 0..n : \A j \in k..n : May(G, F[j + 1], j + 1, n + 1)}
<1>5. n \in P
  <2>1. F[n + 1] = <<>>
    BY <1>1, <1>4
  <2>2. \A j \in n..n : j = n
    BY <1>1
  <2>3. May(G, F[n + 1], n + 1, n + 1)
    BY <1>1, <2>1
  <2>4. \A j \in n..n : May(G, F[j + 1], j + 1, n + 1)
    BY <2>2, <2>3
  <2>5. n \in 0..n
    BY <1>1
  <2> QED  BY <2>4, <2>5
<1>6. \A k \in 1..n : k \in P => k - 1 \in P
  <2> SUFFICES ASSUME NEW k \in 1..n, k \in P  PROVE k - 1 \in P
    OBVIOUS
  <2>1. PICK o : o = Onward(c, p, k)
    OBVIOUS
  <2>2. o \in (k + 1)..(n + 1) /\ May(G, Emitted(c, p, k), k, o)
    BY <1>1, <2>1
  <2>3. F[k] = Emitted(c, p, k) \o F[o]
    <3>1. k \in 1..(n + 1) /\ ~(k > n)
      BY <1>1
    <3> QED  BY <1>4, <2>1, <3>1
  <2>4. May(G, F[o], o, n + 1)
    <3>1. PICK j : j = o - 1
      OBVIOUS
    <3>2. j \in k..n /\ j + 1 = o
      BY <1>1, <2>2, <3>1
    <3>3. May(G, F[j + 1], j + 1, n + 1)
      BY <3>2
    <3> QED  BY <3>2, <3>3
  <2>5. May(G, F[k], k, n + 1)
    BY <1>1, <2>2, <2>3, <2>4
  <2>6. \A j \in (k - 1)..n : May(G, F[j + 1], j + 1, n + 1)
    <3> TAKE j \in (k - 1)..n
    <3>1. CASE j = k - 1
      <4>1. j + 1 = k
        BY <3>1
      <4> QED  BY <2>5, <4>1
    <3>2. CASE j # k - 1
      <4>1. j \in k..n
        BY <1>1, <3>2
      <4> QED  BY <4>1
    <3> QED  BY <3>1, <3>2
  <2>7. k - 1 \in 0..n
    BY <1>1
  <2> QED  BY <2>6, <2>7
<1>7. 0 \in P
  <2> HIDE DEF P
  <2>1. \A k \in 0..n : k \in P
    BY <1>1, <1>5, <1>6, Downward
  <2> QED  BY <1>1, <2>1
<1>8. May(G, F[0 + 1], 0 + 1, n + 1)
  <2>1. 0 \in 0..n
    BY <1>1
  <2> QED  BY <1>7, <2>1
<1> QED  BY <1>1, <1>2, <1>8

Ruled(w, t) == IF ByRule(w, t) = <<>> THEN <<1, <<w[1]>>>> ELSE ByRule(w, t)

LEMMA RewriteByRule ==
  ASSUME NEW w \in Seq(Instructions), Len(w) >= 1, NEW t, Table(t),
         NEW r, r = Ruled(w, t)
  PROVE  \E n \in 1..Len(w) : /\ r[1] = n /\ r[2] \in Seq(Instructions)
                              /\ Steps(r[2]) = Steps(SubSeq(w, 1, n))
<1>1. ByRule(w, t) = <<>> \/ \E n \in 1..Len(w) : ByRule(w, t) = Merge(w, n)
  BY ByRuleIs
<1>2. CASE ByRule(w, t) = <<>>
  <2>1. r = <<1, <<w[1]>>>> /\ 1 \in 1..Len(w)
    BY <1>2 DEF Ruled
  <2>2. w[1] \in Instructions
    BY <2>1, ElementOfSeq
  <2>3. <<w[1]>> \in Seq(Instructions)
    BY <2>2
  <2>4. SubSeq(w, 1, 1) = <<w[1]>>
    <3>1. PICK v : v = SubSeq(w, 1, 1)
      OBVIOUS
    <3>2. v \in Seq(Instructions) /\ Len(v) = 1 /\ v[1] = w[1]
      BY <2>1, <3>1
    <3>3. v = <<w[1]>>
      BY <3>2
    <3> QED  BY <3>1, <3>3
  <2>5. r[1] = 1 /\ r[2] = <<w[1]>>
    BY <2>1
  <2> QED  BY <2>1, <2>3, <2>4, <2>5
<1>3. ASSUME NEW n \in 1..Len(w), ByRule(w, t) = Merge(w, n)
      PROVE  \E k \in 1..Len(w) : /\ r[1] = k /\ r[2] \in Seq(Instructions)
                                  /\ Steps(r[2]) = Steps(SubSeq(w, 1, k))
  <2>1. Merge(w, n) # <<>>
    BY DEF Merge
  <2>2. r = Merge(w, n)
    BY <1>3, <2>1 DEF Ruled
  <2>3. /\ Merge(w, n)[1] = n /\ Merge(w, n)[2] \in Seq(Instructions)
        /\ Steps(Merge(w, n)[2]) = Steps(SubSeq(w, 1, n))
    BY MergeIs
  <2> QED  BY <2>2, <2>3
<1> QED  BY <1>1, <1>2, <1>3



SameSteps(c, z, x, i, j) ==
  /\ x \in Seq(Instructions) /\ i \in 1..z /\ j \in 1..z /\ i <= j
  /\ Steps(x) = Steps(SubSeq(c, i, j - 1))

Later(c, z) ==
  {t \in Seq(Instructions) \X (1..z) \X (1..z) : SameSteps(c, z, t[1], t[2], t[3])}

\* The passes after the first merge instructions and move no step.
LEMMA LaterPass ==
  ASSUME NEW c \in Seq(Instructions), NEW p \in 2..Passes
  PROVE  RunPass(c, p) \in Seq(Instructions) /\ Steps(RunPass(c, p)) = Steps(c)
<1>1. PICK n : n = Len(c)
  OBVIOUS
<1>2. n \in Nat
  BY <1>1
<1>11. PICK z : z = n + 1
  OBVIOUS
<1>12. z \in Nat /\ z >= 1 /\ n \in Nat /\ z - 1 = n /\ n + 1 = z
  BY <1>2, <1>11
<1>13. PICK G : G = Later(c, z)
  OBVIOUS
<1>3. \A x, i, j : May(G, x, i, j) <=> SameSteps(c, z, x, i, j)
  BY <1>13 DEF May, Later, SameSteps
<1>4. May(G, <<>>, z, z)
  <2>1. SubSeq(c, z, z - 1) = <<>>
    BY <1>12, SubSeqEmpty
  <2>2. PICK e, i : e = <<>> /\ i = z
    OBVIOUS
  <2>3. e \in Seq(Instructions) /\ i \in 1..z /\ i <= i /\ SubSeq(c, i, i - 1) = e
    BY <1>12, <2>1, <2>2
  <2>4. Steps(e) = Steps(SubSeq(c, i, i - 1))
    BY <2>3
  <2>5. May(G, e, i, i)
    <3>1. SameSteps(c, z, e, i, i)
      BY <2>3, <2>4 DEF SameSteps
    <3> QED  BY <1>3, <3>1
  <2> QED  BY <2>2, <2>5
<1>5. ASSUME NEW k \in 1..n
      PROVE  Onward(c, p, k) \in (k + 1)..z /\ May(G, Emitted(c, p, k), k, Onward(c, p, k))
  <2>1. PICK w, r : w = SubSeq(c, k, n) /\ r = Rewrite(w, p)
    OBVIOUS
  <2>2. w \in Seq(Instructions) /\ Len(w) = n - k + 1 /\ Len(w) >= 1
    BY <1>1, <1>12, <2>1
  <2>3. Seen(c, p, k) = w /\ Emitted(c, p, k) = r[2] /\ Onward(c, p, k) = k + (Len(w) - Len(w)) + r[1]
    <3>1. p # 1
      OBVIOUS
    <3> QED  BY <1>1, <2>1, <3>1 DEF Seen, Emitted, Onward
  <2>4. PICK t : t = Rules[p]
    OBVIOUS
  <2>5. Table(t)
    <3>1. p \in 1..Passes
      BY DEF Passes
    <3> QED  BY <2>4, <3>1, RulesAre
  <2>6. r = Ruled(w, t)
    <3>1. p # 1
      OBVIOUS
    <3> QED  BY <2>1, <2>4, <3>1 DEF Rewrite, Ruled
  <2>7. \E m \in 1..Len(w) : /\ r[1] = m /\ r[2] \in Seq(Instructions)
                             /\ Steps(r[2]) = Steps(SubSeq(w, 1, m))
    BY ONLY <2>2, <2>5, <2>6, RewriteByRule
  <2>8. PICK m \in 1..Len(w) : /\ r[1] = m /\ r[2] \in Seq(Instructions)
                               /\ Steps(r[2]) = Steps(SubSeq(w, 1, m))
    BY <2>7
  <2>9. SubSeq(w, 1, m) = SubSeq(c, k, k + m - 1)
    <3>1. PICK v, u : v = SubSeq(w, 1, m) /\ u = SubSeq(c, k, k + m - 1)
      OBVIOUS
    <3>2. v \in Seq(Instructions) /\ Len(v) = m /\ \A l \in 1..m : v[l] = w[l]
      BY <2>2, <3>1
    <3>3. u \in Seq(Instructions) /\ Len(u) = m /\ \A l \in 1..m : u[l] = c[k + l - 1]
      BY <1>1, <1>12, <2>2, <3>1
    <3>4. \A l \in 1..m : w[l] = c[k + l - 1]
      BY <1>1, <1>12, <2>1, <2>2
    <3>5. v \in Seq(Instructions) /\ u \in Seq(Instructions) /\ Len(v) = Len(u)
          /\ \A l \in 1..Len(v) : v[l] = u[l]
      BY <3>2, <3>3, <3>4
    <3>6. v = u
      BY ONLY <3>5, SeqEqual
    <3> QED  BY <3>1, <3>6
  <2>10. PICK o : o = k + m
    OBVIOUS
  <2>11. Onward(c, p, k) = o /\ o \in (k + 1)..z /\ o - 1 = k + m - 1 /\ o \in 1..z /\ k <= o
    BY <1>12, <2>2, <2>3, <2>8, <2>10
  <2>12. May(G, r[2], k, o)
    <3>1. Steps(r[2]) = Steps(SubSeq(c, k, o - 1))
      BY <2>8, <2>9, <2>11
    <3>2. k \in 1..z
      BY <1>12
    <3>3. SameSteps(c, z, r[2], k, o)
      BY <2>8, <2>11, <3>1, <3>2 DEF SameSteps
    <3> QED  BY <1>3, <3>3
  <2> QED  BY <2>3, <2>11, <2>12
<1>6. ASSUME NEW x, NEW y, NEW i, NEW j, May(G, x, i, j), May(G, y, j, z)
      PROVE  May(G, x \o y, i, z)
  <2>1. /\ x \in Seq(Instructions) /\ y \in Seq(Instructions)
        /\ i \in 1..z /\ j \in 1..z /\ i <= j
        /\ Steps(x) = Steps(SubSeq(c, i, j - 1)) /\ Steps(y) = Steps(SubSeq(c, j, z - 1))
    <3>1. SameSteps(c, z, x, i, j) /\ SameSteps(c, z, y, j, z)
      BY <1>3, <1>6
    <3> QED  BY <3>1 DEF SameSteps
  <2>2. PICK u, v, w, k : /\ u = SubSeq(c, i, k) /\ v = SubSeq(c, k + 1, n) /\ w = SubSeq(c, i, n)
                          /\ k = j - 1
    OBVIOUS
  <2>3. /\ k \in (i - 1)..n /\ k + 1 = j /\ z - 1 = n /\ n \in k..n /\ i \in 1..z
    BY <1>12, <2>1, <2>2
  <2>4. u \o v = w
    <3>1. i \in 1..(Len(c) + 1) /\ k \in (i - 1)..Len(c) /\ n \in k..Len(c)
      BY <1>1, <1>12, <2>3
    <3>2. c \in Seq(Instructions)
      OBVIOUS
    <3>3. SubSeq(c, i, k) \o SubSeq(c, k + 1, n) = SubSeq(c, i, n)
      BY ONLY <3>1, <3>2, ConcatAdjacentSubSeq
    <3> QED  BY <2>2, <3>3
  <2>5. u \in Seq(Instructions) /\ v \in Seq(Instructions)
    BY <1>1, <1>12, <2>2, <2>3, SMTT(30)
  <2>6. Steps(w) = Steps(u) \o Steps(v)
    BY <2>4, <2>5, StepsConcat
  <2>7. Steps(x \o y) = Steps(x) \o Steps(y)
    BY <2>1, StepsConcat
  <2>8. Steps(x \o y) = Steps(SubSeq(c, i, z - 1))
    BY <2>1, <2>2, <2>3, <2>6, <2>7
  <2>9. x \o y \in Seq(Instructions) /\ z \in 1..z /\ i <= z
    BY <1>12, <2>1
  <2>10. SameSteps(c, z, x \o y, i, z)
    BY <2>1, <2>8, <2>9 DEF SameSteps
  <2> QED  BY <1>3, <2>10
<1>7. May(G, RunPass(c, p), 1, z)
  <2>1. /\ Len(c) \in Nat /\ May(G, <<>>, Len(c) + 1, Len(c) + 1)
        /\ \A k \in 1..Len(c) : /\ Onward(c, p, k) \in (k + 1)..(Len(c) + 1)
                                /\ May(G, Emitted(c, p, k), k, Onward(c, p, k))
        /\ \A x, y, i, j : May(G, x, i, j) /\ May(G, y, j, Len(c) + 1)
                             => May(G, x \o y, i, Len(c) + 1)
    BY <1>1, <1>12, <1>4, <1>5, <1>6
  <2>2. May(G, RunPass(c, p), 1, Len(c) + 1)
    BY ONLY <2>1, PassIs
  <2> QED  BY <1>1, <1>12, <2>2
<1>8. RunPass(c, p) \in Seq(Instructions) /\ Steps(RunPass(c, p)) = Steps(SubSeq(c, 1, z - 1))
  <2>1. SameSteps(c, z, RunPass(c, p), 1, z)
    BY <1>3, <1>7
  <2> QED  BY <2>1 DEF SameSteps
<1>9. SubSeq(c, 1, z - 1) = c
  <2>1. z - 1 = Len(c)
    BY <1>1, <1>12
  <2> QED  BY <2>1, SubSeqFull
<1> QED  BY <1>8, <1>9

-----------------------------------------------------------------------------
(* The first pass                                                          *)

LEMMA SliceIs ==
  ASSUME NEW T, NEW s \in Seq(T), NEW i \in 1..(Len(s) + 1), NEW j \in (i - 1)..Len(s),
         NEW u, u = SubSeq(s, i, j)
  PROVE  /\ u \in Seq(T) /\ Len(u) = j - i + 1 /\ Len(u) \in Nat
         /\ \A x \in 1..Len(u) : i + x - 1 \in 1..Len(s) /\ u[x] = s[i + x - 1]
<1>1. Len(s) \in Nat
  OBVIOUS
<1>2. u \in Seq(T) /\ Len(u) = j - i + 1
  BY <1>1
<1>3. \A x \in 1..(j - i + 1) : i + x - 1 \in 1..Len(s) /\ u[x] = s[i + x - 1]
  BY <1>1
<1> QED  BY <1>1, <1>2, <1>3

LEMMA HeadedIs ==
  ASSUME NEW T, NEW h \in T, NEW t \in Seq(T), NEW v, v = <<h>> \o t
  PROVE  /\ v \in Seq(T) /\ Len(v) = 1 + Len(t) /\ Len(t) \in Nat /\ v[1] = h
         /\ \A x \in 1..Len(t) : 1 + x \in 1..Len(v) /\ v[1 + x] = t[x]
<1>1. PICK a : a = <<h>>
  OBVIOUS
<1>2. a \in Seq(T) /\ Len(a) = 1 /\ a[1] = h
  BY <1>1
<1>3. v = a \o t
  BY <1>1
<1>4. /\ v \in Seq(T) /\ Len(v) = Len(a) + Len(t) /\ Len(t) \in Nat
      /\ \A k \in 1..Len(a) : k \in 1..Len(v) /\ v[k] = a[k]
      /\ \A k \in 1..Len(t) : Len(a) + k \in 1..Len(v) /\ v[Len(a) + k] = t[k]
  <2>1. a \in Seq(T) /\ t \in Seq(T) /\ v = a \o t
    BY <1>2, <1>3
  <2> QED  BY ONLY <2>1, AppendedIs
<1> QED  BY <1>2, <1>4

\* the front of a sequence made of h and the part of w from a on
LEMMA HeadedFront ==
  ASSUME NEW T, NEW h \in T, NEW w \in Seq(T), NEW a \in 1..(Len(w) + 1),
         NEW v, v = <<h>> \o SubSeq(w, a, Len(w)), NEW n \in 1..Len(v)
  PROVE  SubSeq(v, 1, n) = <<h>> \o SubSeq(w, a, a + n - 2)
<1>1. PICK t, f, g, e, b : /\ t = SubSeq(w, a, Len(w)) /\ f = SubSeq(v, 1, n)
                           /\ b = a + n - 2 /\ g = SubSeq(w, a, b) /\ e = <<h>> \o g
  OBVIOUS
<1>2. Len(w) \in Nat /\ Len(w) \in (a - 1)..Len(w)
  OBVIOUS
<1>3. /\ t \in Seq(T) /\ Len(t) = Len(w) - a + 1
      /\ \A x \in 1..Len(t) : t[x] = w[a + x - 1]
  <2>1. t = SubSeq(w, a, Len(w)) /\ w \in Seq(T) /\ a \in 1..(Len(w) + 1)
    BY <1>1
  <2> QED  BY ONLY <1>2, <2>1, SliceIs
<1>4. /\ v \in Seq(T) /\ Len(v) = 1 + Len(t) /\ v[1] = h
      /\ \A x \in 1..Len(t) : v[1 + x] = t[x]
  <2>1. t \in Seq(T) /\ v = <<h>> \o t /\ h \in T
    BY <1>1, <1>3
  <2> QED  BY ONLY <2>1, HeadedIs
<1>5. b \in (a - 1)..Len(w) /\ b - a + 1 = n - 1 /\ n - 1 <= Len(t)
  BY <1>1, <1>2, <1>3, <1>4
<1>6. /\ g \in Seq(T) /\ Len(g) = n - 1
      /\ \A x \in 1..Len(g) : g[x] = w[a + x - 1]
  <2>1. g = SubSeq(w, a, b) /\ w \in Seq(T) /\ a \in 1..(Len(w) + 1)
    BY <1>1
  <2>2. /\ g \in Seq(T) /\ Len(g) = b - a + 1
        /\ \A x \in 1..Len(g) : g[x] = w[a + x - 1]
    BY ONLY <1>5, <2>1, SliceIs
  <2> QED  BY <1>5, <2>2
<1>7. /\ e \in Seq(T) /\ Len(e) = 1 + Len(g) /\ e[1] = h
      /\ \A x \in 1..Len(g) : e[1 + x] = g[x]
  <2>1. e = <<h>> \o g /\ h \in T
    BY <1>1
  <2> QED  BY ONLY <1>6, <2>1, HeadedIs
<1>8. f \in Seq(T) /\ Len(f) = n /\ \A x \in 1..n : f[x] = v[x]
  <2>1. n \in 1..Len(v) /\ Len(v) \in Nat
    BY <1>4
  <2>2. f = SubSeq(v, 1, n)
    BY <1>1
  <2> QED  BY ONLY <1>4, <2>1, <2>2
<1>9. ASSUME NEW x \in 1..n  PROVE f[x] = e[x]
  <2>1. CASE x = 1
    BY <1>4, <1>7, <1>8, <2>1
  <2>2. CASE x # 1
    <3>1. PICK y : y = x - 1
      OBVIOUS
    <3>2. Len(v) \in Nat
      BY <1>4
    <3>3. y \in 1..(n - 1) /\ 1 + y = x
      BY <2>2, <3>1, <3>2
    <3>4. y \in 1..Len(t) /\ y \in 1..Len(g)
      BY <1>3, <1>4, <1>5, <1>6, <3>2, <3>3
    <3>5. v[1 + y] = t[y] /\ t[y] = w[a + y - 1] /\ e[1 + y] = g[y] /\ g[y] = w[a + y - 1]
      BY <1>3, <1>4, <1>6, <1>7, <3>4
    <3> QED  BY <1>8, <3>3, <3>5
  <2> QED  BY <2>1, <2>2
<1>10. Len(e) = n
  <2>1. Len(v) \in Nat
    BY <1>4
  <2> QED  BY <1>6, <1>7, <2>1
<1>11. Len(f) = Len(e) /\ \A x \in 1..Len(f) : f[x] = e[x]
  BY <1>8, <1>9, <1>10
<1>12. f = e
  BY ONLY <1>7, <1>8, <1>11, SeqEqual
<1> QED  BY <1>1, <1>12

LEMMA PlainIs ==
  ASSUME NEW p \in Prims
  PROVE  /\ Plain(p) \in Instructions /\ Plain(p).op = <<p.op>> /\ Plain(p).body = <<p>>
         /\ First(Plain(p)) = p
         /\ <<Plain(p)>> \in Seq(Instructions) /\ Steps(<<Plain(p)>>) = <<p>>
<1>1. p.op \in Names
  BY DEF Prims, Names
<1>2. <<p.op>> \in Seq(Names) /\ <<p>> \in Seq(Prims)
  BY <1>1
<1>3. Plain(p) \in Instructions /\ Plain(p).op = <<p.op>> /\ Plain(p).body = <<p>>
  BY <1>2 DEF Plain, Instructions
<1>4. First(Plain(p)) = p
  BY <1>3 DEF First
<1>5. PICK i : i = Plain(p)
  OBVIOUS
<1>6. i \in Instructions /\ i.body = <<p>>
  BY <1>3, <1>5
<1>7. <<i>> \in Seq(Instructions) /\ Steps(<<i>>) = <<p>>
  <2>1. Steps(<<i>>) = i.body
    BY ONLY <1>6, StepsOne
  <2> QED  BY <1>6, <2>1
<1> QED  BY <1>3, <1>4, <1>5, <1>7

LEMMA StepsPlain ==
  ASSUME NEW u \in Seq(Prims), NEW v \in Seq(Instructions), Len(v) = Len(u),
         \A x \in 1..Len(u) : v[x] = Plain(u[x])
  PROVE  Steps(v) = u
<1>1. PICK n : n = Len(u)
  OBVIOUS
<1>2. n \in Nat /\ n = Len(v)
  BY <1>1
<1> DEFINE P == {k \in 0..n : Steps(SubSeq(v, 1, k)) = SubSeq(u, 1, k)}
<1>3. 0 \in P
  <2>1. SubSeq(v, 1, 0) = <<>> /\ SubSeq(u, 1, 0) = <<>>
    BY SubSeqEmpty
  <2>2. 0 \in 0..n
    BY <1>2
  <2> QED  BY <2>1, <2>2, StepsEmpty
<1>4. \A k \in 1..n : k - 1 \in P => k \in P
  <2> SUFFICES ASSUME NEW k \in 1..n, k - 1 \in P  PROVE k \in P
    OBVIOUS
  <2>1. PICK j : j = k - 1
    OBVIOUS
  <2>2. j \in 0..n /\ Steps(SubSeq(v, 1, j)) = SubSeq(u, 1, j) /\ j = k - 1
    BY <2>1
  <2>3. SubSeq(v, 1, k) = SubSeq(v, 1, j) \o <<v[k]>>
    <3>1. 1 \in 1..Len(v) /\ k \in 1..Len(v)
      BY <1>2
    <3>2. SubSeq(v, 1, k) = SubSeq(v, 1, k - 1) \o <<v[k]>>
      BY <3>1, SubSeqRecursiveSecond
    <3> QED  BY <2>1, <3>2
  <2>4. SubSeq(u, 1, k) = SubSeq(u, 1, j) \o <<u[k]>>
    <3>1. 1 \in 1..Len(u) /\ k \in 1..Len(u)
      BY <1>1
    <3>2. SubSeq(u, 1, k) = SubSeq(u, 1, k - 1) \o <<u[k]>>
      BY <3>1, SubSeqRecursiveSecond
    <3> QED  BY <2>1, <3>2
  <2>5. PICK p : p = u[k]
    OBVIOUS
  <2>6. p \in Prims /\ v[k] = Plain(p)
    BY <1>1, <2>5, ElementOfSeq
  <2>7. <<v[k]>> \in Seq(Instructions) /\ Steps(<<v[k]>>) = <<u[k]>>
    <3>1. <<Plain(p)>> \in Seq(Instructions) /\ Steps(<<Plain(p)>>) = <<p>>
      BY <2>6, PlainIs
    <3> QED  BY <2>5, <2>6, <3>1
  <2>8. SubSeq(v, 1, j) \in Seq(Instructions)
    BY <1>2, <2>2
  <2>9. Steps(SubSeq(v, 1, j) \o <<v[k]>>) = Steps(SubSeq(v, 1, j)) \o Steps(<<v[k]>>)
    <3>1. PICK a, b : a = SubSeq(v, 1, j) /\ b = <<v[k]>>
      OBVIOUS
    <3>2. a \in Seq(Instructions) /\ b \in Seq(Instructions)
      BY <2>7, <2>8, <3>1
    <3>3. Steps(a \o b) = Steps(a) \o Steps(b)
      BY ONLY <3>2, StepsConcat
    <3> QED  BY ONLY <3>1, <3>3
  <2>10. Steps(SubSeq(v, 1, k)) = SubSeq(u, 1, k)
    BY <2>2, <2>3, <2>4, <2>7, <2>9
  <2> QED  BY <2>10
<1>5. n \in P
  <2> HIDE DEF P
  <2>1. \A k \in 0..n : k \in P
    BY <1>2, <1>3, <1>4, Upward
  <2> QED  BY <1>2, <2>1
<1>6. SubSeq(v, 1, n) = v /\ SubSeq(u, 1, n) = u
  BY <1>1, <1>2, SubSeqFull
<1> QED  BY <1>5, <1>6

LEMMA LowerIs ==
  ASSUME NEW s \in Seq(Prims)
  PROVE  /\ Lower(s) \in Seq(Instructions) /\ Len(Lower(s)) = Len(s) /\ Len(s) \in Nat
         /\ \A k \in 1..Len(s) : Lower(s)[k] = Plain(s[k])
         /\ Steps(Lower(s)) = s
<1>1. \A k \in 1..Len(s) : s[k] \in Prims /\ Plain(s[k]) \in Instructions
  BY ElementOfSeq, PlainIs
<1>2. PICK v : v = Lower(s)
  OBVIOUS
<1>3. /\ v \in Seq(Instructions) /\ Len(v) = Len(s)
      /\ \A k \in 1..Len(s) : v[k] = Plain(s[k])
  <2>1. v = [k \in 1..Len(s) |-> Plain(s[k])]
    BY <1>2 DEF Lower
  <2> QED  BY <1>1, <2>1
<1>4. Steps(v) = s
  BY <1>3, StepsPlain
<1> QED  BY <1>2, <1>3, <1>4

\* w is what is left of the block s, as it was lowered, from its k-th step on
Window(w, s, k) ==
  /\ w \in Seq(Instructions) /\ Len(w) = Len(s) - k + 1
  /\ \A x \in 1..Len(w) : w[x] = Plain(s[k + x - 1])

LEMMA WindowSteps ==
  ASSUME NEW s \in Seq(Prims), NEW k \in 1..Len(s), NEW w, Window(w, s, k),
         NEW a \in 1..(Len(w) + 1), NEW b \in (a - 1)..Len(w)
  PROVE  /\ SubSeq(w, a, b) \in Seq(Instructions)
         /\ Steps(SubSeq(w, a, b)) = SubSeq(s, k + a - 1, k + b - 1)
<1>1. /\ w \in Seq(Instructions) /\ Len(w) = Len(s) - k + 1
      /\ \A x \in 1..Len(w) : w[x] = Plain(s[k + x - 1])
  BY DEF Window
<1>2. PICK v, u, i, j : /\ v = SubSeq(w, a, b) /\ i = k + a - 1 /\ j = k + b - 1
                        /\ u = SubSeq(s, i, j)
  OBVIOUS
<1>3. /\ i \in 1..(Len(s) + 1) /\ j \in (i - 1)..Len(s) /\ j - i = b - a /\ i = k + a - 1
      /\ a \in Nat /\ b \in Nat /\ Len(s) \in Nat
  BY <1>1, <1>2
<1>4. /\ v \in Seq(Instructions) /\ Len(v) = b - a + 1
      /\ \A x \in 1..(b - a + 1) : v[x] = w[a + x - 1]
  BY <1>1, <1>2, <1>3
<1>5. /\ u \in Seq(Prims) /\ Len(u) = j - i + 1
      /\ \A x \in 1..(j - i + 1) : u[x] = s[i + x - 1]
  <2>1. u = SubSeq(s, i, j) /\ s \in Seq(Prims)
    BY <1>2
  <2>2. /\ u \in Seq(Prims) /\ Len(u) = j - i + 1
        /\ \A x \in 1..Len(u) : u[x] = s[i + x - 1]
    BY ONLY <1>3, <2>1, SliceIs
  <2> QED  BY <2>2
<1>6. \A x \in 1..Len(u) : v[x] = Plain(u[x])
  <2> TAKE x \in 1..Len(u)
  <2>1. x \in 1..(b - a + 1) /\ x \in 1..(j - i + 1)
    BY <1>3, <1>5
  <2>2. PICK y : y = a + x - 1
    OBVIOUS
  <2>3. y \in 1..Len(w) /\ k + y - 1 = i + x - 1
    BY <1>1, <1>3, <2>1, <2>2
  <2>4. w[y] = Plain(s[k + y - 1])
    BY <1>1, <2>3
  <2> QED  BY <1>4, <1>5, <2>1, <2>2, <2>3, <2>4
<1>7. Len(v) = Len(u)
  BY <1>3, <1>4, <1>5
<1>8. Steps(v) = u
  BY <1>4, <1>5, <1>6, <1>7, StepsPlain
<1> QED  BY <1>2, <1>4, <1>8

\* each front of w stands in for the steps from k to o steps further
Fronts(s, D, w, k, o) ==
  \A n \in 1..Len(w) : Serves(s, D, Steps(SubSeq(w, 1, n)), k, k + o + n - 1)

\* v is w with its first o + 1 steps replaced by q
Splice(v, q, w, o) == v = <<Plain(q)>> \o SubSeq(w, o + 2, Len(w))

LEMMA Spliced ==
  ASSUME NEW s, NEW D, Stacked(s, D), NEW k \in 1..Len(s), NEW w, Window(w, s, k),
         NEW o \in Nat, NEW y0, y0 = k + o, y0 <= Len(s),
         NEW q \in Prims, NEW z, z = <<q>>, Serves(s, D, z, k, y0),
         NEW v, Splice(v, q, w, o)
  PROVE  /\ v \in Seq(Instructions) /\ Len(v) = Len(w) - o /\ v[1] = Plain(q)
         /\ Fronts(s, D, v, k, o)
<1>1. s \in Seq(Prims) /\ Len(s) \in Nat
  BY StackedIs
<1>2. w \in Seq(Instructions) /\ Len(w) = Len(s) - k + 1 /\ Len(w) \in Nat
  BY <1>1 DEF Window
<1>3. /\ Plain(q) \in Instructions /\ <<Plain(q)>> \in Seq(Instructions)
      /\ Steps(<<Plain(q)>>) = <<q>>
  BY PlainIs
<1>4. PICK h, a, t : h = Plain(q) /\ a = o + 2 /\ t = SubSeq(w, a, Len(w))
  OBVIOUS
<1>5. /\ h \in Instructions /\ <<h>> \in Seq(Instructions) /\ Steps(<<h>>) = <<q>>
      /\ v = <<h>> \o t
  BY <1>3, <1>4 DEF Splice
<1>6. a \in 1..(Len(w) + 1) /\ Len(w) \in (a - 1)..Len(w) /\ Len(w) - a + 1 = Len(w) - o - 1
  BY <1>1, <1>2, <1>4
<1>7. t \in Seq(Instructions) /\ Len(t) = Len(w) - o - 1
  <2>1. t \in Seq(Instructions) /\ Len(t) = Len(w) - a + 1
    BY ONLY <1>2, <1>4, <1>6, SliceIs
  <2> QED  BY <1>6, <2>1
<1>8. v \in Seq(Instructions) /\ Len(v) = Len(w) - o /\ v[1] = h
  <2>1. v \in Seq(Instructions) /\ Len(v) = 1 + Len(t) /\ v[1] = h
    BY ONLY <1>5, <1>7, HeadedIs
  <2> QED  BY <1>2, <1>7, <2>1
<1>9. ASSUME NEW n \in 1..Len(v)
      PROVE  Serves(s, D, Steps(SubSeq(v, 1, n)), k, k + o + n - 1)
  <2>1. PICK f, g, b : f = SubSeq(v, 1, n) /\ g = SubSeq(w, a, b) /\ b = a + n - 2
    OBVIOUS
  <2>2. f = <<h>> \o g
    <3>1. /\ h \in Instructions /\ w \in Seq(Instructions) /\ a \in 1..(Len(w) + 1)
          /\ v = <<h>> \o SubSeq(w, a, Len(w)) /\ n \in 1..Len(v)
      BY <1>2, <1>4, <1>5, <1>6
    <3>2. SubSeq(v, 1, n) = <<h>> \o SubSeq(w, a, a + n - 2)
      BY ONLY <3>1, HeadedFront
    <3> QED  BY <2>1, <3>2
  <2>3. b \in (a - 1)..Len(w) /\ n \in 1..(Len(w) - o)
    BY <1>2, <1>4, <1>6, <1>8, <2>1
  <2>4. g \in Seq(Instructions) /\ Steps(g) = SubSeq(s, k + a - 1, k + b - 1)
    <3>1. /\ s \in Seq(Prims) /\ k \in 1..Len(s) /\ Window(w, s, k)
          /\ a \in 1..(Len(w) + 1) /\ b \in (a - 1)..Len(w)
      BY <1>1, <1>6, <2>3
    <3>2. /\ SubSeq(w, a, b) \in Seq(Instructions)
          /\ Steps(SubSeq(w, a, b)) = SubSeq(s, k + a - 1, k + b - 1)
      BY ONLY <3>1, WindowSteps
    <3> QED  BY <2>1, <3>2
  <2>6. Steps(f) = Steps(<<h>>) \o Steps(g)
    <3>1. PICK e : e = <<h>>
      OBVIOUS
    <3>2. e \in Seq(Instructions) /\ f = e \o g
      BY <1>5, <2>2, <3>1
    <3>3. Steps(e \o g) = Steps(e) \o Steps(g)
      BY ONLY <2>4, <3>2, StepsConcat
    <3> QED  BY ONLY <3>1, <3>2, <3>3
  <2>7. PICK j, l : j = k + o /\ l = k + o + n - 1
    OBVIOUS
  <2>8. /\ j + 1 = k + a - 1 /\ l = k + b - 1 /\ j \in (k - 1)..Len(s) /\ l \in j..Len(s)
        /\ j + 1 \in 1..(Len(s) + 1) /\ l \in (j + 1 - 1)..Len(s) /\ k \in 1..(Len(s) + 1)
    BY <1>1, <1>2, <1>4, <2>1, <2>3, <2>7
  <2>9. Serves(s, D, SubSeq(s, j + 1, l), j + 1, l)
    BY <2>8, ServesSame
  <2>10. PICK x, y : x = Steps(<<h>>) /\ y = Steps(g)
    OBVIOUS
  <2>11. y = SubSeq(s, j + 1, l) /\ x = <<q>>
    BY <1>5, <2>4, <2>8, <2>10
  <2>12. Serves(s, D, x, k, j) /\ Serves(s, D, y, j + 1, l)
    BY <2>7, <2>9, <2>11
  <2>13. Serves(s, D, x \o y, k, l)
    BY <2>8, <2>12, ServesConcat
  <2> QED  BY <2>1, <2>6, <2>7, <2>10, <2>13
<1>10. Fronts(s, D, v, k, o)
  BY <1>9 DEF Fronts
<1> QED  BY <1>4, <1>8, <1>10

LEMMA StartsTwo ==
  ASSUME NEW w, NEW a, NEW b, Starts(w, <<a, b>>)
  PROVE  2 <= Len(w) /\ w[1].op = <<a>> /\ w[2].op = <<b>>
<1>1. PICK o : o = [k \in DOMAIN <<a, b>> |-> <<<<a, b>>[k]>>]
  OBVIOUS
<1>2. Len(o) = 2 /\ DOMAIN o = 1..2 /\ o[1] = <<a>> /\ o[2] = <<b>>
  BY <1>1
<1>3. Len(o) <= Len(w) /\ \A k \in DOMAIN o : w[k].op = o[k]
  BY <1>1 DEF Starts, IsNext
<1> QED  BY <1>2, <1>3

LEMMA StartsThree ==
  ASSUME NEW w, NEW a, NEW b, NEW c, Starts(w, <<a, b, c>>)
  PROVE  3 <= Len(w) /\ w[1].op = <<a>> /\ w[2].op = <<b>> /\ w[3].op = <<c>>
<1>1. PICK o : o = [k \in DOMAIN <<a, b, c>> |-> <<<<a, b, c>>[k]>>]
  OBVIOUS
<1>2. /\ Len(o) = 3 /\ DOMAIN o = 1..3 /\ o[1] = <<a>> /\ o[2] = <<b>> /\ o[3] = <<c>>
  BY <1>1
<1>3. Len(o) <= Len(w) /\ \A k \in DOMAIN o : w[k].op = o[k]
  BY <1>1 DEF Starts, IsNext
<1> QED  BY <1>2, <1>3

LEMMA StartsFour ==
  ASSUME NEW w, NEW a, NEW b, NEW c, NEW d, Starts(w, <<a, b, c, d>>)
  PROVE  /\ 4 <= Len(w) /\ w[1].op = <<a>> /\ w[2].op = <<b>> /\ w[3].op = <<c>>
         /\ w[4].op = <<d>>
<1>1. PICK o : o = [k \in DOMAIN <<a, b, c, d>> |-> <<<<a, b, c, d>>[k]>>]
  OBVIOUS
<1>2. /\ Len(o) = 4 /\ DOMAIN o = 1..4
      /\ o[1] = <<a>> /\ o[2] = <<b>> /\ o[3] = <<c>> /\ o[4] = <<d>>
  BY <1>1
<1>3. Len(o) <= Len(w) /\ \A k \in DOMAIN o : w[k].op = o[k]
  BY <1>1 DEF Starts, IsNext
<1> QED  BY <1>2, <1>3

LEMMA StartsNone == ASSUME NEW w, Len(w) \in Nat  PROVE Starts(w, <<>>)
<1>1. PICK o : o = [k \in DOMAIN <<>> |-> <<<<>>[k]>>]
  OBVIOUS
<1>2. Len(o) = 0 /\ DOMAIN o = {}
  <2>1. DOMAIN <<>> = {}
    OBVIOUS
  <2>2. o = <<>>
    BY <1>1, <2>1
  <2> QED  BY <2>1, <2>2
<1>3. IsNext(w, o)
  BY <1>2 DEF IsNext
<1> QED  BY <1>1, <1>3 DEF Starts

\* the x-th instruction of a window is the step it was lowered from
LEMMA WindowIs ==
  ASSUME NEW s, NEW D, Stacked(s, D), NEW k \in 1..Len(s), NEW w, Window(w, s, k),
         NEW x \in 1..Len(w), NEW i, i = k + x - 1
  PROVE  /\ i \in 1..Len(s) /\ s[i] \in Prims /\ s[i].id = i
         /\ D[i - 1] \in Nat /\ D[i] \in Nat /\ Fits(s[i], D[i - 1], D[i])
         /\ w[x].op = <<s[i].op>> /\ First(w[x]) = s[i]
<1>1. /\ Len(s) \in Nat
      /\ \A y \in 1..Len(s) :
           /\ s[y] \in Prims /\ s[y].id = y
           /\ D[y - 1] \in Nat /\ D[y] \in Nat
           /\ Fits(s[y], D[y - 1], D[y])
  BY StackedIs
<1>2. Len(w) = Len(s) - k + 1 /\ w[x] = Plain(s[i])
  BY DEF Window
<1>3. i \in 1..Len(s)
  BY <1>1, <1>2
<1>4. PICK p : p = s[i]
  OBVIOUS
<1>5. p \in Prims
  BY <1>1, <1>3, <1>4
<1>6. Plain(p).op = <<p.op>> /\ First(Plain(p)) = p
  BY <1>5, PlainIs
<1> QED  BY <1>1, <1>2, <1>3, <1>4, <1>6

LEMMA FitsCopy ==
  ASSUME NEW p, NEW a, NEW b, Fits(p, a, b), p.op \in Copies
  PROVE  CopyOf(p, a, b)
BY DEF Fits, StackOf

LEMMA FitsStack ==
  ASSUME NEW p, NEW a, NEW b, Fits(p, a, b), p.op \notin Copies
  PROVE  StackOf(p, a, b)
BY DEF Fits, CopyOf

LEMMA SliceTwo ==
  ASSUME NEW T, NEW s \in Seq(T), NEW i \in 1..Len(s), i + 1 <= Len(s)
  PROVE  SubSeq(s, i, i + 1) = <<s[i], s[i + 1]>>
<1>1. PICK j, u : j = i + 1 /\ u = SubSeq(s, i, j)
  OBVIOUS
<1>2. s \in Seq(T) /\ i \in 1..(Len(s) + 1) /\ j \in (i - 1)..Len(s) /\ u = SubSeq(s, i, j)
  BY <1>1
<1>3. /\ u \in Seq(T) /\ Len(u) = j - i + 1
      /\ \A x \in 1..Len(u) : u[x] = s[i + x - 1]
  BY ONLY <1>2, SliceIs
<1>4. i + 1 - 1 = i /\ i + 2 - 1 = j /\ j - i + 1 = 2 /\ Len(u) = 2
  BY <1>1, <1>3
<1>5. u[1] = s[i] /\ u[2] = s[j]
  <2>1. u[1] = s[i + 1 - 1] /\ u[2] = s[i + 2 - 1]
    BY <1>3, <1>4
  <2> QED  BY ONLY <1>4, <2>1
<1>6. u = <<s[i], s[j]>>
  <2>1. PICK x, y : x = s[i] /\ y = s[j]
    OBVIOUS
  <2>2. u \in Seq(T) /\ Len(u) = 2 /\ u[1] = x /\ u[2] = y
    BY <1>3, <1>4, <1>5, <2>1
  <2>3. u = <<x, y>>
    BY ONLY <2>2
  <2> QED  BY <2>1, <2>3
<1> QED  BY <1>1, <1>6

LEMMA SliceThree ==
  ASSUME NEW T, NEW s \in Seq(T), NEW i \in 1..Len(s), i + 2 <= Len(s)
  PROVE  SubSeq(s, i, i + 2) = <<s[i], s[i + 1], s[i + 2]>>
<1>1. PICK j, u : j = i + 2 /\ u = SubSeq(s, i, j)
  OBVIOUS
<1>2. s \in Seq(T) /\ i \in 1..(Len(s) + 1) /\ j \in (i - 1)..Len(s) /\ u = SubSeq(s, i, j)
  BY <1>1
<1>3. /\ u \in Seq(T) /\ Len(u) = j - i + 1
      /\ \A x \in 1..Len(u) : u[x] = s[i + x - 1]
  BY ONLY <1>2, SliceIs
<1>4. i + 1 - 1 = i /\ i + 2 - 1 = i + 1 /\ i + 3 - 1 = j /\ j - i + 1 = 3 /\ Len(u) = 3
  BY <1>1, <1>3
<1>5. u[1] = s[i] /\ u[2] = s[i + 1] /\ u[3] = s[j]
  BY <1>3, <1>4
<1>6. u = <<s[i], s[i + 1], s[j]>>
  BY <1>3, <1>4, <1>5
<1> QED  BY <1>1, <1>6

LEMMA SliceFour ==
  ASSUME NEW T, NEW s \in Seq(T), NEW i \in 1..Len(s), i + 3 <= Len(s)
  PROVE  SubSeq(s, i, i + 3) = <<s[i], s[i + 1], s[i + 2], s[i + 3]>>
<1>1. PICK j, u : j = i + 3 /\ u = SubSeq(s, i, j)
  OBVIOUS
<1>2. s \in Seq(T) /\ i \in 1..(Len(s) + 1) /\ j \in (i - 1)..Len(s) /\ u = SubSeq(s, i, j)
  BY <1>1
<1>3. /\ u \in Seq(T) /\ Len(u) = j - i + 1
      /\ \A x \in 1..Len(u) : u[x] = s[i + x - 1]
  BY ONLY <1>2, SliceIs
<1>4. /\ i + 1 - 1 = i /\ i + 2 - 1 = i + 1 /\ i + 3 - 1 = i + 2 /\ i + 4 - 1 = j
      /\ j - i + 1 = 4 /\ Len(u) = 4
  BY <1>1, <1>3
<1>5. u[1] = s[i] /\ u[2] = s[i + 1] /\ u[3] = s[i + 2] /\ u[4] = s[j]
  BY <1>3, <1>4
<1>6. u = <<s[i], s[i + 1], s[i + 2], s[j]>>
  BY <1>3, <1>4, <1>5
<1> QED  BY <1>1, <1>6

\* one step that does what the i-th to the j-th do
LEMMA ServesByOne ==
  ASSUME NEW s, NEW D, NEW i, NEW j, NEW q \in Prims, q.id \in i..j,
         NEW h, NEW a, NEW b, h = SubSeq(s, i, j), a = D[i - 1], b = D[j],
         Sim(h, a, <<q>>, b)
  PROVE  Serves(s, D, <<q>>, i, j)
<1>1. <<q>> \in Seq(Prims) /\ Len(<<q>>) = 1 /\ \A k \in 1..1 : <<q>>[k] = q
  OBVIOUS
<1>2. Ordered(<<q>>) /\ \A k \in 1..Len(<<q>>) : <<q>>[k].id \in i..j
  BY <1>1 DEF Ordered
<1> QED  BY <1>1, <1>2 DEF Serves

LEMMA CopySource ==
  ASSUME NEW p \in Prims, NEW a \in Nat, NEW b, CopyOf(p, a, b)
  PROVE  p.src[1] \in Int /\ p.src = <<p.src[1]>> /\ p.src \in Seq(Int)
<1>1. \E x \in Int : p.src = <<x>>
  BY LocalsAreNegative DEF CopyOf
<1> QED  BY <1>1 DEF Prims

\* the four steps a window starts with, as far as they are there
LEMMA WindowSteps4 ==
  ASSUME NEW s, NEW D, Stacked(s, D), NEW k \in 1..Len(s), NEW w, Window(w, s, k),
         NEW n \in 0..3, n + 1 <= Len(w), NEW i, i = k + n
  PROVE  /\ i \in 1..Len(s) /\ s[i] \in Prims /\ s[i].id = i
         /\ D[i - 1] \in Nat /\ D[i] \in Nat /\ Fits(s[i], D[i - 1], D[i])
         /\ w[n + 1].op = <<s[i].op>> /\ First(w[n + 1]) = s[i]
<1>1. Len(w) \in Nat /\ k \in Nat
  BY DEF Window
<1>2. PICK x : x = n + 1
  OBVIOUS
<1>3. x \in 1..Len(w) /\ i = k + x - 1
  BY <1>1, <1>2
<1>4. /\ i \in 1..Len(s) /\ s[i] \in Prims /\ s[i].id = i
      /\ D[i - 1] \in Nat /\ D[i] \in Nat /\ Fits(s[i], D[i - 1], D[i])
      /\ w[x].op = <<s[i].op>> /\ First(w[x]) = s[i]
  <2>1. /\ Stacked(s, D) /\ k \in 1..Len(s) /\ Window(w, s, k)
        /\ x \in 1..Len(w) /\ i = k + x - 1
    BY <1>3
  <2> QED  BY ONLY <2>1, WindowIs
<1> QED  BY <1>2, <1>4

LEMMA FoldServes ==
  ASSUME NEW s, NEW D, Stacked(s, D), NEW k \in 1..Len(s), NEW w, Window(w, s, k),
         Foldable(w)
  PROVE  \E q \in Prims : /\ q.op \in Foldables /\ k + 2 <= Len(s)
                          /\ Serves(s, D, <<q>>, k, k + 2)
                          /\ Fold(w) = <<Plain(q)>> \o SubSeq(w, 4, Len(w))
<1>1. PICK o \in Foldables : Starts(w, <<"ldloc", "ldloc", o>>)
  BY DEF Foldable, Foldables
<1>2. /\ 3 <= Len(w) /\ w[1].op = <<"ldloc">> /\ w[2].op = <<"ldloc">> /\ w[3].op = <<o>>
  BY <1>1, StartsThree
<1>3. PICK i, j : i = k + 1 /\ j = k + 2
  OBVIOUS
<1>4. PICK p1, p2, p3 : p1 = s[k] /\ p2 = s[i] /\ p3 = s[j]
  OBVIOUS
<1>5. PICK d0, d1, d2, d3 : d0 = D[k - 1] /\ d1 = D[k] /\ d2 = D[i] /\ d3 = D[j]
  OBVIOUS
<1>6. k + 0 = k /\ 0 + 1 <= Len(w) /\ 1 + 1 <= Len(w) /\ 2 + 1 <= Len(w) /\ Len(w) \in Nat
  BY <1>2 DEF Window
<1>7. /\ p1 \in Prims /\ d0 \in Nat /\ d1 \in Nat /\ Fits(p1, d0, d1)
      /\ w[1].op = <<p1.op>> /\ First(w[1]) = p1
  <2>1. /\ s[k] \in Prims /\ D[k - 1] \in Nat /\ D[k] \in Nat /\ Fits(s[k], D[k - 1], D[k])
        /\ w[0 + 1].op = <<s[k].op>> /\ First(w[0 + 1]) = s[k]
    BY <1>6, WindowSteps4, SMTT(30)
  <2> QED  BY <1>4, <1>5, <2>1
<1>8. /\ p2 \in Prims /\ d2 \in Nat /\ Fits(p2, d1, d2)
      /\ w[2].op = <<p2.op>> /\ First(w[2]) = p2
  <2>1. /\ s[i] \in Prims /\ D[i] \in Nat /\ Fits(s[i], D[i - 1], D[i])
        /\ w[1 + 1].op = <<s[i].op>> /\ First(w[1 + 1]) = s[i]
    BY <1>3, <1>6, WindowSteps4, SMTT(30)
  <2>2. i - 1 = k
    BY <1>3
  <2> QED  BY <1>4, <1>5, <2>1, <2>2
<1>9. /\ p3 \in Prims /\ p3.id = j /\ j \in 1..Len(s) /\ d3 \in Nat /\ Fits(p3, d2, d3)
      /\ w[3].op = <<p3.op>> /\ First(w[3]) = p3
  <2>1. /\ s[j] \in Prims /\ s[j].id = j /\ j \in 1..Len(s)
        /\ D[j] \in Nat /\ Fits(s[j], D[j - 1], D[j])
        /\ w[2 + 1].op = <<s[j].op>> /\ First(w[2 + 1]) = s[j]
    BY <1>3, <1>6, WindowSteps4, SMTT(30)
  <2>2. j - 1 = i
    BY <1>3
  <2> QED  BY <1>4, <1>5, <2>1, <2>2
<1>10. p1.op = "ldloc" /\ p2.op = "ldloc" /\ p3.op = o
  BY <1>2, <1>7, <1>8, <1>9
<1>11. CopyOf(p1, d0, d1) /\ CopyOf(p2, d1, d2)
  <2>1. p1.op \in Copies /\ p2.op \in Copies
    BY <1>10 DEF Copies
  <2> QED  BY <1>7, <1>8, <2>1, FitsCopy
<1>12. StackOf(p3, d2, d3)
  <2>1. p3.op \notin Copies
    BY <1>10 DEF Copies, Foldables
  <2> QED  BY <1>9, <2>1, FitsStack
<1>13. p2.src[1] # p1.dst /\ p3.dst = p1.dst /\ p3.src = <<p1.dst, p2.dst>>
  BY <1>7, <1>8, <1>9 DEF Foldable
<1>14. PICK z, q : z = <<p1.src[1], p2.src[1]>> /\ q = [p3 EXCEPT !.src = z]
  OBVIOUS
<1>15. z \in Seq(Int)
  BY <1>7, <1>8, <1>11, <1>14, CopySource
<1>16. Redirect(q, p3, z)
  BY <1>9, <1>14, <1>15, RedirectIs
<1>17. q \in Prims /\ q.id = j /\ q.op = o
  BY <1>9, <1>10, <1>16 DEF Redirect
<1>18. Redirect(q, p3, <<p1.src[1], p2.src[1]>>)
  BY ONLY <1>14, <1>16
<1>19. p3.op \in Foldables
  BY <1>10
<1>20. Sim(<<p1, p2, p3>>, d0, <<q>>, d3)
  BY ONLY <1>7, <1>8, <1>9, <1>11, <1>12, <1>13, <1>18, <1>19, FoldSim
<1>21. SubSeq(s, k, k + 2) = <<p1, p2, p3>>
  <2>1. s \in Seq(Prims) /\ k + 2 <= Len(s)
    BY <1>3, <1>9, StackedIs
  <2> QED  BY <1>3, <1>4, <2>1, SliceThree
<1>22. Serves(s, D, <<q>>, k, j)
  <2>1. PICK h : h = <<p1, p2, p3>>
    OBVIOUS
  <2>2. /\ h = SubSeq(s, k, j) /\ d0 = D[k - 1] /\ d3 = D[j] /\ Sim(h, d0, <<q>>, d3)
    BY <1>3, <1>5, <1>20, <1>21, <2>1
  <2>3. q \in Prims /\ q.id \in k..j
    BY <1>3, <1>17
  <2> QED  BY ONLY <2>2, <2>3, ServesByOne
<1>23. Fold(w) = <<Plain(q)>> \o SubSeq(w, 4, Len(w))
  BY <1>7, <1>8, <1>9, <1>14 DEF Fold
<1>24. k + 2 <= Len(s)
  <2>1. Len(s) \in Nat
    BY StackedIs
  <2> QED  BY <1>3, <1>9, <2>1
<1>25. Serves(s, D, <<q>>, k, k + 2)
  BY <1>3, <1>22
<1>26. q \in Prims /\ q.op \in Foldables
  BY <1>17
<1> QED  BY ONLY <1>23, <1>24, <1>25, <1>26

\* what a pass makes of the front of w stands in for the steps it consumes
Rewritten(s, D, w, k, o, r) ==
  /\ r[1] \in 1..Len(w) /\ r[2] \in Seq(Instructions)
  /\ Serves(s, D, Steps(r[2]), k, k + o + r[1] - 1)

LEMMA RuledServes ==
  ASSUME NEW s, NEW D, NEW w \in Seq(Instructions), Len(w) >= 1, NEW k, NEW o,
         Fronts(s, D, w, k, o), NEW t, Table(t), NEW r, r = Ruled(w, t)
  PROVE  Rewritten(s, D, w, k, o, r)
<1>1. \E n \in 1..Len(w) : /\ r[1] = n /\ r[2] \in Seq(Instructions)
                           /\ Steps(r[2]) = Steps(SubSeq(w, 1, n))
  BY RewriteByRule
<1>2. PICK n \in 1..Len(w) : /\ r[1] = n /\ r[2] \in Seq(Instructions)
                             /\ Steps(r[2]) = Steps(SubSeq(w, 1, n))
  BY <1>1
<1>3. Serves(s, D, Steps(SubSeq(w, 1, n)), k, k + o + n - 1)
  BY DEF Fronts
<1> QED  BY <1>2, <1>3 DEF Rewritten

\* a window is its first step and the rest of it
LEMMA WindowFronts ==
  ASSUME NEW s, NEW D, Stacked(s, D), NEW k \in 1..Len(s), NEW w, Window(w, s, k)
  PROVE  Fronts(s, D, w, k, 0) /\ w[1] = Plain(s[k]) /\ s[k] \in Prims
<1>1. s \in Seq(Prims) /\ Len(s) \in Nat /\ s[k] \in Prims
  BY StackedIs
<1>2. /\ w \in Seq(Instructions) /\ Len(w) = Len(s) - k + 1
      /\ \A x \in 1..Len(w) : w[x] = Plain(s[k + x - 1])
  BY DEF Window
<1>3. w[1] = Plain(s[k])
  <2>1. 1 \in 1..Len(w) /\ k + 1 - 1 = k
    BY <1>1, <1>2
  <2> QED  BY <1>2, <2>1
<1>4. ASSUME NEW n \in 1..Len(w)
      PROVE  Serves(s, D, Steps(SubSeq(w, 1, n)), k, k + 0 + n - 1)
  <2>1. 1 \in 1..(Len(w) + 1) /\ n \in (1 - 1)..Len(w)
    BY <1>1, <1>2
  <2>2. Steps(SubSeq(w, 1, n)) = SubSeq(s, k + 1 - 1, k + n - 1)
    BY <1>1, <2>1, WindowSteps
  <2>3. PICK j : j = k + n - 1
    OBVIOUS
  <2>4. /\ k + 1 - 1 = k /\ k + 0 + n - 1 = j /\ j \in (k - 1)..Len(s)
        /\ k \in 1..(Len(s) + 1)
    BY <1>1, <1>2, <2>3
  <2>5. Serves(s, D, SubSeq(s, k, j), k, j)
    BY <2>4, ServesSame
  <2> QED  BY <2>2, <2>3, <2>4, <2>5
<1> QED  BY <1>1, <1>3, <1>4 DEF Fronts

LEMMA RedirectedServes ==
  ASSUME NEW s, NEW D, Stacked(s, D), NEW k \in 1..Len(s), NEW w, Window(w, s, k),
         RedirectedLoad(w) # <<>>
  PROVE  Rewritten(s, D, w, k, 0, RedirectedLoad(w))
<1>1. Starts(w, <<"ldloc", "ldloc", "ldloc", "ldind">>)
  BY DEF RedirectedLoad
<1>2. 4 <= Len(w) /\ w[3].op = <<"ldloc">> /\ w[4].op = <<"ldind">>
  BY <1>1, StartsFour
<1>3. PICK i, j : i = k + 2 /\ j = k + 3
  OBVIOUS
<1>4. PICK p3, p4, d2, d3, d4 : /\ p3 = s[i] /\ p4 = s[j]
                                /\ d2 = D[i - 1] /\ d3 = D[i] /\ d4 = D[j]
  OBVIOUS
<1>5. 2 + 1 <= Len(w) /\ 3 + 1 <= Len(w) /\ Len(w) \in Nat /\ w \in Seq(Instructions)
  BY <1>2 DEF Window
<1>6. /\ p3 \in Prims /\ d2 \in Nat /\ d3 \in Nat /\ Fits(p3, d2, d3)
      /\ w[3].op = <<p3.op>> /\ First(w[3]) = p3 /\ i \in 1..Len(s)
  <2>1. /\ s[i] \in Prims /\ D[i - 1] \in Nat /\ D[i] \in Nat /\ Fits(s[i], D[i - 1], D[i])
        /\ w[2 + 1].op = <<s[i].op>> /\ First(w[2 + 1]) = s[i] /\ i \in 1..Len(s)
    BY <1>3, <1>5, WindowSteps4
  <2> QED  BY <1>4, <2>1
<1>7. /\ p4 \in Prims /\ p4.id = j /\ j \in 1..Len(s) /\ d4 \in Nat /\ Fits(p4, d3, d4)
      /\ w[4].op = <<p4.op>> /\ First(w[4]) = p4
  <2>1. /\ s[j] \in Prims /\ s[j].id = j /\ j \in 1..Len(s)
        /\ D[j] \in Nat /\ Fits(s[j], D[j - 1], D[j])
        /\ w[3 + 1].op = <<s[j].op>> /\ First(w[3 + 1]) = s[j]
    BY <1>3, <1>5, WindowSteps4
  <2>2. j - 1 = i
    BY <1>3
  <2> QED  BY <1>4, <2>1, <2>2
<1>8. p3.op = "ldloc" /\ p4.op = "ldind"
  BY <1>2, <1>6, <1>7
<1>9. CopyOf(p3, d2, d3)
  <2>1. p3.op \in Copies
    BY <1>8 DEF Copies
  <2> QED  BY <1>6, <2>1, FitsCopy
<1>10. StackOf(p4, d3, d4)
  <2>1. p4.op \notin Copies
    BY <1>8 DEF Copies
  <2> QED  BY <1>7, <2>1, FitsStack
<1>11. PICK z, q, m : z = p3.src /\ q = [p4 EXCEPT !.src = z] /\ m = Merge(w, 2)[2]
  OBVIOUS
<1>12. RedirectedLoad(w) = <<4, Append(m, Plain(q))>> /\ p4.src[1] = p3.dst
  <2>1. p3 = First(w[3]) /\ p4 = First(w[4])
    BY <1>6, <1>7
  <2>2. q = [First(w[4]) EXCEPT !.src = First(w[3]).src] /\ m = Merge(w, 2)[2]
    BY <1>11, <2>1
  <2>3. RedirectedLoad(w) = <<4, Append(m, Plain(q))>> /\ First(w[4]).src[1] = First(w[3]).dst
    BY <2>2 DEF RedirectedLoad
  <2> QED  BY <2>1, <2>3
<1>13. z \in Seq(Int) /\ p3 \in Prims
  BY <1>6, <1>9, <1>11, CopySource
<1>14. Redirect(q, p4, p3.src)
  BY <1>7, <1>11, <1>13, RedirectIs
<1>15. q \in Prims /\ q.id = j
  BY <1>7, <1>14 DEF Redirect
<1>16. Sim(<<p3, p4>>, d2, <<q>>, d4)
  <2>1. p4.op \in {"ldind", "ldfldv"} /\ p4.src[1] = p3.dst
    BY <1>8, <1>12
  <2> QED  BY ONLY <1>6, <1>7, <1>9, <1>10, <1>14, <2>1, RedirectSim
<1>17. SubSeq(s, i, j) = <<p3, p4>>
  <2>1. s \in Seq(Prims) /\ i \in 1..Len(s) /\ i + 1 <= Len(s) /\ i + 1 = j
    <3>1. i + 1 = j
      BY <1>3
    <3> QED  BY <1>6, <1>7, <3>1, StackedIs
  <2>2. SubSeq(s, i, i + 1) = <<s[i], s[i + 1]>>
    BY ONLY <2>1, SliceTwo
  <2> QED  BY <1>4, <2>1, <2>2
<1>18. Serves(s, D, <<q>>, i, j)
  <2>1. PICK h : h = <<p3, p4>>
    OBVIOUS
  <2>2. /\ h = SubSeq(s, i, j) /\ d2 = D[i - 1] /\ d4 = D[j] /\ Sim(h, d2, <<q>>, d4)
    BY <1>4, <1>16, <1>17, <2>1
  <2>3. q \in Prims /\ q.id \in i..j
    BY <1>3, <1>15
  <2> QED  BY ONLY <2>2, <2>3, ServesByOne
<1>19. /\ m \in Seq(Instructions) /\ Steps(m) = Steps(SubSeq(w, 1, 2))
  <2>1. 2 \in 1..Len(w) /\ w \in Seq(Instructions)
    BY <1>2, <1>5
  <2> QED  BY ONLY <1>11, <2>1, MergeIs
<1>20. PICK l : l = k + 1
  OBVIOUS
<1>21. Serves(s, D, Steps(m), k, l)
  <2>1. Fronts(s, D, w, k, 0)
    BY WindowFronts
  <2>2. 2 \in 1..Len(w)
    BY <1>2, <1>5
  <2>3. Serves(s, D, Steps(SubSeq(w, 1, 2)), k, k + 0 + 2 - 1)
    BY <2>1, <2>2 DEF Fronts
  <2>4. k + 0 + 2 - 1 = l
    BY <1>20
  <2> QED  BY <1>19, <2>3, <2>4
<1>22. PICK e, g : e = <<Plain(q)>> /\ g = Steps(m)
  OBVIOUS
<1>23. e \in Seq(Instructions) /\ Steps(e) = <<q>>
  BY <1>15, <1>22, PlainIs
<1>24. Serves(s, D, g \o <<q>>, k, j)
  <2>1. Len(s) \in Nat
    BY StackedIs
  <2>2. /\ k \in 1..(Len(s) + 1) /\ l \in (k - 1)..Len(s) /\ j \in l..Len(s) /\ i = l + 1
    BY <1>3, <1>7, <1>20, <2>1
  <2>3. Serves(s, D, g, k, l) /\ Serves(s, D, <<q>>, l + 1, j)
    BY <1>18, <1>21, <1>22, <2>2
  <2>4. Stacked(s, D)
    OBVIOUS
  <2> QED  BY ONLY <2>2, <2>3, <2>4, ServesConcat
<1>25. Append(m, Plain(q)) = m \o e
  <2>1. Plain(q) \in Instructions
    BY <1>15, PlainIs
  <2> QED  BY <1>19, <1>22, <2>1
<1>26. Steps(m \o e) = g \o <<q>> /\ m \o e \in Seq(Instructions)
  <2>1. Steps(m \o e) = Steps(m) \o Steps(e)
    BY ONLY <1>19, <1>23, StepsConcat
  <2>2. Steps(m \o e) = g \o <<q>>
    BY ONLY <1>22, <1>23, <2>1
  <2>3. m \o e \in Seq(Instructions)
    BY <1>19, <1>23
  <2> QED  BY ONLY <2>2, <2>3
<1>27. PICK r : r = RedirectedLoad(w)
  OBVIOUS
<1>28. r[1] = 4 /\ r[2] = m \o e
  BY <1>12, <1>25, <1>27
<1>29. k + 0 + 4 - 1 = j /\ 4 \in 1..Len(w)
  BY <1>2, <1>3, <1>5
<1> QED  BY <1>24, <1>26, <1>27, <1>28, <1>29 DEF Rewritten

LEMMA TailLength ==
  ASSUME NEW u, Len(u) \in Nat, NEW t,
         t \in {<<"ldc", "ble">>, <<"ldloc", "bne">>, <<"add">>, <<"ldc", "div">>, <<"ldc">>, <<>>}
  PROVE  Len(t) \in 0..2 /\ (Starts(u, t) => Len(t) <= Len(u))
<1>1. Len(t) \in 0..2 /\ DOMAIN t = 1..Len(t)
  OBVIOUS
<1>2. PICK n : n = Len(t)
  OBVIOUS
<1>3. PICK o : o = [k \in DOMAIN t |-> <<t[k]>>]
  OBVIOUS
<1>4. o \in Seq({<<t[k]>> : k \in DOMAIN t}) /\ Len(o) = n
  BY <1>1, <1>2, <1>3
<1>5. Starts(u, t) => Len(o) <= Len(u)
  BY <1>3 DEF Starts, IsNext
<1> QED  BY <1>1, <1>2, <1>4, <1>5

\* how many of the instructions behind the load the rule takes with it
Tails == {<<"ldc", "ble">>, <<"ldloc", "bne">>, <<"add">>, <<"ldc", "div">>, <<"ldc">>, <<>>}
LongestTail(u, n) ==
  /\ \E t \in Tails : Len(t) = n /\ Starts(u, t)
  /\ \A t \in Tails : Starts(u, t) => Len(t) <= n

LEMMA TailExists ==
  ASSUME NEW u, Len(u) \in Nat
  PROVE  \E n \in 0..2 : LongestTail(u, n)
<1>1. \A t \in Tails : Len(t) \in 0..2
  BY DEF Tails
<1>2. <<>> \in Tails /\ Len(<<>>) = 0 /\ Starts(u, <<>>)
  BY StartsNone DEF Tails
<1>3. CASE \E t \in Tails : Len(t) = 2 /\ Starts(u, t)
  <2>1. \A t \in Tails : Len(t) <= 2
    <3>1. \A x \in 0..2 : x <= 2
      OBVIOUS
    <3> QED  BY <1>1, <3>1, Zenon
  <2>2. LongestTail(u, 2)
    BY <1>3, <2>1 DEF LongestTail
  <2> QED  BY <2>2
<1>4. CASE /\ ~ \E t \in Tails : Len(t) = 2 /\ Starts(u, t)
           /\ \E t \in Tails : Len(t) = 1 /\ Starts(u, t)
  <2>1. \A t \in Tails : Starts(u, t) => Len(t) <= 1
    BY <1>1, <1>4
  <2>2. LongestTail(u, 1)
    BY <1>4, <2>1 DEF LongestTail
  <2> QED  BY <2>2
<1>5. CASE /\ ~ \E t \in Tails : Len(t) = 2 /\ Starts(u, t)
           /\ ~ \E t \in Tails : Len(t) = 1 /\ Starts(u, t)
  <2>1. \A t \in Tails : Starts(u, t) => Len(t) <= 0
    BY <1>1, <1>5
  <2>2. LongestTail(u, 0)
    BY <1>2, <2>1 DEF LongestTail
  <2> QED  BY <2>2
<1> QED  BY <1>3, <1>4, <1>5

LEMMA TailIs ==
  ASSUME NEW u, Len(u) \in Nat, NEW n, n = CHOOSE x \in 0..2 : LongestTail(u, x)
  PROVE  n \in 0..2 /\ n <= Len(u)
<1>1. n \in 0..2 /\ LongestTail(u, n)
  BY TailExists
<1>2. PICK t \in Tails : Len(t) = n /\ Starts(u, t)
  BY <1>1 DEF LongestTail
<1>3. Len(t) <= Len(u)
  BY <1>2, TailLength DEF Tails
<1> QED  BY <1>1, <1>2, <1>3

LEMMA StructFieldServes ==
  ASSUME NEW s, NEW D, Stacked(s, D), NEW k \in 1..Len(s), NEW w, Window(w, s, k),
         StructField(w) # <<>>
  PROVE  Rewritten(s, D, w, k, 0, StructField(w))
<1>1. Starts(w, <<"ldlocS", "ldfldv">>) /\ ReadsTheCopy(w)
  BY DEF StructField
<1>2. 2 <= Len(w) /\ w[1].op = <<"ldlocS">> /\ w[2].op = <<"ldfldv">>
  BY <1>1, StartsTwo
<1>3. PICK j : j = k + 1
  OBVIOUS
<1>4. PICK p1, p2, d0, d1, d2 : /\ p1 = s[k] /\ p2 = s[j]
                                /\ d0 = D[k - 1] /\ d1 = D[k] /\ d2 = D[j]
  OBVIOUS
<1>5. /\ 0 + 1 <= Len(w) /\ 1 + 1 <= Len(w) /\ Len(w) \in Nat /\ w \in Seq(Instructions)
      /\ k + 0 = k
  BY <1>2 DEF Window
<1>6. /\ p1 \in Prims /\ d0 \in Nat /\ d1 \in Nat /\ Fits(p1, d0, d1)
      /\ w[1].op = <<p1.op>> /\ First(w[1]) = p1
  <2>1. /\ s[k] \in Prims /\ D[k - 1] \in Nat /\ D[k] \in Nat /\ Fits(s[k], D[k - 1], D[k])
        /\ w[0 + 1].op = <<s[k].op>> /\ First(w[0 + 1]) = s[k]
    BY <1>5, WindowSteps4
  <2> QED  BY <1>4, <2>1
<1>7. /\ p2 \in Prims /\ p2.id = j /\ j \in 1..Len(s) /\ d2 \in Nat /\ Fits(p2, d1, d2)
      /\ w[2].op = <<p2.op>> /\ First(w[2]) = p2
  <2>1. /\ s[j] \in Prims /\ s[j].id = j /\ j \in 1..Len(s)
        /\ D[j] \in Nat /\ Fits(s[j], D[j - 1], D[j])
        /\ w[1 + 1].op = <<s[j].op>> /\ First(w[1 + 1]) = s[j]
    BY <1>3, <1>5, WindowSteps4
  <2>2. j - 1 = k
    BY <1>3
  <2> QED  BY <1>4, <2>1, <2>2
<1>8. p1.op = "ldlocS" /\ p2.op = "ldfldv"
  BY <1>2, <1>6, <1>7
<1>9. CopyOf(p1, d0, d1)
  <2>1. p1.op \in Copies
    BY <1>8 DEF Copies
  <2> QED  BY <1>6, <2>1, FitsCopy
<1>10. StackOf(p2, d1, d2)
  <2>1. p2.op \notin Copies
    BY <1>8 DEF Copies
  <2> QED  BY <1>7, <2>1, FitsStack
<1>11. PICK z, q, u : /\ z = p1.src /\ q = [p2 EXCEPT !.src = z]
                      /\ u = SubSeq(w, 3, Len(w))
  OBVIOUS
<1>12. PICK v, n : /\ v = <<Plain(q)>> \o u
                   /\ n = CHOOSE x \in 0..2 : LongestTail(u, x)
  OBVIOUS
<1>13. StructField(w) = <<n + 2, Merge(v, n + 1)[2]>>
  <2>1. First(w[1]) = p1 /\ First(w[2]) = p2
    BY <1>6, <1>7
  <2>2. v = <<Plain([First(w[2]) EXCEPT !.src = First(w[1]).src])>> \o SubSeq(w, 3, Len(w))
    BY <1>11, <1>12, <2>1
  <2>3. n = CHOOSE x \in 0..2 :
              /\ \E t \in Tails : Len(t) = x /\ Starts(SubSeq(w, 3, Len(w)), t)
              /\ \A t \in Tails : Starts(SubSeq(w, 3, Len(w)), t) => Len(t) <= x
    BY <1>11, <1>12 DEF LongestTail
  <2> QED  BY <1>1, <2>2, <2>3 DEF StructField, Tails
<1>14. p2.src[1] = p1.dst
  BY <1>1, <1>6, <1>7 DEF ReadsTheCopy
<1>15. z \in Seq(Int)
  BY <1>6, <1>9, <1>11, CopySource
<1>16. Redirect(q, p2, p1.src)
  BY <1>7, <1>11, <1>15, RedirectIs
<1>17. q \in Prims /\ q.id = j
  BY <1>7, <1>16 DEF Redirect
<1>18. Sim(<<p1, p2>>, d0, <<q>>, d2)
  <2>1. p2.op \in {"ldind", "ldfldv"} /\ p2.src[1] = p1.dst
    BY <1>8, <1>14
  <2> QED  BY ONLY <1>6, <1>7, <1>9, <1>10, <1>16, <2>1, RedirectSim
<1>19. SubSeq(s, k, j) = <<p1, p2>>
  <2>1. s \in Seq(Prims) /\ k \in 1..Len(s) /\ k + 1 <= Len(s) /\ k + 1 = j
    BY <1>3, <1>7, StackedIs
  <2>2. SubSeq(s, k, k + 1) = <<s[k], s[k + 1]>>
    BY ONLY <2>1, SliceTwo
  <2> QED  BY <1>4, <2>1, <2>2
<1>20. Serves(s, D, <<q>>, k, j)
  <2>1. PICK h : h = <<p1, p2>>
    OBVIOUS
  <2>2. /\ h = SubSeq(s, k, j) /\ d0 = D[k - 1] /\ d2 = D[j] /\ Sim(h, d0, <<q>>, d2)
    BY <1>4, <1>18, <1>19, <2>1
  <2>3. q \in Prims /\ q.id \in k..j
    BY <1>3, <1>17
  <2> QED  BY ONLY <2>2, <2>3, ServesByOne
<1>21. /\ v \in Seq(Instructions) /\ Len(v) = Len(w) - 1 /\ Fronts(s, D, v, k, 1)
  <2>1. PICK o, h : o = 1 /\ h = <<q>>
    OBVIOUS
  <2>2. /\ Stacked(s, D) /\ k \in 1..Len(s) /\ Window(w, s, k)
        /\ o \in Nat /\ j = k + o /\ j <= Len(s)
        /\ q \in Prims /\ h = <<q>> /\ Serves(s, D, h, k, j) /\ Splice(v, q, w, o)
    <3>1. o + 2 = 3 /\ k + o = j /\ Len(s) \in Nat
      BY <1>3, <2>1, StackedIs
    <3>2. Splice(v, q, w, o)
      BY <1>11, <1>12, <3>1 DEF Splice
    <3> QED  BY <1>7, <1>17, <1>20, <2>1, <3>1, <3>2
  <2>3. v \in Seq(Instructions) /\ Len(v) = Len(w) - o /\ Fronts(s, D, v, k, o)
    BY ONLY <2>2, Spliced
  <2> QED  BY <2>1, <2>3
<1>22. n \in 0..2 /\ n <= Len(w) - 2
  <2>1. u \in Seq(Instructions) /\ Len(u) = Len(w) - 2 /\ Len(u) \in Nat
    <3>1. PICK a, b : a = 3 /\ b = Len(w)
      OBVIOUS
    <3>2. /\ w \in Seq(Instructions) /\ a \in 1..(Len(w) + 1) /\ b \in (a - 1)..Len(w)
          /\ u = SubSeq(w, a, b)
      BY <1>2, <1>5, <1>11, <3>1
    <3>3. u \in Seq(Instructions) /\ Len(u) = b - a + 1 /\ Len(u) \in Nat
      BY ONLY <3>2, SliceIs
    <3>4. b - a + 1 = Len(w) - 2
      BY <1>5, <3>1
    <3> QED  BY <3>3, <3>4
  <2>2. n \in 0..2 /\ n <= Len(u)
    BY <1>12, <2>1, TailIs
  <2> QED  BY <2>1, <2>2
<1>23. PICK x, r : x = n + 1 /\ r = StructField(w)
  OBVIOUS
<1>24. x \in 1..Len(v) /\ n + 2 \in 1..Len(w) /\ n + 2 = x + 1
  BY <1>2, <1>5, <1>21, <1>22, <1>23
<1>25. Merge(v, x)[2] \in Seq(Instructions) /\ Steps(Merge(v, x)[2]) = Steps(SubSeq(v, 1, x))
  BY <1>21, <1>24, MergeIs
<1>26. Serves(s, D, Steps(SubSeq(v, 1, x)), k, k + 1 + x - 1)
  BY <1>21, <1>24 DEF Fronts
<1>27. r[1] = n + 2 /\ r[2] = Merge(v, x)[2]
  BY <1>13, <1>23
<1>28. k + 0 + (n + 2) - 1 = k + 1 + x - 1
  BY <1>22, <1>23
<1> QED  BY <1>23, <1>24, <1>25, <1>26, <1>27, <1>28 DEF Rewritten

\* the operands the element increment is fused for
IncrementFits(w, add, store) ==
  /\ store.src[3] = add.dst
  /\ add.src \in {<<First(w[1]).dst, First(w[2]).dst>>, <<First(w[2]).dst, First(w[1]).dst>>}

IncrementBody(w, add, store) ==
  <<[First(w[1]) EXCEPT !.dst = 0],
    [add EXCEPT !.dst = 0, !.src = <<0, First(w[2]).src[1]>>],
    [store EXCEPT !.src[3] = 0]>>

LEMMA IncrementIs ==
  ASSUME NEW w, Increment(w) # <<>>
  PROVE  \/ /\ Starts(w, <<"ldelem", "ldloc", "add", "stelem">>)
            /\ IncrementFits(w, First(w[3]), First(w[4]))
            /\ Increment(w) = <<4, <<[op |-> <<"ldelem", "ldloc", "add", "stelem">>,
                                      body |-> IncrementBody(w, First(w[3]), First(w[4]))]>>>>
         \/ /\ Starts(w, <<"ldelem", "add", "stelem">>)
            /\ First(w[2]).src[1] = First(w[1]).dst
<1>1. CASE Starts(w, <<"ldelem", "ldloc", "add", "stelem">>)
  <2>1. 4 - 1 = 3
    OBVIOUS
  <2> QED  BY <1>1, <2>1 DEF Increment, IncrementFits, IncrementBody
<1>2. CASE ~Starts(w, <<"ldelem", "ldloc", "add", "stelem">>)
  <2>1. 3 - 1 = 2
    OBVIOUS
  <2>2. Starts(w, <<"ldelem", "add", "stelem">>)
    BY <1>2 DEF Increment
  <2>3. First(w[3 - 1]).src[1] = First(w[1]).dst
    BY <1>2, <2>2 DEF Increment
  <2> QED  BY <2>1, <2>2, <2>3
<1> QED  BY <1>1, <1>2

\* An addition takes its first operand from below the element just loaded.
LEMMA UncopiedNever ==
  ASSUME NEW s, NEW D, Stacked(s, D), NEW k \in 1..Len(s), NEW w, Window(w, s, k),
         Starts(w, <<"ldelem", "add", "stelem">>)
  PROVE  First(w[2]).src[1] # First(w[1]).dst
<1>1. 3 <= Len(w) /\ w[1].op = <<"ldelem">> /\ w[2].op = <<"add">>
  BY StartsThree
<1>2. PICK j : j = k + 1
  OBVIOUS
<1>3. PICK p1, p2, d0, d1, d2 : /\ p1 = s[k] /\ p2 = s[j]
                                /\ d0 = D[k - 1] /\ d1 = D[k] /\ d2 = D[j]
  OBVIOUS
<1>4. 0 + 1 <= Len(w) /\ 1 + 1 <= Len(w) /\ k + 0 = k
  BY <1>1 DEF Window
<1>5. /\ p1 \in Prims /\ d0 \in Nat /\ d1 \in Nat /\ Fits(p1, d0, d1)
      /\ w[1].op = <<p1.op>> /\ First(w[1]) = p1
  <2>1. /\ s[k] \in Prims /\ D[k - 1] \in Nat /\ D[k] \in Nat /\ Fits(s[k], D[k - 1], D[k])
        /\ w[0 + 1].op = <<s[k].op>> /\ First(w[0 + 1]) = s[k]
    BY <1>4, WindowSteps4
  <2> QED  BY <1>3, <2>1
<1>6. /\ p2 \in Prims /\ d2 \in Nat /\ Fits(p2, d1, d2)
      /\ w[2].op = <<p2.op>> /\ First(w[2]) = p2
  <2>1. /\ s[j] \in Prims /\ D[j] \in Nat /\ Fits(s[j], D[j - 1], D[j])
        /\ w[1 + 1].op = <<s[j].op>> /\ First(w[1 + 1]) = s[j]
    BY <1>2, <1>4, WindowSteps4
  <2>2. j - 1 = k
    BY <1>2
  <2> QED  BY <1>3, <2>1, <2>2
<1>7. p1.op = "ldelem" /\ p2.op = "add"
  BY <1>1, <1>5, <1>6
<1>8. StackOf(p1, d0, d1) /\ StackOf(p2, d1, d2)
  <2>1. p1.op \notin Copies /\ p2.op \notin Copies
    BY <1>7 DEF Copies
  <2> QED  BY <1>5, <1>6, <2>1, FitsStack
<1>9. /\ Pops(p1.op) = 2 /\ Pushes(p1.op) = 1 /\ Pops(p2.op) = 2
  BY <1>7 DEF Pops, Pushes, Branches, Stores, Binary, ElementLoads
<1>10. p1.dst = d0 - 1 /\ d1 = d0 - 1 /\ 2 <= d0
  BY <1>5, <1>8, <1>9 DEF StackOf
<1>11. p2.src[1] = d1 - 1
  <2>1. PICK n : n = Pops(p2.op)
    OBVIOUS
  <2>2. n = 2 /\ p2.src = [x \in 1..n |-> d1 - n + x]
    BY <1>8, <1>9, <2>1 DEF StackOf
  <2> QED  BY <1>5, <2>2
<1> QED  BY <1>5, <1>6, <1>10, <1>11

LEMMA MovedIs ==
  ASSUME NEW p \in Prims, NEW x \in Int
  PROVE  LET q == [p EXCEPT !.dst = x]
         IN /\ q \in Prims /\ q.id = p.id /\ q.op = p.op /\ q.dst = x /\ q.src = p.src
BY DEF Prims

Replaced(q, p, x, z) == q = [p EXCEPT !.dst = x, !.src = z]

LEMMA ReplacedIs ==
  ASSUME NEW p \in Prims, NEW x \in Int, NEW z \in Seq(Int), NEW q, Replaced(q, p, x, z)
  PROVE  q \in Prims /\ q.id = p.id /\ q.op = p.op /\ q.dst = x /\ q.src = z
<1>1. [p EXCEPT !.dst = x, !.src = z] \in Prims
  BY DEF Prims
<1>2. /\ [p EXCEPT !.dst = x, !.src = z].id = p.id
      /\ [p EXCEPT !.dst = x, !.src = z].op = p.op
      /\ [p EXCEPT !.dst = x, !.src = z].dst = x
      /\ [p EXCEPT !.dst = x, !.src = z].src = z
  BY DEF Prims
<1>3. q = [p EXCEPT !.dst = x, !.src = z]
  BY DEF Replaced
<1> QED  BY ONLY <1>1, <1>2, <1>3

\* q1, q2 and q3 are the steps the fused increment takes for p, c, a and t
Fused(q1, q2, q3, p, c, a, t) ==
  /\ q1 = [p EXCEPT !.dst = 0]
  /\ q2 = [a EXCEPT !.dst = 0, !.src = <<0, c.src[1]>>]
  /\ q3 = [t EXCEPT !.src[3] = 0]

\* they are the load, the addition and the store, with the handler's own
\* local for the loaded value and the sum
Kept(q1, q2, q3, p, c, a, t) ==
  /\ q1 \in Prims /\ q1.id = p.id /\ q1.op = p.op /\ q1.dst = 0 /\ q1.src = p.src
  /\ q2 \in Prims /\ q2.id = a.id /\ q2.op = a.op /\ q2.dst = 0
  /\ q2.src = <<0, c.src[1]>>
  /\ q3 \in Prims /\ q3.id = t.id /\ q3.op = t.op /\ q3.dst = t.dst
  /\ q3.src = [t.src EXCEPT ![3] = 0]

LEMMA IncrementSteps ==
  ASSUME NEW p \in Prims, NEW c \in Prims, NEW a \in Prims, NEW t \in Prims,
         NEW d \in Nat, NEW e, StackOf(t, d, e), t.op = "stelem", c.src[1] \in Int,
         NEW q1, NEW q2, NEW q3, Fused(q1, q2, q3, p, c, a, t)
  PROVE  Kept(q1, q2, q3, p, c, a, t)
<1>1. q1 \in Prims /\ q1.id = p.id /\ q1.op = p.op /\ q1.dst = 0 /\ q1.src = p.src
  <2>1. q1 = [p EXCEPT !.dst = 0]
    BY DEF Fused
  <2>2. p \in Prims /\ 0 \in Int
    OBVIOUS
  <2> QED  BY ONLY <2>1, <2>2, MovedIs
<1>2. /\ q2 \in Prims /\ q2.id = a.id /\ q2.op = a.op /\ q2.dst = 0
      /\ q2.src = <<0, c.src[1]>>
  <2>1. PICK z : z = <<0, c.src[1]>>
    OBVIOUS
  <2>2. z \in Seq(Int)
    BY <2>1
  <2>3. PICK x : x = 0
    OBVIOUS
  <2>4. a \in Prims /\ x \in Int /\ z \in Seq(Int) /\ Replaced(q2, a, x, z)
    BY <2>1, <2>2, <2>3 DEF Replaced, Fused
  <2>5. q2 \in Prims /\ q2.id = a.id /\ q2.op = a.op /\ q2.dst = x /\ q2.src = z
    BY ONLY <2>4, ReplacedIs
  <2> QED  BY ONLY <2>1, <2>3, <2>5
<1>3. PICK z, y : z = t.src /\ y = [z EXCEPT ![3] = 0]
  OBVIOUS
<1>4. y \in Seq(Int)
  <2>1. Pops(t.op) = 3
    BY DEF Pops, Binary, ElementLoads
  <2>2. PICK n : n = Pops(t.op)
    OBVIOUS
  <2>3. n = 3 /\ z = [k \in 1..n |-> d - n + k]
    BY <1>3, <2>1, <2>2 DEF StackOf
  <2>4. y = [k \in 1..3 |-> IF k = 3 THEN 0 ELSE d - 3 + k]
    BY <1>3, <2>3
  <2>5. \A k \in 1..3 : (IF k = 3 THEN 0 ELSE d - 3 + k) \in Int
    OBVIOUS
  <2> QED  BY <2>4, <2>5
<1>5. /\ q3 \in Prims /\ q3.id = t.id /\ q3.op = t.op /\ q3.dst = t.dst
      /\ q3.src = [t.src EXCEPT ![3] = 0]
  <2>1. q3 = [t EXCEPT !.src = y]
    BY <1>3 DEF Fused
  <2>2. q3 \in Prims /\ q3.id = t.id /\ q3.op = t.op /\ q3.dst = t.dst /\ q3.src = y
    <3>1. Redirect(q3, t, y)
      BY <1>4, <2>1, RedirectIs
    <3> QED  BY <3>1 DEF Redirect
  <2> QED  BY <1>3, <2>2
<1> QED  BY <1>1, <1>2, <1>5 DEF Kept

LEMMA ServesByThree ==
  ASSUME NEW s, NEW D, NEW k \in Nat, NEW j, j = k + 3,
         NEW q1 \in Prims, NEW q2 \in Prims, NEW q3 \in Prims,
         q1.id = k, q2.id = k + 2, q3.id = k + 3,
         NEW h, NEW a, NEW b, h = SubSeq(s, k, j), a = D[k - 1], b = D[j],
         NEW g, g = <<q1, q2, q3>>, ~Doubles(s) => Sim(h, a, g, b)
  PROVE  Serves(s, D, g, k, j)
<1>1. g \in Seq(Prims) /\ Len(g) = 3 /\ g[1] = q1 /\ g[2] = q2 /\ g[3] = q3
  OBVIOUS
<1>2. g[1].id = k /\ g[2].id = k + 2 /\ g[3].id = k + 3
  BY <1>1
<1>3. \A x \in 1..Len(g) : g[x].id \in k..j
  BY <1>1, <1>2
<1>4. Ordered(g)
  BY <1>1, <1>2 DEF Ordered
<1>5. ~Doubles(s) => Sim(SubSeq(s, k, j), D[k - 1], g, D[j])
  OBVIOUS
<1> QED  BY ONLY <1>1, <1>3, <1>4, <1>5 DEF Serves

LEMMA IncrementServes ==
  ASSUME NEW s, NEW D, Stacked(s, D), NEW k \in 1..Len(s), NEW w, Window(w, s, k),
         Increment(w) # <<>>
  PROVE  Rewritten(s, D, w, k, 0, Increment(w))
<1>1. /\ Starts(w, <<"ldelem", "ldloc", "add", "stelem">>)
      /\ IncrementFits(w, First(w[3]), First(w[4]))
      /\ Increment(w) = <<4, <<[op |-> <<"ldelem", "ldloc", "add", "stelem">>,
                                body |-> IncrementBody(w, First(w[3]), First(w[4]))]>>>>
  <2>1. ~ /\ Starts(w, <<"ldelem", "add", "stelem">>)
          /\ First(w[2]).src[1] = First(w[1]).dst
    BY UncopiedNever
  <2> QED  BY ONLY <2>1, Increment(w) # <<>>, IncrementIs
<1>2. /\ 4 <= Len(w) /\ w[1].op = <<"ldelem">> /\ w[2].op = <<"ldloc">> /\ w[3].op = <<"add">>
      /\ w[4].op = <<"stelem">>
  BY ONLY <1>1, StartsFour
<1>3. PICK i1, i2, j : i1 = k + 1 /\ i2 = k + 2 /\ j = k + 3
  OBVIOUS
<1>4. PICK p1, p2, p3, p4 : p1 = s[k] /\ p2 = s[i1] /\ p3 = s[i2] /\ p4 = s[j]
  OBVIOUS
<1>5. PICK d0, d1, d2, d3, d4 : /\ d0 = D[k - 1] /\ d1 = D[k] /\ d2 = D[i1]
                                /\ d3 = D[i2] /\ d4 = D[j]
  OBVIOUS
<1>6. /\ 0 + 1 <= Len(w) /\ 1 + 1 <= Len(w) /\ 2 + 1 <= Len(w) /\ 3 + 1 <= Len(w)
      /\ k + 0 = k /\ Len(w) \in Nat
  BY <1>2 DEF Window
<1>7. /\ p1 \in Prims /\ p1.id = k /\ d0 \in Nat /\ d1 \in Nat /\ Fits(p1, d0, d1)
      /\ w[1].op = <<p1.op>> /\ First(w[1]) = p1
  <2>1. /\ s[k] \in Prims /\ s[k].id = k /\ D[k - 1] \in Nat /\ D[k] \in Nat
        /\ Fits(s[k], D[k - 1], D[k])
        /\ w[0 + 1].op = <<s[k].op>> /\ First(w[0 + 1]) = s[k]
    <3>1. /\ Stacked(s, D) /\ k \in 1..Len(s) /\ Window(w, s, k)
          /\ 0 \in 0..3 /\ 0 + 1 <= Len(w) /\ k = k + 0
      BY <1>3, <1>6
    <3> QED  BY ONLY <3>1, WindowSteps4
  <2> QED  BY <1>4, <1>5, <2>1
<1>8. /\ p2 \in Prims /\ d2 \in Nat /\ Fits(p2, d1, d2)
      /\ w[2].op = <<p2.op>> /\ First(w[2]) = p2
  <2>1. /\ s[i1] \in Prims /\ D[i1] \in Nat /\ Fits(s[i1], D[i1 - 1], D[i1])
        /\ w[1 + 1].op = <<s[i1].op>> /\ First(w[1 + 1]) = s[i1]
    <3>1. /\ Stacked(s, D) /\ k \in 1..Len(s) /\ Window(w, s, k)
          /\ 1 \in 0..3 /\ 1 + 1 <= Len(w) /\ i1 = k + 1
      BY <1>3, <1>6
    <3> QED  BY ONLY <3>1, WindowSteps4
  <2>2. i1 - 1 = k
    BY <1>3
  <2> QED  BY <1>4, <1>5, <2>1, <2>2
<1>9. /\ p3 \in Prims /\ p3.id = i2 /\ d3 \in Nat /\ Fits(p3, d2, d3)
      /\ w[3].op = <<p3.op>> /\ First(w[3]) = p3
  <2>1. /\ s[i2] \in Prims /\ s[i2].id = i2 /\ D[i2] \in Nat /\ Fits(s[i2], D[i2 - 1], D[i2])
        /\ w[2 + 1].op = <<s[i2].op>> /\ First(w[2 + 1]) = s[i2]
    <3>1. /\ Stacked(s, D) /\ k \in 1..Len(s) /\ Window(w, s, k)
          /\ 2 \in 0..3 /\ 2 + 1 <= Len(w) /\ i2 = k + 2
      BY <1>3, <1>6
    <3> QED  BY ONLY <3>1, WindowSteps4
  <2>2. i2 - 1 = i1
    BY <1>3
  <2> QED  BY <1>4, <1>5, <2>1, <2>2
<1>10. /\ p4 \in Prims /\ p4.id = j /\ j \in 1..Len(s) /\ d4 \in Nat /\ Fits(p4, d3, d4)
       /\ w[4].op = <<p4.op>> /\ First(w[4]) = p4
  <2>1. /\ s[j] \in Prims /\ s[j].id = j /\ j \in 1..Len(s)
        /\ D[j] \in Nat /\ Fits(s[j], D[j - 1], D[j])
        /\ w[3 + 1].op = <<s[j].op>> /\ First(w[3 + 1]) = s[j]
    <3>1. /\ Stacked(s, D) /\ k \in 1..Len(s) /\ Window(w, s, k)
          /\ 3 \in 0..3 /\ 3 + 1 <= Len(w) /\ j = k + 3
      BY <1>3, <1>6
    <3> QED  BY ONLY <3>1, WindowSteps4
  <2>2. j - 1 = i2
    BY <1>3
  <2> QED  BY <1>4, <1>5, <2>1, <2>2
<1>11. p1.op = "ldelem" /\ p2.op = "ldloc" /\ p3.op = "add" /\ p4.op = "stelem"
  BY <1>2, <1>7, <1>8, <1>9, <1>10
<1>12. CopyOf(p2, d1, d2)
  <2>1. p2.op \in Copies
    BY <1>11 DEF Copies
  <2> QED  BY <1>8, <2>1, FitsCopy
<1>13. StackOf(p1, d0, d1) /\ StackOf(p3, d2, d3) /\ StackOf(p4, d3, d4)
  <2>1. p1.op \notin Copies /\ p3.op \notin Copies /\ p4.op \notin Copies
    BY <1>11 DEF Copies
  <2> QED  BY <1>7, <1>9, <1>10, <2>1, FitsStack
<1>14. PICK q1, q2, q3 : Fused(q1, q2, q3, p1, p2, p3, p4)
  BY DEF Fused
<1>15. PICK g, o : /\ g = <<q1, q2, q3>> /\ o = <<"ldelem", "ldloc", "add", "stelem">>
  OBVIOUS
<1>16. Increment(w) = <<4, <<[op |-> o, body |-> g]>>>>
  <2>1. IncrementBody(w, First(w[3]), First(w[4])) = g
    BY <1>7, <1>8, <1>9, <1>10, <1>14, <1>15 DEF IncrementBody, Fused
  <2> QED  BY <1>1, <1>15, <2>1
<1>17. p3.src \in {<<p1.dst, p2.dst>>, <<p2.dst, p1.dst>>}
  BY <1>1, <1>7, <1>8, <1>9, <1>10 DEF IncrementFits
<1>18. p2.src[1] \in Int
  BY <1>7, <1>8, <1>12, CopySource
<1>19. /\ q1 \in Prims /\ q1.id = p1.id /\ q1.op = p1.op /\ q1.dst = 0 /\ q1.src = p1.src
       /\ q2 \in Prims /\ q2.id = p3.id /\ q2.op = p3.op /\ q2.dst = 0
       /\ q2.src = <<0, p2.src[1]>>
       /\ q3 \in Prims /\ q3.id = p4.id /\ q3.op = p4.op /\ q3.dst = p4.dst
       /\ q3.src = [p4.src EXCEPT ![3] = 0]
  <2>1. /\ p1 \in Prims /\ p2 \in Prims /\ p3 \in Prims /\ p4 \in Prims /\ d3 \in Nat
        /\ StackOf(p4, d3, d4) /\ p4.op = "stelem" /\ p2.src[1] \in Int
        /\ Fused(q1, q2, q3, p1, p2, p3, p4)
    BY <1>7, <1>8, <1>9, <1>10, <1>11, <1>13, <1>14, <1>18
  <2>2. Kept(q1, q2, q3, p1, p2, p3, p4)
    BY ONLY <2>1, IncrementSteps
  <2> QED  BY <2>2 DEF Kept
<1>20. Len(s) \in Nat /\ s \in Seq(Prims)
  BY StackedIs
<1>21. ASSUME ~Doubles(s)  PROVE Sim(<<p1, p2, p3, p4>>, d0, g, d4)
  <2>1. p2.src[1] # p1.dst
    <3>1. k \in 1..(Len(s) - 3)
      BY <1>3, <1>10, <1>20
    <3>2. /\ <<s[k].op, s[k + 1].op, s[k + 2].op>> = <<"ldelem", "ldloc", "add">>
      BY <1>3, <1>4, <1>11
    <3>3. s[k + 1].src[1] # s[k].dst
      BY <1>21, <3>1, <3>2 DEF Doubles
    <3> QED  BY <1>3, <1>4, <3>3
  <2>2. Sim(<<p1, p2, p3, p4>>, d0, <<q1, q2, q3>>, d4)
    BY ONLY <1>7, <1>8, <1>9, <1>10, <1>11, <1>12, <1>13, <1>17, <1>19, <2>1, IncrementSim
  <2> QED  BY <1>15, <2>2
<1>22. SubSeq(s, k, j) = <<p1, p2, p3, p4>>
  <2>1. s \in Seq(Prims) /\ k \in 1..Len(s) /\ k + 3 <= Len(s)
    BY <1>3, <1>10, <1>20
  <2>2. SubSeq(s, k, k + 3) = <<s[k], s[k + 1], s[k + 2], s[k + 3]>>
    BY ONLY <2>1, SliceFour
  <2> QED  BY <1>3, <1>4, <2>2
<1>23. Serves(s, D, g, k, j)
  <2>1. PICK h : h = <<p1, p2, p3, p4>>
    OBVIOUS
  <2>2. /\ k \in Nat /\ j = k + 3
        /\ q1 \in Prims /\ q2 \in Prims /\ q3 \in Prims
        /\ q1.id = k /\ q2.id = k + 2 /\ q3.id = k + 3
        /\ h = SubSeq(s, k, j) /\ d0 = D[k - 1] /\ d4 = D[j]
        /\ g = <<q1, q2, q3>>
    <3>1. q1.id = k /\ q2.id = k + 2 /\ q3.id = k + 3
      BY <1>3, <1>7, <1>9, <1>10, <1>19
    <3>2. h = SubSeq(s, k, j) /\ d0 = D[k - 1] /\ d4 = D[j]
      BY <1>5, <1>22, <2>1
    <3>3. k \in Nat /\ j = k + 3
      BY <1>3
    <3> QED  BY <1>15, <1>19, <3>1, <3>2, <3>3
  <2>3. ~Doubles(s) => Sim(h, d0, g, d4)
    BY <1>21, <2>1
  <2> QED  BY ONLY <2>2, <2>3, ServesByThree
<1>24. PICK e : e = [op |-> o, body |-> g]
  OBVIOUS
<1>25. o \in Seq(Names)
  BY <1>15 DEF Names
<1>26. g \in Seq(Prims)
  BY <1>15, <1>19
<1>27. e \in Instructions /\ e.body = g
  BY <1>24, <1>25, <1>26 DEF Instructions
<1>28. <<e>> \in Seq(Instructions) /\ Steps(<<e>>) = g
  BY <1>27, StepsOne
<1>29. PICK r : r = Increment(w)
  OBVIOUS
<1>30. r[1] = 4 /\ r[2] = <<e>>
  BY <1>16, <1>24, <1>29
<1>31. k + 0 + 4 - 1 = j /\ 4 \in 1..Len(w)
  BY <1>2, <1>3, <1>6
<1> QED  BY <1>23, <1>28, <1>29, <1>30, <1>31 DEF Rewritten

\* What was folded is no longer the start of an increment, a redirected load
\* or a struct field.
LEMMA FoldedNotSpecial ==
  ASSUME NEW w, NEW q \in Prims, q.op \in Foldables, w[1] = Plain(q)
  PROVE  Increment(w) = <<>> /\ RedirectedLoad(w) = <<>> /\ StructField(w) = <<>>
<1>1. w[1].op = <<q.op>>
  BY PlainIs
<1>2. q.op \notin {"ldelem", "ldloc", "ldlocS"}
  BY DEF Foldables
<1>3. ASSUME Increment(w) # <<>>  PROVE FALSE
  <2>1. w[1].op = <<"ldelem">>
    BY ONLY <1>3, IncrementIs, StartsThree, StartsFour
  <2> QED  BY <1>1, <1>2, <2>1
<1>4. ASSUME RedirectedLoad(w) # <<>>  PROVE FALSE
  <2>1. Starts(w, <<"ldloc", "ldloc", "ldloc", "ldind">>)
    BY <1>4 DEF RedirectedLoad
  <2>2. w[1].op = <<"ldloc">>
    BY ONLY <2>1, StartsFour
  <2> QED  BY <1>1, <1>2, <2>2
<1>5. ASSUME StructField(w) # <<>>  PROVE FALSE
  <2>1. Starts(w, <<"ldlocS", "ldfldv">>)
    BY <1>5 DEF StructField
  <2>2. w[1].op = <<"ldlocS">>
    BY ONLY <2>1, StartsTwo
  <2> QED  BY <1>1, <1>2, <2>2
<1> QED  BY <1>3, <1>4, <1>5

LEMMA RewriteCases ==
  ASSUME NEW w, NEW r, r = Rewrite(w, 1)
  PROVE  \/ r = Ruled(w, Rules[1])
         \/ Increment(w) # <<>> /\ r = Increment(w)
         \/ RedirectedLoad(w) # <<>> /\ r = RedirectedLoad(w)
         \/ StructField(w) # <<>> /\ r = StructField(w)
<1>1. PICK S : S = {x \in {Increment(w), RedirectedLoad(w), StructField(w)} : x # <<>>}
  OBVIOUS
<1>2. PICK x : x = CHOOSE y \in S : TRUE
  OBVIOUS
<1>3. r = IF (IF S # {} THEN x ELSE ByRule(w, Rules[1])) = <<>> THEN <<1, <<w[1]>>>>
          ELSE (IF S # {} THEN x ELSE ByRule(w, Rules[1]))
  BY <1>1, <1>2 DEF Rewrite
<1>4. CASE S = {}
  BY <1>3, <1>4 DEF Ruled
<1>5. CASE S # {}
  <2>1. x \in S
    BY <1>2, <1>5
  <2>2. x # <<>> /\ x \in {Increment(w), RedirectedLoad(w), StructField(w)}
    BY <1>1, <2>1
  <2>3. r = x
    BY <1>3, <1>5, <2>2
  <2> QED  BY <2>2, <2>3
<1> QED  BY <1>4, <1>5

\* what the first pass sees at a step, o steps fewer than are left
SeenAs(s, D, w, v, k, o) ==
  /\ k + o <= Len(s)
  /\ v \in Seq(Instructions) /\ Len(v) = Len(w) - o /\ Len(v) >= 1
  /\ Fronts(s, D, v, k, o)
  /\ \/ o = 0 /\ v = w
     \/ Increment(v) = <<>> /\ RedirectedLoad(v) = <<>> /\ StructField(v) = <<>>

LEMMA FoldSeen ==
  ASSUME NEW s, NEW D, Stacked(s, D), NEW k \in 1..Len(s), NEW w, Window(w, s, k),
         NEW v, v = Fold(w)
  PROVE  \E o \in {0, 2} : SeenAs(s, D, w, v, k, o)
<1>1. Len(s) \in Nat
  BY StackedIs
<1>2. w \in Seq(Instructions) /\ Len(w) = Len(s) - k + 1
  BY DEF Window
<1>3. CASE ~Foldable(w)
  <2>1. v = w
    BY <1>3 DEF Fold
  <2>2. Fronts(s, D, w, k, 0)
    BY WindowFronts
  <2>3. k + 0 <= Len(s) /\ Len(w) = Len(w) - 0 /\ Len(w) >= 1
    BY <1>1, <1>2
  <2>4. SeenAs(s, D, w, v, k, 0)
    BY <1>2, <2>1, <2>2, <2>3 DEF SeenAs
  <2> QED  BY <2>4
<1>4. CASE Foldable(w)
  <2>1. PICK q \in Prims : /\ q.op \in Foldables /\ k + 2 <= Len(s)
                           /\ Serves(s, D, <<q>>, k, k + 2)
                           /\ Fold(w) = <<Plain(q)>> \o SubSeq(w, 4, Len(w))
    <3>1. Stacked(s, D) /\ k \in 1..Len(s) /\ Window(w, s, k) /\ Foldable(w)
      BY <1>4
    <3> QED  BY ONLY <3>1, FoldServes
  <2>2. PICK o, j, z : o = 2 /\ j = k + o /\ z = <<q>>
    OBVIOUS
  <2>3. /\ Stacked(s, D) /\ k \in 1..Len(s) /\ Window(w, s, k)
        /\ o \in Nat /\ j = k + o /\ j <= Len(s)
        /\ q \in Prims /\ z = <<q>> /\ Serves(s, D, z, k, j) /\ Splice(v, q, w, o)
    <3>1. o + 2 = 4 /\ o = 2
      BY <2>2
    <3>2. Splice(v, q, w, o)
      BY <2>1, <3>1 DEF Splice
    <3> QED  BY <2>1, <2>2, <3>2
  <2>4. /\ v \in Seq(Instructions) /\ Len(v) = Len(w) - o /\ v[1] = Plain(q)
        /\ Fronts(s, D, v, k, o)
    BY ONLY <2>3, Spliced
  <2>5. Increment(v) = <<>> /\ RedirectedLoad(v) = <<>> /\ StructField(v) = <<>>
    <3>1. q \in Prims /\ q.op \in Foldables /\ v[1] = Plain(q)
      BY <2>1, <2>4
    <3> QED  BY ONLY <3>1, FoldedNotSpecial
  <2>6. k + o <= Len(s) /\ Len(v) >= 1
    BY <1>1, <1>2, <2>3, <2>4
  <2>7. SeenAs(s, D, w, v, k, o)
    BY <2>4, <2>5, <2>6 DEF SeenAs
  <2> QED  BY <2>2, <2>7
<1> QED  BY <1>3, <1>4

LEMMA FirstRewrite ==
  ASSUME NEW s, NEW D, Stacked(s, D), NEW k \in 1..Len(s), NEW w, Window(w, s, k),
         NEW v, NEW o, SeenAs(s, D, w, v, k, o), NEW r, r = Rewrite(v, 1)
  PROVE  Rewritten(s, D, v, k, o, r)
<1>1. CASE r = Ruled(v, Rules[1])
  <2>1. PICK t : t = Rules[1]
    OBVIOUS
  <2>2. Table(t)
    <3>1. 1 \in 1..Passes
      BY DEF Passes
    <3> QED  BY <2>1, <3>1, RulesAre
  <2>3. /\ v \in Seq(Instructions) /\ Len(v) >= 1 /\ Fronts(s, D, v, k, o)
        /\ Table(t) /\ r = Ruled(v, t)
    BY <1>1, <2>1, <2>2 DEF SeenAs
  <2> QED  BY ONLY <2>3, RuledServes
<1>2. ASSUME Increment(v) # <<>> \/ RedirectedLoad(v) # <<>> \/ StructField(v) # <<>>
      PROVE  o = 0 /\ v = w
  BY <1>2 DEF SeenAs
<1>3. Stacked(s, D) /\ k \in 1..Len(s) /\ Window(w, s, k)
  OBVIOUS
<1>4. CASE Increment(v) # <<>> /\ r = Increment(v)
  <2>1. o = 0 /\ v = w /\ Increment(w) # <<>> /\ r = Increment(w)
    BY <1>2, <1>4
  <2>2. Rewritten(s, D, w, k, 0, Increment(w))
    BY ONLY <1>3, <2>1, IncrementServes
  <2> QED  BY <2>1, <2>2
<1>5. CASE RedirectedLoad(v) # <<>> /\ r = RedirectedLoad(v)
  <2>1. o = 0 /\ v = w /\ RedirectedLoad(w) # <<>> /\ r = RedirectedLoad(w)
    BY <1>2, <1>5
  <2>2. Rewritten(s, D, w, k, 0, RedirectedLoad(w))
    BY ONLY <1>3, <2>1, RedirectedServes
  <2> QED  BY <2>1, <2>2
<1>6. CASE StructField(v) # <<>> /\ r = StructField(v)
  <2>1. o = 0 /\ v = w /\ StructField(w) # <<>> /\ r = StructField(w)
    BY <1>2, <1>6
  <2>2. Rewritten(s, D, w, k, 0, StructField(w))
    BY ONLY <1>3, <2>1, StructFieldServes
  <2> QED  BY <2>1, <2>2
<1> QED  BY <1>1, <1>4, <1>5, <1>6, RewriteCases

ServedBy(s, D, z, x, i, j) ==
  /\ x \in Seq(Instructions) /\ i \in 1..z /\ j \in 1..z /\ i <= j
  /\ Serves(s, D, Steps(x), i, j - 1)

Served(s, D, z) ==
  {t \in Seq(Instructions) \X (1..z) \X (1..z) : ServedBy(s, D, z, t[1], t[2], t[3])}

\* What the first pass makes of a lowered block stands in for its steps.
LEMMA FirstPass ==
  ASSUME NEW s, NEW D, Stacked(s, D), NEW c, c = Lower(s)
  PROVE  RunPass(c, 1) \in Seq(Instructions) /\ Serves(s, D, Steps(RunPass(c, 1)), 1, Len(s))
<1>1. PICK n, z : n = Len(s) /\ z = n + 1
  OBVIOUS
<1>2. s \in Seq(Prims) /\ n \in Nat /\ n = Len(s)
  BY <1>1, StackedIs
<1>3. z \in Nat /\ z >= 1 /\ z - 1 = n /\ n + 1 = z
  BY <1>1, <1>2
<1>4. /\ c \in Seq(Instructions) /\ Len(c) = n
      /\ \A k \in 1..n : c[k] = Plain(s[k])
  BY <1>1, <1>2, LowerIs
<1>5. PICK G : G = Served(s, D, z)
  OBVIOUS
<1>6. \A x, i, j : May(G, x, i, j) <=> ServedBy(s, D, z, x, i, j)
  BY <1>5 DEF May, Served, ServedBy
<1>7. May(G, <<>>, z, z)
  <2>1. PICK e : e = <<>>
    OBVIOUS
  <2>2. e \in Seq(Instructions) /\ z \in 1..z /\ z <= z
    BY <1>3, <2>1
  <2>3. Serves(s, D, Steps(e), z, z - 1)
    <3>1. n \in 0..Len(s)
      BY <1>2
    <3>2. Serves(s, D, <<>>, n + 1, n)
      BY <3>1, ServesNothing
    <3> QED  BY <1>3, <2>1, <3>2, StepsEmpty
  <2>4. ServedBy(s, D, z, e, z, z)
    BY <2>2, <2>3 DEF ServedBy
  <2> QED  BY <1>6, <2>1, <2>4
<1>8. ASSUME NEW k \in 1..n
      PROVE  Onward(c, 1, k) \in (k + 1)..z /\ May(G, Emitted(c, 1, k), k, Onward(c, 1, k))
  <2>1. PICK w, v, r : w = SubSeq(c, k, n) /\ v = Fold(w) /\ r = Rewrite(v, 1)
    OBVIOUS
  <2>2. Window(w, s, k)
    <3>1. /\ c \in Seq(Instructions) /\ k \in 1..(Len(c) + 1) /\ n \in (k - 1)..Len(c)
          /\ w = SubSeq(c, k, n)
      BY <1>2, <1>4, <2>1
    <3>2. /\ w \in Seq(Instructions) /\ Len(w) = n - k + 1
          /\ \A x \in 1..Len(w) : k + x - 1 \in 1..Len(c) /\ w[x] = c[k + x - 1]
      BY ONLY <3>1, SliceIs
    <3> QED  BY <1>1, <1>4, <3>2 DEF Window
  <2>3. Seen(c, 1, k) = v /\ Emitted(c, 1, k) = r[2] /\ Onward(c, 1, k) = k + (Len(w) - Len(v)) + r[1]
    BY <1>4, <2>1 DEF Seen, Emitted, Onward
  <2>4. Stacked(s, D) /\ k \in 1..Len(s)
    BY <1>1
  <2>5. PICK o \in {0, 2} : SeenAs(s, D, w, v, k, o)
    <3>1. v = Fold(w)
      BY <2>1
    <3> QED  BY ONLY <2>2, <2>4, <3>1, FoldSeen
  <2>6. Rewritten(s, D, v, k, o, r)
    <3>1. r = Rewrite(v, 1)
      BY <2>1
    <3> QED  BY ONLY <2>2, <2>4, <2>5, <3>1, FirstRewrite
  <2>7. /\ k + o <= n /\ Len(v) = Len(w) - o /\ Len(w) = n - k + 1 /\ Len(w) \in Nat
        /\ r[1] \in 1..Len(v) /\ r[2] \in Seq(Instructions)
        /\ Serves(s, D, Steps(r[2]), k, k + o + r[1] - 1)
    BY <1>1, <1>2, <2>2, <2>5, <2>6 DEF SeenAs, Rewritten, Window
  <2>8. PICK m, l : m = r[1] /\ l = k + o + m
    OBVIOUS
  <2>9. /\ Onward(c, 1, k) = l /\ l \in (k + 1)..z /\ l - 1 = k + o + m - 1 /\ l \in 1..z
        /\ k <= l /\ k \in 1..z
    BY <1>2, <1>3, <2>3, <2>7, <2>8, SMTT(30)
  <2>10. Serves(s, D, Steps(r[2]), k, l - 1)
    BY <2>7, <2>8, <2>9
  <2>11. ServedBy(s, D, z, r[2], k, l)
    BY <2>7, <2>9, <2>10 DEF ServedBy
  <2>12. May(G, r[2], k, l)
    BY <1>6, <2>11
  <2> QED  BY <2>3, <2>9, <2>12
<1>9. ASSUME NEW x, NEW y, NEW i, NEW j, May(G, x, i, j), May(G, y, j, z)
      PROVE  May(G, x \o y, i, z)
  <2>1. ServedBy(s, D, z, x, i, j) /\ ServedBy(s, D, z, y, j, z)
    BY <1>6, <1>9
  <2>2. /\ x \in Seq(Instructions) /\ y \in Seq(Instructions)
        /\ i \in 1..z /\ j \in 1..z /\ i <= j
        /\ Serves(s, D, Steps(x), i, j - 1) /\ Serves(s, D, Steps(y), j, z - 1)
    BY <2>1 DEF ServedBy
  <2>3. PICK g, h, a, b : g = Steps(x) /\ h = Steps(y) /\ a = j - 1 /\ b = z - 1
    OBVIOUS
  <2>4. /\ Stacked(s, D) /\ i \in 1..(Len(s) + 1) /\ a \in (i - 1)..Len(s) /\ b \in a..Len(s)
        /\ a + 1 = j
    BY <1>1, <1>2, <1>3, <2>2, <2>3
  <2>5. Serves(s, D, g, i, a) /\ Serves(s, D, h, a + 1, b)
    BY <2>2, <2>3, <2>4
  <2>6. Serves(s, D, g \o h, i, b)
    BY ONLY <2>4, <2>5, ServesConcat
  <2>7. Steps(x \o y) = g \o h
    BY <2>2, <2>3, StepsConcat
  <2>8. x \o y \in Seq(Instructions) /\ z \in 1..z /\ i <= z
    BY <1>3, <2>2
  <2>9. ServedBy(s, D, z, x \o y, i, z)
    BY <2>2, <2>3, <2>6, <2>7, <2>8 DEF ServedBy
  <2> QED  BY <1>6, <2>9
<1>10. May(G, RunPass(c, 1), 1, z)
  <2>1. /\ Len(c) \in Nat /\ May(G, <<>>, Len(c) + 1, Len(c) + 1)
        /\ \A k \in 1..Len(c) : /\ Onward(c, 1, k) \in (k + 1)..(Len(c) + 1)
                                /\ May(G, Emitted(c, 1, k), k, Onward(c, 1, k))
        /\ \A x, y, i, j : May(G, x, i, j) /\ May(G, y, j, Len(c) + 1)
                             => May(G, x \o y, i, Len(c) + 1)
    BY <1>2, <1>3, <1>4, <1>7, <1>8, <1>9
  <2>2. May(G, RunPass(c, 1), 1, Len(c) + 1)
    BY ONLY <2>1, PassIs
  <2> QED  BY <1>3, <1>4, <2>2
<1>11. ServedBy(s, D, z, RunPass(c, 1), 1, z)
  BY <1>6, <1>10
<1> QED  BY <1>1, <1>3, <1>11 DEF ServedBy

-----------------------------------------------------------------------------
(* The block and what it was lowered to                                    *)

LEMMA InputAgrees ==
  ASSUME NEW a \in Nat, NEW K
  PROVE  Alike(Input, Input, a, K)
<1>1. /\ DOMAIN Input.slots = Int /\ Input.checks = <<>>
  BY DEF Input
<1>2. Without(<<>>, K) = <<>>
  BY WithoutEmpty
<1>3. <<>> \in Seq(Nat)
  OBVIOUS
<1>4. Spared(<<>>, <<>>, K)
  BY <1>2, <1>3 DEF Spared
<1>5. Spared(Input.checks, Input.checks, K)
  BY <1>1, <1>4
<1> QED  BY <1>1, <1>5 DEF Alike

\* A lowered block makes every check.
LEMMA LowerExcuses ==
  ASSUME NEW s \in Seq(Prims)
  PROVE  Excused(Lower(s)) = {}
<1>1. PICK c : c = Lower(s)
  OBVIOUS
<1>2. /\ c \in Seq(Instructions) /\ Len(c) = Len(s) /\ Len(s) \in Nat
      /\ \A k \in 1..Len(s) : c[k] = Plain(s[k])
  BY <1>1, LowerIs
<1>3. ASSUME NEW i \in DOMAIN c, NEW o  PROVE ~Unchecked(c[i].op, o)
  <2>1. i \in 1..Len(s)
    BY <1>2
  <2>2. PICK p : p = s[i]
    OBVIOUS
  <2>3. p \in Prims /\ c[i] = Plain(p)
    BY <1>2, <2>1, <2>2, ElementOfSeq
  <2>4. c[i].op = <<p.op>>
    BY <2>3, PlainIs
  <2>5. Len(<<p.op>>) = 1 /\ ~(1 > 1)
    OBVIOUS
  <2>6. ~(Len(c[i].op) > 1)
    BY ONLY <2>4, <2>5
  <2> QED  BY <2>6 DEF Unchecked
<1>4. Excused(c) = {}
  BY <1>3 DEF Excused
<1> QED  BY <1>1, <1>4

LEMMA SourceOrdered ==
  ASSUME NEW s, NEW D, Stacked(s, D)
  PROVE  Ordered(s)
<1>1. Len(s) \in Nat /\ \A k \in 1..Len(s) : s[k].id = k
  BY StackedIs
<1> QED  BY <1>1 DEF Ordered

\* the steps g stand in for the whole of s, which leaves d values stacked
StandsIn(s, d, g) ==
  \E D : Stacked(s, D) /\ D[Len(s)] = d /\ Serves(s, D, g, 1, Len(s))

\* Executing the transformed block does what executing the lowered one does.
LEMMA ExecuteAgrees ==
  ASSUME NEW s, NEW d, NEW c \in Seq(Instructions), StandsIn(s, d, Steps(c)), ~Doubles(s)
  PROVE  Alike(Execute(Lower(s)), Execute(c), d, Excused(c))
<1>1. PICK D : Stacked(s, D) /\ D[Len(s)] = d /\ Serves(s, D, Steps(c), 1, Len(s))
  BY DEF StandsIn
<1>2. s \in Seq(Prims) /\ Len(s) \in Nat /\ D[0] \in Nat
  <2>1. s \in Seq(Prims) /\ Len(s) \in Nat /\ \A k \in 0..Len(s) : D[k] \in Nat
    BY <1>1, StackedIs
  <2>2. 0 \in 0..Len(s)
    BY <2>1
  <2> QED  BY <2>1, <2>2
<1>3. PICK K, g, m, n : /\ K = Excused(c) /\ g = Steps(c) /\ m = Execute(Lower(s)) /\ n = Execute(c)
  OBVIOUS
<1>4. Reaches(Input, g, K, n)
  <2>1. Ordered(Steps(c))
    BY <1>1 DEF Serves
  <2>2. \E r : Runs(r, Input, Steps(c), Excused(c)) /\ Execute(c) = r[Len(Steps(c))]
    BY <2>1, ExecuteRuns
  <2> QED  BY <1>3, <2>2 DEF Reaches
<1>5. Reaches(Input, s, {}, m)
  <2>1. PICK l : l = Lower(s)
    OBVIOUS
  <2>2. l \in Seq(Instructions) /\ Steps(l) = s /\ Excused(l) = {}
    BY <1>2, <2>1, LowerIs, LowerExcuses
  <2>3. Ordered(Steps(l))
    BY <1>1, <2>2, SourceOrdered
  <2>4. \E r : Runs(r, Input, Steps(l), Excused(l)) /\ Execute(l) = r[Len(Steps(l))]
    BY <2>2, <2>3, ExecuteRuns
  <2> QED  BY <1>3, <2>1, <2>2, <2>4 DEF Reaches
<1>6. Sim(s, D[0], g, d)
  <2>1. Sim(SubSeq(s, 1, Len(s)), D[1 - 1], g, D[Len(s)])
    BY <1>1, <1>3 DEF Serves
  <2>2. SubSeq(s, 1, Len(s)) = s /\ 1 - 1 = 0
    BY <1>2, SubSeqFull
  <2> QED  BY <1>1, <2>1, <2>2
<1>7. Alike(Input, Input, D[0], K)
  BY <1>2, InputAgrees
<1>8. Alike(m, n, d, K)
  BY <1>4, <1>5, <1>6, <1>7 DEF Sim
<1> QED  BY <1>3, <1>8

-----------------------------------------------------------------------------
(* The specification                                                       *)

\* The steps of the block's instructions stand in for the steps it was
\* lowered to, until the first pass because they are these.
FusionInv ==
  /\ pass \in 0..Passes /\ live \in Nat /\ code \in Seq(Instructions)
  /\ pass = 0 => code = Lower(source)
  /\ StandsIn(source, live, Steps(code))

LEMMA FusionInitInv == FusionInit => FusionInv
<1> SUFFICES ASSUME FusionInit  PROVE FusionInv
  OBVIOUS
<1>1. PICK ops \in Blocks, d \in 0..MaxDepth :
        \E b \in Lowerings(ops, d) :
          source = b[1] /\ live = b[2] /\ code = Lower(b[1]) /\ pass = 0
  BY DEF FusionInit
<1>2. PICK b \in Lowerings(ops, d) :
        source = b[1] /\ live = b[2] /\ code = Lower(b[1]) /\ pass = 0
  BY <1>1
<1>3. ops \in Seq(STRING) /\ d \in Nat
  BY BlocksAreSequences, DepthIsNatural
<1>4. \E D : Stacked(b[1], D) /\ D[0] = d /\ D[Len(b[1])] = b[2] /\ Len(b[1]) = Len(ops)
  BY <1>3, LoweringsAre
<1>5. PICK D : Stacked(b[1], D) /\ D[Len(b[1])] = b[2]
  BY <1>4
<1>6. PICK s : s = source
  OBVIOUS
<1>7. Stacked(s, D) /\ D[Len(s)] = live /\ code = Lower(s) /\ pass = 0
  BY <1>2, <1>5, <1>6
<1>8. s \in Seq(Prims) /\ Len(s) \in Nat /\ \A k \in 0..Len(s) : D[k] \in Nat
  BY <1>7, StackedIs
<1>9. code \in Seq(Instructions) /\ Steps(code) = s
  BY <1>7, <1>8, LowerIs
<1>10. Serves(s, D, s, 1, Len(s))
  <2>1. 1 \in 1..(Len(s) + 1) /\ Len(s) \in (1 - 1)..Len(s)
    BY <1>8
  <2>2. Serves(s, D, SubSeq(s, 1, Len(s)), 1, Len(s))
    BY <1>7, <2>1, ServesSame
  <2>3. SubSeq(s, 1, Len(s)) = s
    BY <1>8, SubSeqFull
  <2> QED  BY <2>2, <2>3
<1>11. StandsIn(source, live, Steps(code))
  <2>1. Stacked(s, D) /\ D[Len(s)] = live /\ Serves(s, D, Steps(code), 1, Len(s))
    BY <1>7, <1>9, <1>10
  <2> QED  BY <1>6, <2>1 DEF StandsIn
<1>12. live \in Nat
  <2>1. Len(s) \in 0..Len(s)
    BY <1>8
  <2> QED  BY <1>7, <1>8, <2>1
<1>13. pass \in 0..Passes
  BY <1>7 DEF Passes
<1> QED  BY <1>6, <1>7, <1>9, <1>11, <1>12, <1>13 DEF FusionInv

LEMMA FusionNextInv == FusionInv /\ [FusionNext]_fusionVars => FusionInv'
<1> SUFFICES ASSUME FusionInv, [FusionNext]_fusionVars  PROVE FusionInv'
  OBVIOUS
<1>1. CASE ApplyPass
  <2>1. PICK p, c, e : p = pass' /\ c = code /\ e = code'
    OBVIOUS
  <2>2. /\ p = pass + 1 /\ pass < Passes /\ e = RunPass(c, p)
        /\ source' = source /\ live' = live
    BY <1>1, <2>1 DEF ApplyPass
  <2>3. /\ pass \in 0..Passes /\ live \in Nat /\ c \in Seq(Instructions)
        /\ pass = 0 => c = Lower(source)
        /\ StandsIn(source, live, Steps(c))
    BY <2>1 DEF FusionInv
  <2>4. p \in 1..Passes /\ (p = 1 <=> pass = 0) /\ (p # 1 => p \in 2..Passes)
    BY <2>2, <2>3 DEF Passes
  <2>5. PICK D : /\ Stacked(source, D) /\ D[Len(source)] = live
                 /\ Serves(source, D, Steps(c), 1, Len(source))
    BY <2>3 DEF StandsIn
  <2>6. CASE p = 1
    <3>1. c = Lower(source) /\ e = RunPass(c, 1)
      BY <2>2, <2>3, <2>4, <2>6
    <3>2. e \in Seq(Instructions) /\ Serves(source, D, Steps(e), 1, Len(source))
      BY <2>5, <3>1, FirstPass
    <3>3. StandsIn(source, live, Steps(e))
      BY <2>5, <3>2 DEF StandsIn
    <3> QED  BY <2>1, <2>2, <2>3, <2>4, <2>6, <3>2, <3>3 DEF FusionInv, Passes
  <2>7. CASE p # 1
    <3>1. e \in Seq(Instructions) /\ Steps(e) = Steps(c)
      BY <2>2, <2>3, <2>4, <2>7, LaterPass
    <3>2. StandsIn(source, live, Steps(e))
      BY <2>3, <3>1
    <3> QED  BY <2>1, <2>2, <2>3, <2>4, <2>7, <3>1, <3>2 DEF FusionInv, Passes
  <2> QED  BY <2>6, <2>7
<1>2. CASE UNCHANGED fusionVars
  BY <1>2 DEF FusionInv, fusionVars
<1> QED  BY <1>1, <1>2 DEF FusionNext

LEMMA FusionInvHolds == FusionSpec => []FusionInv
<1> QED  BY FusionInitInv, FusionNextInv, PTL DEF FusionSpec

LEMMA FusionTyped == FusionInv => FusionTypeOK
<1> SUFFICES ASSUME FusionInv  PROVE FusionTypeOK
  OBVIOUS
<1>1. pass \in 0..Passes /\ live \in Nat /\ code \in Seq(Instructions)
  BY DEF FusionInv
<1>2. Ordered(Steps(code))
  BY DEF FusionInv, StandsIn, Serves
<1>3. PICK ids : ids = FlattenSeq(Numbers(code))
  OBVIOUS
<1>4. /\ ids \in Seq(Nat) /\ Len(ids) = Len(Steps(code))
      /\ \A j \in 1..Len(Steps(code)) : ids[j] = Steps(code)[j].id
  BY <1>1, <1>3, StepsAre
<1>5. \A j, k \in DOMAIN ids : j < k => ids[j] < ids[k]
  <2>1. DOMAIN ids = 1..Len(Steps(code))
    BY <1>4
  <2> QED  BY <1>2, <1>4, <2>1 DEF Ordered
<1> QED  BY <1>1, <1>3, <1>5 DEF FusionTypeOK, Numbers

LEMMA FusionAgrees ==
  ASSUME FusionInv, ~DoublesElement
  PROVE  Alike(Original, Execute(code), live, Skipped)
<1>1. ~Doubles(source)
  BY DEF Doubles, DoublesElement
<1>2. code \in Seq(Instructions) /\ StandsIn(source, live, Steps(code))
  BY DEF FusionInv
<1>3. Alike(Execute(Lower(source)), Execute(code), live, Excused(code))
  BY ONLY <1>1, <1>2, ExecuteAgrees
<1>4. Skipped = Excused(code)
  BY DEF Skipped, Excused
<1> QED  BY <1>3, <1>4 DEF Original

\* Whatever blocks are transformed, the writes and the branch of a block are
\* those it was lowered with after every pass, and its instructions take its
\* steps in their order (ApplyCommunityPeepholeFusion).
THEOREM FusionSameWrites == FusionSpec => []SameWrites
<1>1. FusionInv => SameWrites
  <2> SUFFICES ASSUME FusionInv  PROVE SameWrites
    OBVIOUS
  <2>1. FusionTypeOK
    BY FusionTyped
  <2>2. ~DoublesElement => Execute(code).writes = Original.writes
    BY FusionAgrees DEF Alike
  <2> QED  BY <2>1, <2>2 DEF SameWrites
<1> QED  BY <1>1, FusionInvHolds, PTL

\* What a block leaves on the evaluation stack is what it was lowered to
\* leave there.
THEOREM FusionSameStack == FusionSpec => []SameStack
<1>1. FusionInv => SameStack
  <2> SUFFICES ASSUME FusionInv, ~DoublesElement, NEW x \in 1..live
               PROVE  Execute(code).slots[x] = Original.slots[x]
    BY DEF SameStack
  <2>1. Alike(Original, Execute(code), live, Skipped)
    BY FusionAgrees
  <2> QED  BY <2>1 DEF Alike
<1> QED  BY <1>1, FusionInvHolds, PTL

\* A block makes the checks it was lowered to make, in their order and
\* between the same writes, but for those its handlers leave out.
THEOREM FusionSameChecks == FusionSpec => []SameChecks
<1>1. FusionInv => SameChecks
  <2> SUFFICES ASSUME FusionInv, ~DoublesElement
               PROVE  Execute(code).checks = Without(Original.checks, Skipped)
    BY DEF SameChecks
  <2>1. Alike(Original, Execute(code), live, Skipped)
    BY FusionAgrees
  <2> QED  BY <2>1 DEF Alike, Spared
<1> QED  BY <1>1, FusionInvHolds, PTL

=============================================================================
