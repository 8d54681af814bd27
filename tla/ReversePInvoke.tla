--------------------------- MODULE ReversePInvoke ---------------------------
(***************************************************************************)
(* Native code calls an interpreted static method through a generated      *)
(* wrapper.  The wrappers are a fixed table, grouped by signature; a       *)
(* method gets the next unused one of its signature's group, for the rest  *)
(* of the process (InterpreterModule::GetReversePInvokeWrapper).  The      *)
(* signature is computed between two sections under the same lock.         *)
(***************************************************************************)
EXTENDS Naturals, Sequences, Functions

CONSTANTS
  Callers,     \* the threads that marshal delegates
  Methods,     \* static interpreted methods
  Conventions, \* calling conventions of delegate types
  Shape,       \* the signature of a method but for the convention
  Stubs        \* g_reversePInvokeMethodStub: the signature of each wrapper

\* the table is a C++ array
ASSUME StubsAssumption == Stubs \in Seq(Conventions \X Range(Shape))

\* the generator writes the wrappers of one signature next to each other
ASSUME GroupedAssumption ==
  \A i, k \in DOMAIN Stubs : \A j \in i..k : Stubs[i] = Stubs[k] => Stubs[j] = Stubs[i]

VARIABLES
  caller,       \* what each thread does
  sigIndex,     \* s_methodSig2Indexs
  methodOf,     \* s_reverseInfos: the methodInfo of each wrapper in use
  wrapperOf,    \* s_methodInfo2ReverseInfos
  handed,       \* what has been returned: <<method, convention, wrapper>>
  exceeded      \* the signatures a request was turned down for

wrapperVars == <<caller, sigIndex, methodOf, wrapperOf, handed, exceeded>>

Signature(m, conv) == <<conv, Shape[m]>>
Idle == [step |-> "idle"]
Computing(m, conv) == [step |-> "computing", method |-> m, conv |-> conv]

\* Mutant: a later wrapper of the same signature replaces the entry.
FirstOf_Last(sig) == CHOOSE i \in DOMAIN Stubs : Stubs[i] = sig /\ \A j \in DOMAIN Stubs : Stubs[j] = sig => j <= i

\* InitReversePInvokeInfo: the first wrapper of each signature
FirstOf(sig) == CHOOSE i \in DOMAIN Stubs : Stubs[i] = sig /\ \A j \in 1..(i - 1) : Stubs[j] # sig

Hand(t, m, conv, w) ==
  /\ handed' = handed \cup {<<m, conv, w>>}
  /\ caller' = [caller EXCEPT ![t] = Idle]

\* the first section under the lock
LookUp(t, m, conv) ==
  /\ caller[t] = Idle
  /\ IF m \in DOMAIN wrapperOf
       THEN Hand(t, m, conv, wrapperOf[m])
       ELSE caller' = [caller EXCEPT ![t] = Computing(m, conv)] /\ UNCHANGED handed
  /\ UNCHANGED <<sigIndex, methodOf, wrapperOf, exceeded>>

-----------------------------------------------------------------------------
\* The second section: another thread may have been here in between

FoundNow(t) ==
  /\ caller[t].step = "computing" /\ caller[t].method \in DOMAIN wrapperOf
  /\ Hand(t, caller[t].method, caller[t].conv, wrapperOf[caller[t].method])
  /\ UNCHANGED <<sigIndex, methodOf, wrapperOf, exceeded>>

\* Mutant: the map is not looked up again.
Unserved_Trusted(t) == caller[t].step = "computing"

Unserved(t) == caller[t].step = "computing" /\ caller[t].method \notin DOMAIN wrapperOf
Wanted(t) == Signature(caller[t].method, caller[t].conv)

\* there is a wrapper of that signature, and the index has not left its group
Available(sig) ==
  sig \in DOMAIN sigIndex /\ sigIndex[sig] \in DOMAIN Stubs /\ Stubs[sigIndex[sig]] = sig

\* Mutant: the index is not advanced.
Assign_NoAdvance(t) ==
  /\ Unserved(t) /\ Available(Wanted(t))
  /\ LET m == caller[t].method
         w == sigIndex[Wanted(t)]
     IN  /\ methodOf' = [methodOf EXCEPT ![w] = {m}]
         /\ wrapperOf' = [n \in DOMAIN wrapperOf \cup {m} |-> IF n = m THEN w ELSE wrapperOf[n]]
         /\ Hand(t, m, caller[t].conv, w)
  /\ UNCHANGED <<sigIndex, exceeded>>

\* insert does not replace an entry the map has already
Assign(t) ==
  /\ Unserved(t) /\ Available(Wanted(t))
  /\ LET m == caller[t].method
         w == sigIndex[Wanted(t)]
     IN  /\ sigIndex' = [sigIndex EXCEPT ![Wanted(t)] = w + 1]
         /\ methodOf' = [methodOf EXCEPT ![w] = {m}]
         /\ wrapperOf' = IF m \in DOMAIN wrapperOf THEN wrapperOf
                         ELSE [n \in DOMAIN wrapperOf \cup {m} |-> IF n = m THEN w ELSE wrapperOf[n]]
         /\ Hand(t, m, caller[t].conv, w)
  /\ UNCHANGED exceeded

TurnDown(t) ==
  /\ Unserved(t) /\ ~Available(Wanted(t))
  /\ exceeded' = exceeded \cup {Wanted(t)}
  /\ caller' = [caller EXCEPT ![t] = Idle]
  /\ UNCHANGED <<sigIndex, methodOf, wrapperOf, handed>>

WrappersInit ==
  /\ caller = [t \in Callers |-> Idle]
  /\ sigIndex = [sig \in Range(Stubs) |-> FirstOf(sig)]
  /\ methodOf = [w \in DOMAIN Stubs |-> {}]
  /\ wrapperOf = <<>>
  /\ handed = {} /\ exceeded = {}

WrappersNext ==
  \E t \in Callers :
    \/ \E m \in Methods, conv \in Conventions : LookUp(t, m, conv)
    \/ FoundNow(t) \/ Assign(t) \/ TurnDown(t)

WrappersSpec == WrappersInit /\ [][WrappersNext]_wrapperVars

-----------------------------------------------------------------------------
\* Properties

\* a method's requests have all named one convention
OneConvention(m) == \A g, h \in handed : g[1] = m /\ h[1] = m => g[2] = h[2]

\* The state has its shape, and no signature's index has used its neighbour's.
WrappersTypeOK ==
  /\ \A t \in Callers : caller[t].step \in {"idle", "computing"}
  /\ DOMAIN sigIndex = Range(Stubs)
  /\ \A sig \in DOMAIN sigIndex : \A w \in FirstOf(sig)..(sigIndex[sig] - 1) : Stubs[w] = sig
  /\ methodOf \in [DOMAIN Stubs -> SUBSET Methods]
  /\ DOMAIN wrapperOf \subseteq Methods /\ Range(wrapperOf) \subseteq DOMAIN Stubs
  /\ exceeded \subseteq {Signature(m, c) : m \in Methods, c \in Conventions}

\* Native code that was handed a wrapper for a method calls that method through
\* it, now and later, with the signature and the convention it was made for -
\* unless the method is marshalled under two conventions: the map is keyed by
\* the method alone and answers the second request with the first's wrapper.
\* The state stays well-typed.
WrappersServeTheirMethod ==
  /\ WrappersTypeOK
  /\ \A h \in handed :
       /\ methodOf[h[3]] = {h[1]}
       /\ OneConvention(h[1]) => Stubs[h[3]] = Signature(h[1], h[2])

\* Two threads that marshal one method at the same time use up one wrapper.
OneWrapperPerMethod ==
  \A v, w \in DOMAIN Stubs : methodOf[v] # {} /\ methodOf[v] = methodOf[w] => v = w

\* A request is turned down only when every wrapper of its signature is in use.
TurnedDownOnlyWhenUsedUp ==
  \A sig \in exceeded : \A w \in DOMAIN Stubs : Stubs[w] = sig => methodOf[w] # {}
=============================================================================
