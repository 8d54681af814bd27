------------------------ MODULE ProcessTables_proofs ------------------------
(***************************************************************************)
(* The three tables a process adds to and never takes from.                *)
(*                                                                         *)
(* Wrappers: whatever the threads, methods, conventions and wrappers are,  *)
(* a wrapper serves one method, a method uses up one wrapper, and nobody   *)
(* is turned down while a wrapper of the signature is free.  The invariant *)
(* relates the four tables: the wrappers in use are exactly those before   *)
(* their group's index, methodOf and wrapperOf are inverse to each other,  *)
(* and what was handed out is what wrapperOf says.                         *)
(*                                                                         *)
(* Image indices: whatever the sizes of the fields, an encoded index names *)
(* its image and row, and none is lost.  The invariant says which indices  *)
(* a class has handed out: the multiples of its step below its counter.    *)
(*                                                                         *)
(* Assemblies: for any names, AOT assemblies and placeholders, and any     *)
(* order of loads, failed loads and late references, a reference is to an  *)
(* assembly that was built, and a later load uses the newest of its name.  *)
(***************************************************************************)
EXTENDS ReversePInvoke, ImageIndex, AssemblyReferences, SequenceTheorems, FiniteSetTheorems,
        FunctionTheorems, WellFoundedInduction, TLAPS

Requests == {Computing(m, conv) : m \in Methods, conv \in Conventions}

Typed ==
  /\ caller \in [Callers -> {Idle} \cup Requests]
  /\ sigIndex \in [Range(Stubs) -> Nat]
  /\ methodOf \in [DOMAIN Stubs -> {{}} \cup {{m} : m \in Methods}]
  /\ DOMAIN wrapperOf \subseteq Methods
  /\ \A m \in DOMAIN wrapperOf : wrapperOf[m] \in DOMAIN Stubs
  /\ handed \subseteq Methods \X Conventions \X DOMAIN Stubs
  /\ exceeded \subseteq {Signature(m, c) : m \in Methods, c \in Conventions}

\* an index has passed only wrappers of its own group
InGroup(index) ==
  \A sig \in Range(Stubs) :
    /\ FirstOf(sig) <= index[sig]
    /\ \A w \in FirstOf(sig)..(index[sig] - 1) : w \in DOMAIN Stubs /\ Stubs[w] = sig

\* the wrappers in use are those an index has passed
UsedInOrder == \A w \in DOMAIN Stubs : methodOf[w] # {} <=> w < sigIndex[Stubs[w]]

\* methodOf and wrapperOf are inverse to each other
Paired ==
  /\ \A m \in DOMAIN wrapperOf : methodOf[wrapperOf[m]] = {m}
  /\ \A w \in DOMAIN Stubs, m \in Methods :
       methodOf[w] = {m} => m \in DOMAIN wrapperOf /\ wrapperOf[m] = w

\* what was handed out is what wrapperOf says, and the first request for a
\* method got a wrapper of its signature
HandedOut ==
  /\ \A h \in handed : h[1] \in DOMAIN wrapperOf /\ wrapperOf[h[1]] = h[3]
  /\ \A m \in DOMAIN wrapperOf :
       \E h \in handed : h[1] = m /\ Stubs[wrapperOf[m]] = Signature(m, h[2])

IInv == Typed /\ InGroup(sigIndex) /\ UsedInOrder /\ Paired /\ HandedOut
          /\ TurnedDownOnlyWhenUsedUp

-----------------------------------------------------------------------------
\* The wrappers are numbered from 1.
LEMMA StubNumbers == DOMAIN Stubs = 1..Len(Stubs) /\ Len(Stubs) \in Nat
  BY StubsAssumption

\* InitReversePInvokeInfo finds the first wrapper of every signature there is.
LEMMA FirstOfGroup ==
  ASSUME NEW sig \in Range(Stubs)
  PROVE  /\ FirstOf(sig) \in DOMAIN Stubs
         /\ Stubs[FirstOf(sig)] = sig
         /\ \A j \in 1..(FirstOf(sig) - 1) : Stubs[j] # sig
<1> DEFINE Group == {i \in DOMAIN Stubs : Stubs[i] = sig}
<1>1. Group \subseteq Nat /\ Group # {}
  BY StubNumbers DEF Range
<1>2. PICK i \in Group : \A j \in Group : ~(<<j, i>> \in OpToRel(<, Nat))
  <2> HIDE DEF Group
  <2> QED  BY <1>1, WFMin, NatLessThanWellFounded
<1>3. \A j \in Group : ~(j < i)
  <2> SUFFICES ASSUME NEW j \in Group, j < i  PROVE FALSE
    OBVIOUS
  <2>1. i \in Nat /\ j \in Nat
    BY <1>1
  <2>2. <<j, i>> \in OpToRel(<, Nat)
    BY <2>1 DEF OpToRel
  <2> QED  BY <1>2, <2>2
<1>4. \A j \in 1..(i - 1) : Stubs[j] # sig
  BY <1>3, StubNumbers
<1> QED  BY <1>4 DEF FirstOf

\* A request is turned down only by a group whose index has passed it all.
LEMMA GroupPassed ==
  ASSUME Typed, InGroup(sigIndex), NEW sig, ~Available(sig),
         NEW w \in DOMAIN Stubs, Stubs[w] = sig
  PROVE  w < sigIndex[sig]
<1>1. sig \in Range(Stubs)
  BY DEF Range
<1>2. sigIndex[sig] \in Nat /\ DOMAIN sigIndex = Range(Stubs)
  BY <1>1 DEF Typed
<1>3. FirstOf(sig) <= sigIndex[sig] /\ FirstOf(sig) \in DOMAIN Stubs /\ Stubs[FirstOf(sig)] = sig
  BY <1>1, FirstOfGroup DEF InGroup
<1>4. SUFFICES ASSUME sigIndex[sig] <= w  PROVE FALSE
  BY <1>2, StubNumbers
<1>5. sigIndex[sig] \in FirstOf(sig)..w /\ sigIndex[sig] \in DOMAIN Stubs
  BY <1>2, <1>3, <1>4, StubNumbers
<1>6. Stubs[sigIndex[sig]] = sig
  BY <1>3, <1>5, GroupedAssumption
<1> QED  BY <1>1, <1>2, <1>5, <1>6 DEF Available

-----------------------------------------------------------------------------
\* A process starts with every wrapper free.
LEMMA InitIInv == WrappersInit => IInv
<1> SUFFICES ASSUME WrappersInit  PROVE IInv
  OBVIOUS
<1>1. \A sig \in Range(Stubs) : sigIndex[sig] = FirstOf(sig) /\ FirstOf(sig) \in Nat
  BY FirstOfGroup, StubNumbers DEF WrappersInit
<1>2. DOMAIN wrapperOf = {}
  BY DEF WrappersInit
<1>3. Typed
  BY <1>1, <1>2 DEF Typed, WrappersInit
<1>4. InGroup(sigIndex)
  BY <1>1 DEF InGroup
<1>5. UsedInOrder
  <2> SUFFICES ASSUME NEW w \in DOMAIN Stubs  PROVE ~(w < sigIndex[Stubs[w]])
    BY DEF UsedInOrder, WrappersInit
  <2>1. Stubs[w] \in Range(Stubs)
    BY DEF Range
  <2>2. w \notin 1..(FirstOf(Stubs[w]) - 1)
    BY <2>1, FirstOfGroup
  <2> QED  BY <1>1, <2>1, <2>2, StubNumbers
<1>6. Paired /\ HandedOut /\ TurnedDownOnlyWhenUsedUp
  BY <1>2 DEF Paired, HandedOut, TurnedDownOnlyWhenUsedUp, WrappersInit
<1> QED  BY <1>3, <1>4, <1>5, <1>6 DEF IInv

\* An answer from the table keeps the tables as they are.
LEMMA HandIInv ==
  ASSUME IInv, NEW t \in Callers, NEW m \in DOMAIN wrapperOf, NEW conv \in Conventions,
         Hand(t, m, conv, wrapperOf[m]),
         UNCHANGED <<sigIndex, methodOf, wrapperOf, exceeded>>
  PROVE  IInv'
<1>1. handed' = handed \cup {<<m, conv, wrapperOf[m]>>} /\ caller' = [caller EXCEPT ![t] = Idle]
  BY DEF Hand
<1>2. Typed'
  BY <1>1 DEF IInv, Typed
<1>3. InGroup(sigIndex)' /\ UsedInOrder' /\ Paired' /\ TurnedDownOnlyWhenUsedUp'
  BY DEF IInv, InGroup, UsedInOrder, Paired, TurnedDownOnlyWhenUsedUp
<1>4. HandedOut'
  BY <1>1 DEF IInv, HandedOut
<1> QED  BY <1>2, <1>3, <1>4 DEF IInv

\* The first section under the lock answers or leaves to compute the signature.
LEMMA LookUpIInv ==
  ASSUME IInv, NEW t \in Callers, NEW m \in Methods, NEW conv \in Conventions,
         LookUp(t, m, conv)
  PROVE  IInv'
<1>1. CASE m \in DOMAIN wrapperOf
  BY <1>1, HandIInv DEF LookUp
<1>2. CASE m \notin DOMAIN wrapperOf
  <2>1. caller' = [caller EXCEPT ![t] = Computing(m, conv)]
        /\ UNCHANGED <<sigIndex, methodOf, wrapperOf, handed, exceeded>>
    BY <1>2 DEF LookUp
  <2>2. Typed'
    BY <2>1 DEF IInv, Typed, Requests
  <2>3. InGroup(sigIndex)' /\ UsedInOrder' /\ Paired' /\ HandedOut' /\ TurnedDownOnlyWhenUsedUp'
    BY <2>1 DEF IInv, InGroup, UsedInOrder, Paired, HandedOut, TurnedDownOnlyWhenUsedUp
  <2> QED  BY <2>2, <2>3 DEF IInv
<1> QED  BY <1>1, <1>2

\* What a computing thread computes for.
LEMMA Computed ==
  ASSUME Typed, NEW t \in Callers, caller[t].step = "computing"
  PROVE  caller[t].method \in Methods /\ caller[t].conv \in Conventions
<1>1. caller[t] # Idle
  BY DEF Idle
<1>2. PICK m \in Methods, conv \in Conventions : caller[t] = Computing(m, conv)
  BY <1>1 DEF Typed, Requests
<1> QED  BY <1>2 DEF Computing

\* The second section takes the next wrapper of the group, which is free.
LEMMA AssignIInv ==
  ASSUME IInv, NEW t \in Callers, Assign(t)
  PROVE  IInv'
<1> DEFINE m == caller[t].method
           conv == caller[t].conv
           sig == Wanted(t)
           w == sigIndex[sig]
<1>1. m \in Methods /\ conv \in Conventions /\ m \notin DOMAIN wrapperOf
  BY Computed DEF IInv, Assign, Unserved
<1>2. sig \in Range(Stubs) /\ w \in DOMAIN Stubs /\ Stubs[w] = sig /\ w \in Nat
  BY StubNumbers DEF IInv, Typed, Assign, Available
<1>3. /\ sigIndex' = [sigIndex EXCEPT ![sig] = w + 1]
      /\ methodOf' = [methodOf EXCEPT ![w] = {m}]
      /\ wrapperOf' = [n \in DOMAIN wrapperOf \cup {m} |-> IF n = m THEN w ELSE wrapperOf[n]]
      /\ handed' = handed \cup {<<m, conv, w>>}
      /\ caller' = [caller EXCEPT ![t] = Idle]
      /\ exceeded' = exceeded
  BY <1>1 DEF Assign, Hand
<1>4. sig = Signature(m, conv)
  BY DEF Wanted
<1>5. methodOf[w] = {}
  BY <1>2 DEF IInv, UsedInOrder
<1> HIDE DEF m, conv, sig, w
<1>6. Typed'
  BY <1>1, <1>2, <1>3 DEF IInv, Typed
<1>7. InGroup(sigIndex)'
  <2> SUFFICES ASSUME NEW g \in Range(Stubs)
               PROVE  /\ FirstOf(g) <= sigIndex'[g]
                      /\ \A v \in FirstOf(g)..(sigIndex'[g] - 1) : v \in DOMAIN Stubs /\ Stubs[v] = g
    BY DEF InGroup
  <2>1. FirstOf(g) \in Nat
    BY FirstOfGroup, StubNumbers
  <2>2. /\ FirstOf(g) <= sigIndex[g]
        /\ \A v \in FirstOf(g)..(sigIndex[g] - 1) : v \in DOMAIN Stubs /\ Stubs[v] = g
    BY DEF IInv, InGroup
  <2>3. CASE g = sig
    <3>1. sigIndex'[g] = w + 1 /\ sigIndex[g] = w
      BY <1>2, <1>3, <2>3 DEF IInv, Typed, w
    <3> QED  BY <1>2, <2>1, <2>2, <2>3, <3>1
  <2>4. CASE g # sig
    BY <1>3, <2>2, <2>4 DEF IInv, Typed
  <2> QED  BY <2>3, <2>4
<1>8. UsedInOrder'
  <2> SUFFICES ASSUME NEW v \in DOMAIN Stubs
               PROVE  methodOf'[v] # {} <=> v < sigIndex'[Stubs[v]]
    BY DEF UsedInOrder
  <2>1. (methodOf[v] # {} <=> v < sigIndex[Stubs[v]]) /\ v \in Nat
    BY StubNumbers DEF IInv, UsedInOrder
  <2>2. CASE v = w
    BY <1>2, <1>3, <2>2 DEF IInv, Typed
  <2>3. CASE v # w
    <3>1. methodOf'[v] = methodOf[v]
      BY <1>3, <2>3 DEF IInv, Typed
    <3>2. CASE Stubs[v] = sig
      <4>1. sigIndex'[Stubs[v]] = w + 1 /\ sigIndex[Stubs[v]] = w
        BY <1>2, <1>3, <3>2 DEF IInv, Typed, w
      <4> QED  BY <1>2, <2>1, <2>3, <3>1, <4>1
    <3>3. CASE Stubs[v] # sig
      BY <1>3, <2>1, <3>1, <3>3 DEF IInv, Typed, Range
    <3> QED  BY <3>2, <3>3
  <2> QED  BY <2>2, <2>3
<1>9. Paired'
  <2>1. \A n \in DOMAIN wrapperOf : wrapperOf[n] # w
    BY <1>5 DEF IInv, Paired
  <2>2. ASSUME NEW n \in DOMAIN wrapperOf'  PROVE methodOf'[wrapperOf'[n]] = {n}
    <3>1. CASE n = m
      BY <1>2, <1>3, <3>1 DEF IInv, Typed
    <3>2. CASE n # m
      BY <1>3, <2>1, <3>2 DEF IInv, Typed, Paired
    <3> QED  BY <3>1, <3>2
  <2>3. ASSUME NEW v \in DOMAIN Stubs, NEW n \in Methods, methodOf'[v] = {n}
        PROVE  n \in DOMAIN wrapperOf' /\ wrapperOf'[n] = v
    <3>1. CASE v = w
      BY <1>2, <1>3, <2>3, <3>1 DEF IInv, Typed
    <3>2. CASE v # w
      <4>1. methodOf[v] = {n}
        BY <1>3, <2>3, <3>2 DEF IInv, Typed
      <4>2. n \in DOMAIN wrapperOf /\ wrapperOf[n] = v
        BY <4>1 DEF IInv, Paired
      <4> QED  BY <1>1, <1>3, <4>2
    <3> QED  BY <3>1, <3>2
  <2> QED  BY <2>2, <2>3 DEF Paired
<1>10. HandedOut'
  <2>1. ASSUME NEW h \in handed'  PROVE h[1] \in DOMAIN wrapperOf' /\ wrapperOf'[h[1]] = h[3]
    <3>1. CASE h = <<m, conv, w>>
      BY <1>3, <3>1
    <3>2. CASE h \in handed
      BY <1>1, <1>3, <3>2 DEF IInv, HandedOut
    <3> QED  BY <1>3, <3>1, <3>2
  <2>2. ASSUME NEW n \in DOMAIN wrapperOf'
        PROVE  \E h \in handed' : h[1] = n /\ Stubs[wrapperOf'[n]] = Signature(n, h[2])
    <3>1. CASE n = m
      <4> DEFINE h == <<m, conv, w>>
      <4>1. h \in handed' /\ h[1] = n /\ h[2] = conv
        BY <1>3, <3>1
      <4>2. Stubs[wrapperOf'[n]] = Signature(n, conv)
        BY <1>2, <1>3, <1>4, <3>1
      <4> QED  BY <4>1, <4>2
    <3>2. CASE n # m
      <4>1. n \in DOMAIN wrapperOf /\ wrapperOf'[n] = wrapperOf[n]
        BY <1>3, <3>2
      <4> QED  BY <1>3, <4>1 DEF IInv, HandedOut
    <3> QED  BY <3>1, <3>2
  <2> QED  BY <2>1, <2>2 DEF HandedOut
<1>11. TurnedDownOnlyWhenUsedUp'
  BY <1>3 DEF IInv, Typed, TurnedDownOnlyWhenUsedUp
<1> QED  BY <1>6, <1>7, <1>8, <1>9, <1>10, <1>11 DEF IInv

\* A thread is turned down when its group is used up.
LEMMA TurnDownIInv ==
  ASSUME IInv, NEW t \in Callers, TurnDown(t)
  PROVE  IInv'
<1>1. /\ exceeded' = exceeded \cup {Wanted(t)}
      /\ caller' = [caller EXCEPT ![t] = Idle]
      /\ UNCHANGED <<sigIndex, methodOf, wrapperOf, handed>>
  BY DEF TurnDown
<1>2. Wanted(t) \in {Signature(m, c) : m \in Methods, c \in Conventions}
  BY Computed DEF IInv, TurnDown, Unserved, Wanted
<1>3. Typed'
  BY <1>1, <1>2 DEF IInv, Typed
<1>4. InGroup(sigIndex)' /\ UsedInOrder' /\ Paired' /\ HandedOut'
  BY <1>1 DEF IInv, InGroup, UsedInOrder, Paired, HandedOut
<1>5. ASSUME NEW w \in DOMAIN Stubs, Stubs[w] = Wanted(t)  PROVE methodOf[w] # {}
  BY <1>5, GroupPassed DEF IInv, UsedInOrder, TurnDown
<1>6. TurnedDownOnlyWhenUsedUp'
  BY <1>1, <1>5 DEF IInv, TurnedDownOnlyWhenUsedUp
<1> QED  BY <1>3, <1>4, <1>6 DEF IInv

\* Every step of the pool preserves the invariant.
LEMMA NextIInv == IInv /\ [WrappersNext]_wrapperVars => IInv'
<1> SUFFICES ASSUME IInv, [WrappersNext]_wrapperVars  PROVE IInv'
  OBVIOUS
<1>1. CASE UNCHANGED wrapperVars
  BY <1>1 DEF wrapperVars, IInv, Typed, InGroup, UsedInOrder, Paired, HandedOut,
       TurnedDownOnlyWhenUsedUp
<1>2. ASSUME NEW t \in Callers, NEW m \in Methods, NEW conv \in Conventions, LookUp(t, m, conv)
      PROVE  IInv'
  BY <1>2, LookUpIInv
<1>3. ASSUME NEW t \in Callers, FoundNow(t)  PROVE IInv'
  <2>1. caller[t].method \in DOMAIN wrapperOf /\ caller[t].conv \in Conventions
    BY <1>3, Computed DEF FoundNow, IInv
  <2> QED  BY <1>3, <2>1, HandIInv DEF FoundNow
<1>4. ASSUME NEW t \in Callers, Assign(t)  PROVE IInv'
  BY <1>4, AssignIInv
<1>5. ASSUME NEW t \in Callers, TurnDown(t)  PROVE IInv'
  BY <1>5, TurnDownIInv
<1> QED  BY <1>1, <1>2, <1>3, <1>4, <1>5 DEF WrappersNext

LEMMA SpecIInv == WrappersSpec => []IInv
  BY InitIInv, NextIInv, PTL DEF WrappersSpec

-----------------------------------------------------------------------------
\* A wrapper that was handed out for a method calls that method for good, with
\* the signature and convention it was made for while the method is marshalled
\* under one convention; and no index leaves its signature's group.
THEOREM SpecWrappersServeTheirMethod == WrappersSpec => []WrappersServeTheirMethod
<1>1. IInv => WrappersServeTheirMethod
  <2> SUFFICES ASSUME IInv  PROVE WrappersServeTheirMethod
    OBVIOUS
  <2>1. WrappersTypeOK
    <3>1. \A t \in Callers : caller[t].step \in {"idle", "computing"}
      BY DEF IInv, Typed, Requests, Idle, Computing
    <3>2. \A sig \in DOMAIN sigIndex : \A w \in FirstOf(sig)..(sigIndex[sig] - 1) : Stubs[w] = sig
      BY DEF IInv, Typed, InGroup
    <3>3. methodOf \in [DOMAIN Stubs -> SUBSET Methods]
      BY DEF IInv, Typed
    <3>4. Range(wrapperOf) \subseteq DOMAIN Stubs
      BY DEF IInv, Typed, Range
    <3> QED  BY <3>1, <3>2, <3>3, <3>4 DEF WrappersTypeOK, IInv, Typed
  <2>2. ASSUME NEW h \in handed
        PROVE  /\ methodOf[h[3]] = {h[1]}
               /\ OneConvention(h[1]) => Stubs[h[3]] = Signature(h[1], h[2])
    <3>1. h[1] \in DOMAIN wrapperOf /\ wrapperOf[h[1]] = h[3]
      BY DEF IInv, HandedOut
    <3>2. PICK g \in handed : g[1] = h[1] /\ Stubs[wrapperOf[h[1]]] = Signature(h[1], g[2])
      BY <3>1 DEF IInv, HandedOut
    <3>3. OneConvention(h[1]) => g[2] = h[2]
      BY <3>2 DEF OneConvention
    <3> QED  BY <3>1, <3>2, <3>3 DEF IInv, Paired
  <2> QED  BY <2>1, <2>2 DEF WrappersServeTheirMethod
<1> QED  BY <1>1, SpecIInv, PTL

\* However many threads marshal one method at the same time, between the two
\* sections under the lock, one wrapper is used up for it.
THEOREM SpecOneWrapperPerMethod == WrappersSpec => []OneWrapperPerMethod
<1>1. IInv => OneWrapperPerMethod
  <2> SUFFICES ASSUME IInv, NEW v \in DOMAIN Stubs, NEW w \in DOMAIN Stubs,
                      methodOf[v] # {}, methodOf[v] = methodOf[w]
               PROVE  v = w
    BY DEF OneWrapperPerMethod
  <2>1. methodOf[v] \in {{}} \cup {{m} : m \in Methods}
    BY DEF IInv, Typed
  <2>2. PICK m \in Methods : methodOf[v] = {m}
    BY <2>1
  <2>3. methodOf[w] = {m}
    BY <2>2
  <2>4. wrapperOf[m] = v /\ wrapperOf[m] = w
    BY <2>2, <2>3 DEF IInv, Paired
  <2> QED  BY <2>4
<1> QED  BY <1>1, SpecIInv, PTL

\* A request is turned down only when every wrapper of its signature is in use:
\* the walk over a group ends at its end.
THEOREM SpecTurnedDownOnlyWhenUsedUp == WrappersSpec => []TurnedDownOnlyWhenUsedUp
<1>1. IInv => TurnedDownOnlyWhenUsedUp
  BY DEF IInv
<1> QED  BY <1>1, SpecIInv, PTL
-----------------------------------------------------------------------------
\* A product of integers keeps the order of one factor.
LEMMA MulLess ==
  ASSUME NEW a \in Int, NEW b \in Int, NEW d \in Nat \ {0}, a < b
  PROVE  a * d + d <= b * d
<1>1. b * d - a * d = (b - a) * d
  OBVIOUS
<1>2. (b - a) * d >= d
  OBVIOUS
<1> QED  BY <1>1, <1>2

LEMMA OneMore == \A a, d \in Int : (a + 1) * d = a * d + d
  OBVIOUS

\* Quotient and remainder are those of any such decomposition.
LEMMA Division ==
  ASSUME NEW q \in Int, NEW d \in Nat \ {0}, NEW r \in 0..(d - 1)
  PROVE  (q * d + r) \div d = q /\ (q * d + r) % d = r
<1>1. PICK a \in Int : a = q * d + r
  OBVIOUS
<1>2. PICK p \in Int, s \in 0..(d - 1) : a = d * p + s /\ p = a \div d /\ s = a % d
  OBVIOUS
<1>3. p = q
  <2>1. CASE p < q
    BY <1>1, <1>2, <2>1, MulLess
  <2>2. CASE q < p
    BY <1>1, <1>2, <2>2, MulLess
  <2> QED  BY <2>1, <2>2
<1>4. s = r
  BY <1>1, <1>2, <1>3
<1> QED  BY <1>1, <1>2, <1>3, <1>4

\* The classes: the steps of a class fill its indices exactly.
LEMMA Classes ==
  ASSUME NEW k \in Kinds
  PROVE  /\ k \in Nat /\ k <= 3
         /\ Rows \in Nat \ {0} /\ Indices \in Nat \ {0}
         /\ Step[k] \in Nat \ {0} /\ Step[k] <= Indices
         /\ Indices \div Step[k] \in Nat \ {0}
         /\ (Indices \div Step[k]) * Step[k] = Indices
         /\ k = 3 => Step[k] = 1
         /\ Step[k] <= Step[0]
         /\ \A j \in Kinds : j <= k => Step[k] <= Step[j]
<1>1. /\ k \in Nat /\ k <= 3 /\ Rows \in Nat \ {0} /\ Indices \in Nat \ {0}
      /\ Step[k] \in Nat \ {0} /\ Step[k] <= Indices /\ (k = 3 => Step[k] = 1)
      /\ Indices % Step[k] = 0
  BY SizeAssumption DEF Kinds
<1>2. /\ Step[0] \in Nat /\ Step[1] \in Nat /\ Step[2] \in Nat /\ Step[3] \in Nat
      /\ Step[1] <= Step[0] /\ Step[2] <= Step[1] /\ Step[3] <= Step[2]
  BY SizeAssumption DEF Kinds
<1>3. \A j \in Kinds : j <= k => Step[k] <= Step[j]
  BY <1>1, <1>2 DEF Kinds
<1>4. Step[k] <= Step[0]
  BY <1>1, <1>2 DEF Kinds
<1>5. PICK n \in Int : n = Indices \div Step[k] /\ Indices = n * Step[k]
  BY <1>1
<1>6. n > 0
  <2>1. CASE n <= 0
    <3>1. n * Step[k] <= 0
      BY <1>1, <2>1
    <3> QED  BY <1>1, <1>5, <3>1
  <2> QED  BY <2>1
<1> QED  BY <1>1, <1>3, <1>4, <1>5, <1>6

\* Of the classes there is a largest.
LEMMA LargestKind ==
  ASSUME NEW S \in SUBSET Kinds, S # {}
  PROVE  LET kind == CHOOSE k \in S : \A j \in S : j <= k
         IN  kind \in S /\ \A j \in S : j <= kind
<1>1. \A j \in S : j \in {0, 1, 2, 3}
  BY DEF Kinds
<1>2. CASE 3 \in S
  <2>1. \A j \in S : j <= 3
    BY <1>1
  <2> QED  BY <1>2, <2>1
<1>3. CASE 3 \notin S /\ 2 \in S
  <2>1. \A j \in S : j <= 2
    BY <1>1, <1>3
  <2> QED  BY <1>3, <2>1
<1>4. CASE 3 \notin S /\ 2 \notin S /\ 1 \in S
  <2>1. \A j \in S : j <= 1
    BY <1>1, <1>4
  <2> QED  BY <1>4, <2>1
<1>5. CASE 3 \notin S /\ 2 \notin S /\ 1 \notin S
  <2>1. \A j \in S : j = 0
    BY <1>1, <1>5
  <2> QED  BY <2>1
<1> QED  BY <1>2, <1>3, <1>4, <1>5
-----------------------------------------------------------------------------
\* The j-th index of class k, when n is the next to give
Given(k, n, id) ==
  \E j \in Nat : (k = 0 => j > 0) /\ j * Step[k] < n /\ id = ImageOf(j * Step[k], k)

Counters ==
  /\ nextIndex \in [Kinds -> 0..Indices]
  /\ \A k \in Kinds : \E j \in Nat : nextIndex[k] = j * Step[k]
  /\ nextIndex[0] >= Step[0] /\ nextIndex[3] < Indices

Handed == \A id : id \in taken <=> \E k \in Kinds : Given(k, nextIndex[k], id)

FullFor ==
  \A length \in refused : Fitting(length) # {} =>
    \A k \in 0..KindByDllLength(length) : ~HasRoom(k)

Latest == latest.id \in taken \cup {InvalidImage} /\ latest.length \in Lengths \cup {0}

ImagesInv == Counters /\ Handed /\ Latest /\ refused \subseteq Lengths /\ FullFor

\* An image is in the class of its index.
LEMMA GivenIs ==
  ASSUME NEW k \in Kinds, NEW n \in 0..Indices, NEW id, Given(k, n, id)
  PROVE  /\ id \in Nat /\ id \div Indices = k /\ id < k * Indices + n
         /\ id \in 1..(4 * Indices - 1)
<1>1. PICK j \in Nat : (k = 0 => j > 0) /\ j * Step[k] < n /\ id = ImageOf(j * Step[k], k)
  BY DEF Given
<1>2. /\ k \in Nat /\ k <= 3 /\ Indices \in Nat \ {0} /\ Step[k] \in Nat \ {0}
  BY Classes
<1>3. PICK i \in Nat : i = j * Step[k] /\ (j > 0 => i > 0)
  <2>1. j * Step[k] \in Nat
    BY <1>2
  <2>2. j > 0 => j * Step[k] > 0
    BY <1>2
  <2> QED  BY <2>1, <2>2
<1>4. id = k * Indices + i /\ i \in 0..(Indices - 1)
  BY <1>1, <1>2, <1>3 DEF ImageOf
<1>5. id \div Indices = k
  <2>1. k \in Int
    BY <1>2
  <2>2. (k * Indices + i) \div Indices = k
    BY <1>2, <1>4, <2>1, Division, Zenon
  <2> QED  BY <1>4, <2>2
<1>6. k * Indices \in Nat /\ k * Indices <= 3 * Indices /\ (k > 0 => k * Indices > 0)
  BY <1>2
<1>7. id \in Nat /\ id < k * Indices + n
  <2>1. i < n
    BY <1>1, <1>3
  <2> QED  BY <1>3, <1>4, <1>6, <2>1
<1>8. id <= 4 * Indices - 1 /\ id >= 1
  <2>1. id <= 3 * Indices + (Indices - 1)
    BY <1>2, <1>4, <1>6
  <2>2. id >= 1
    <3>1. CASE k = 0
      BY <1>1, <1>2, <1>3, <1>4, <1>6, <3>1
    <3>2. CASE k > 0
      BY <1>2, <1>4, <1>6, <3>2
    <3> QED  BY <1>2, <3>1, <3>2
  <2> QED  BY <1>2, <2>1, <2>2
<1> QED  BY <1>2, <1>5, <1>7, <1>8

LEMMA ImagesInitInv == ImagesInit => ImagesInv
<1> SUFFICES ASSUME ImagesInit PROVE ImagesInv
  OBVIOUS
<1>1. \A k \in Kinds : nextIndex[k] = IF k = 0 THEN Step[0] ELSE 0
  BY DEF ImagesInit
<1>2. Counters
  <2>1. 0 \in Kinds /\ 3 \in Kinds /\ \A k \in Kinds : Step[k] \in 1..Indices
    BY SizeAssumption DEF Kinds
  <2>2. Indices \in Nat \ {0}
    BY SizeAssumption
  <2>3. \A k \in Kinds : \E j \in Nat : nextIndex[k] = j * Step[k]
    <3>1. ASSUME NEW k \in Kinds
          PROVE  nextIndex[k] = (IF k = 0 THEN 1 ELSE 0) * Step[k]
      BY <1>1, <2>1
    <3> QED  BY <3>1
  <2> QED  BY <1>1, <2>1, <2>2, <2>3 DEF Counters, ImagesInit
<1>3. Handed
  <2>1. ASSUME NEW k \in Kinds, NEW id, Given(k, nextIndex[k], id)
        PROVE  FALSE
    <3>1. PICK j \in Nat : (k = 0 => j > 0) /\ j * Step[k] < nextIndex[k]
      BY <2>1 DEF Given
    <3>2. Step[k] \in Nat \ {0}
      BY Classes
    <3>3. CASE k = 0
      BY <1>1, <3>1, <3>2, <3>3
    <3>4. CASE k # 0
      BY <1>1, <3>1, <3>2, <3>4
    <3> QED  BY <3>3, <3>4
  <2> QED  BY <2>1 DEF Handed, ImagesInit
<1> QED  BY <1>2, <1>3 DEF ImagesInv, ImagesInit, Latest, FullFor

\* The class an image gets is large enough and has room.
LEMMA ChosenKind ==
  ASSUME NEW length, Fitting(length) # {}, Candidates(length) # {}
  PROVE  LET kind == CHOOSE k \in Candidates(length) : \A j \in Candidates(length) : j <= k
         IN  /\ kind \in Kinds /\ HasRoom(kind)
             /\ MaxRow(length) <= IndexMask(KindByDllLength(length))
             /\ KindByDllLength(length) \in Kinds /\ kind <= KindByDllLength(length)
<1>1. Fitting(length) \subseteq Kinds
  BY DEF Fitting
<1>2. KindByDllLength(length) \in Fitting(length)
  BY <1>1, LargestKind DEF KindByDllLength
<1>3. Candidates(length) \subseteq Kinds
  BY <1>1, <1>2 DEF Candidates, Kinds
<1>4. PICK kind : kind = CHOOSE k \in Candidates(length) : \A j \in Candidates(length) : j <= k
  OBVIOUS
<1>5. kind \in Candidates(length)
  BY <1>3, <1>4, LargestKind
<1>6. kind \in Kinds /\ HasRoom(kind) /\ kind <= KindByDllLength(length)
  BY <1>1, <1>2, <1>3, <1>5 DEF Candidates, Kinds
<1>7. MaxRow(length) <= IndexMask(KindByDllLength(length)) /\ KindByDllLength(length) \in Kinds
  BY <1>1, <1>2 DEF Fitting
<1> QED  BY <1>4, <1>6, <1>7

\* One more index of class k
LEMMA GivesNext ==
  ASSUME NEW k \in Kinds, Counters, HasRoom(k)
  PROVE  /\ nextIndex[k] + Step[k] \in 0..Indices
         /\ k = 3 => nextIndex[k] + Step[k] < Indices
         /\ \E j \in Nat : nextIndex[k] + Step[k] = j * Step[k]
         /\ \A id : Given(k, nextIndex[k] + Step[k], id)
                      <=> Given(k, nextIndex[k], id) \/ id = ImageOf(nextIndex[k], k)
<1>1. /\ Step[k] \in Nat \ {0} /\ Indices \in Nat \ {0} /\ (k = 3 => Step[k] = 1)
  BY Classes
<1>2. PICK m \in Nat : nextIndex[k] = m * Step[k]
  BY DEF Counters
<1>3. PICK N \in Nat : N * Step[k] = Indices
  BY Classes
<1>4. nextIndex[k] \in 0..Indices /\ nextIndex[k] < Indices /\ (k = 3 => nextIndex[k] < Indices - 1)
  BY <1>1 DEF Counters, HasRoom
<1>5. m < N
  <2>1. CASE N = m
    BY <1>2, <1>3, <1>4, <2>1
  <2>2. CASE N < m
    <3>1. N * Step[k] + Step[k] <= m * Step[k]
      BY <1>1, <2>2, MulLess
    <3> QED  BY <1>1, <1>2, <1>3, <1>4, <3>1
  <2> QED  BY <2>1, <2>2
<1>6. m * Step[k] + Step[k] <= N * Step[k]
  BY <1>1, <1>5, MulLess
<1>7. (m + 1) * Step[k] = m * Step[k] + Step[k]
  <2>1. m \in Int /\ Step[k] \in Int
    BY <1>1
  <2> QED  BY <2>1, OneMore, Zenon
<1>8. k = 0 => m > 0
  BY <1>1, <1>2 DEF Counters
<1>9. ASSUME NEW id
      PROVE  Given(k, nextIndex[k] + Step[k], id)
               <=> Given(k, nextIndex[k], id) \/ id = ImageOf(nextIndex[k], k)
  <2>1. ASSUME NEW j \in Nat
        PROVE  j * Step[k] < m * Step[k] + Step[k] <=> j * Step[k] < m * Step[k] \/ j = m
    <3>1. CASE j < m
      <4>1. j * Step[k] + Step[k] <= m * Step[k]
        BY <1>1, <3>1, MulLess
      <4> QED  BY <1>1, <3>1, <4>1
    <3>2. CASE j = m
      BY <1>1, <3>2
    <3>3. CASE m < j
      <4>1. m * Step[k] + Step[k] <= j * Step[k]
        BY <1>1, <3>3, MulLess
      <4> QED  BY <1>1, <3>3, <4>1
    <3> QED  BY <3>1, <3>2, <3>3
  <2>2. ASSUME Given(k, nextIndex[k] + Step[k], id)
        PROVE  Given(k, nextIndex[k], id) \/ id = ImageOf(nextIndex[k], k)
    <3>1. PICK j \in Nat : (k = 0 => j > 0) /\ j * Step[k] < m * Step[k] + Step[k]
                             /\ id = ImageOf(j * Step[k], k)
      BY <1>2, <2>2 DEF Given
    <3> QED  BY <1>2, <2>1, <3>1 DEF Given
  <2>3. ASSUME Given(k, nextIndex[k], id)
        PROVE  Given(k, nextIndex[k] + Step[k], id)
    <3>1. PICK j \in Nat : (k = 0 => j > 0) /\ j * Step[k] < m * Step[k]
                             /\ id = ImageOf(j * Step[k], k)
      BY <1>2, <2>3 DEF Given
    <3> QED  BY <1>2, <2>1, <3>1 DEF Given
  <2>4. ASSUME id = ImageOf(nextIndex[k], k)
        PROVE  Given(k, nextIndex[k] + Step[k], id)
    BY <1>2, <1>8, <2>1, <2>4 DEF Given
  <2> QED  BY <2>2, <2>3, <2>4
<1>10. nextIndex[k] + Step[k] \in 0..Indices /\ (k = 3 => nextIndex[k] + Step[k] < Indices)
  BY <1>1, <1>2, <1>3, <1>4, <1>6
<1>11. \E j \in Nat : nextIndex[k] + Step[k] = j * Step[k]
  <2>1. nextIndex[k] + Step[k] = (m + 1) * Step[k]
    BY <1>2, <1>7
  <2> QED  BY <2>1
<1> QED  BY <1>9, <1>10, <1>11

LEMMA AllocateInv ==
  ASSUME ImagesInv, NEW length \in Lengths, Fitting(length) # {}, Candidates(length) # {},
         Allocate(length)
  PROVE  ImagesInv'
<1>1. PICK kind : kind = CHOOSE k \in Candidates(length) : \A j \in Candidates(length) : j <= k
  OBVIOUS
<1>2. kind \in Kinds /\ HasRoom(kind)
  BY <1>1, ChosenKind
<1>3. /\ nextIndex' = [nextIndex EXCEPT ![kind] = @ + Step[kind]]
      /\ taken' = taken \cup {ImageOf(nextIndex[kind], kind)}
      /\ latest' = [id |-> ImageOf(nextIndex[kind], kind), length |-> length]
      /\ refused' = refused
  BY <1>1 DEF Allocate
<1>4. /\ Counters /\ Handed /\ refused \subseteq Lengths /\ FullFor
  BY DEF ImagesInv
<1>5. nextIndex \in [Kinds -> 0..Indices]
  BY <1>4 DEF Counters
<1>6. /\ nextIndex'[kind] = nextIndex[kind] + Step[kind]
      /\ \A k \in Kinds : k # kind => nextIndex'[k] = nextIndex[k]
  BY <1>2, <1>3, <1>5
<1>7. /\ nextIndex'[kind] \in 0..Indices /\ (kind = 3 => nextIndex'[kind] < Indices)
      /\ \E j \in Nat : nextIndex'[kind] = j * Step[kind]
      /\ \A id : Given(kind, nextIndex'[kind], id)
                   <=> Given(kind, nextIndex[kind], id) \/ id = ImageOf(nextIndex[kind], kind)
  BY <1>2, <1>4, <1>6, GivesNext
<1>8. Counters'
  <2>1. nextIndex' \in [Kinds -> 0..Indices]
    BY <1>2, <1>3, <1>5, <1>6, <1>7
  <2>2. \A k \in Kinds : \E j \in Nat : nextIndex'[k] = j * Step[k]
    BY <1>4, <1>6, <1>7 DEF Counters
  <2>3. nextIndex'[0] >= Step[0]
    <3>1. 0 \in Kinds /\ Step[0] \in Nat
      BY SizeAssumption DEF Kinds
    <3>2. nextIndex[0] >= Step[0] /\ nextIndex[0] \in Nat
      BY <1>4, <1>5, <3>1 DEF Counters
    <3> QED  BY <1>6, <3>1, <3>2
  <2>4. nextIndex'[3] < Indices
    BY <1>4, <1>6, <1>7 DEF Counters, Kinds
  <2> QED  BY <2>1, <2>2, <2>3, <2>4 DEF Counters
<1>9. Handed'
  BY <1>2, <1>3, <1>4, <1>6, <1>7 DEF Handed
<1>10. Latest'
  BY <1>3 DEF Latest
<1>11. FullFor'
  <2>1. ASSUME NEW l \in refused, Fitting(l) # {}, NEW k \in 0..KindByDllLength(l)
        PROVE  ~HasRoom(k)'
    <3>1. ~HasRoom(k)
      BY <1>4, <2>1 DEF FullFor
    <3>2. k \in Kinds
      <4>1. KindByDllLength(l) \in Kinds
        BY <2>1, LargestKind DEF KindByDllLength, Fitting
      <4> QED  BY <2>1, <4>1 DEF Kinds
    <3>3. nextIndex'[k] = nextIndex[k]
      BY <1>2, <1>6, <3>1, <3>2
    <3> QED  BY <3>1, <3>3 DEF HasRoom
  <2> QED  BY <1>3, <2>1 DEF FullFor
<1> QED  BY <1>3, <1>4, <1>8, <1>9, <1>10, <1>11 DEF ImagesInv

LEMMA RefuseInv ==
  ASSUME ImagesInv, NEW length \in Lengths, Fitting(length) = {} \/ Candidates(length) = {},
         Refuse(length)
  PROVE  ImagesInv'
<1>1. nextIndex' = nextIndex /\ taken' = taken /\ latest' = latest /\ refused' = refused \cup {length}
  BY DEF Refuse
<1>2. Counters' /\ Handed' /\ Latest'
  BY <1>1 DEF ImagesInv, Counters, Handed, Latest
<1>3. FullFor'
  <2>1. ASSUME NEW l \in refused \cup {length}, Fitting(l) # {}, NEW k \in 0..KindByDllLength(l)
        PROVE  ~HasRoom(k)
    BY <2>1 DEF ImagesInv, FullFor, Candidates
  <2> QED  BY <1>1, <2>1 DEF FullFor, HasRoom
<1> QED  BY <1>1, <1>2, <1>3 DEF ImagesInv

ImagesSpec == ImagesInit /\ [][ImagesNext]_imageVars

LEMMA ImagesStep == ImagesInv /\ [ImagesNext]_imageVars => ImagesInv'
<1>1. ASSUME ImagesInv, NEW length \in Lengths, AllocImageIndex(length)
      PROVE  ImagesInv'
  BY <1>1, AllocateInv, RefuseInv DEF AllocImageIndex
<1>2. ASSUME ImagesInv, UNCHANGED imageVars
      PROVE  ImagesInv'
  BY <1>2 DEF imageVars, ImagesInv, Counters, Handed, Latest, FullFor, HasRoom
<1> QED  BY <1>1, <1>2 DEF ImagesNext

LEMMA ImagesCorrect == ImagesSpec => []ImagesInv
  BY ImagesInitInv, ImagesStep, PTL DEF ImagesSpec

\* A full class has given all the indices there are.
LEMMA FullCount ==
  ASSUME Counters, NEW k \in Kinds, ~HasRoom(k)
  PROVE  \E m \in Nat :
           /\ nextIndex[k] = m * Step[k]
           /\ m - (IF k = 0 THEN 1 ELSE 0) = Capacity(k)
           /\ k = 0 => m > 0
<1>1. /\ Step[k] \in Nat \ {0} /\ Indices \in Nat \ {0} /\ (k = 3 => Step[k] = 1)
      /\ k \in Nat /\ k <= 3
  BY Classes
<1>2. PICK m \in Nat : nextIndex[k] = m * Step[k]
  BY DEF Counters
<1>3. PICK N \in Nat \ {0} : N * Step[k] = Indices /\ N = Indices \div Step[k]
  BY Classes
<1>4. nextIndex[k] \in 0..Indices /\ nextIndex[k] >= Indices - (IF k = 3 THEN 1 ELSE 0)
  BY <1>1 DEF Counters, HasRoom
<1>5. CASE k = 3
  <2>1. nextIndex[k] = Indices - 1
    BY <1>1, <1>4, <1>5 DEF Counters
  <2>2. nextIndex[k] = m /\ N = Indices
    BY <1>1, <1>2, <1>3, <1>5
  <2> QED  BY <1>1, <1>2, <1>3, <1>5, <2>1, <2>2 DEF Capacity
<1>6. CASE k # 3
  <2>1. m * Step[k] = N * Step[k]
    BY <1>1, <1>2, <1>3, <1>4, <1>6
  <2>2. m = N
    <3>1. CASE m < N
      <4>1. m * Step[k] + Step[k] <= N * Step[k]
        BY <1>1, <3>1, MulLess
      <4> QED  BY <1>1, <2>1, <4>1
    <3>2. CASE N < m
      <4>1. N * Step[k] + Step[k] <= m * Step[k]
        BY <1>1, <3>2, MulLess
      <4> QED  BY <1>1, <2>1, <4>1
    <3> QED  BY <3>1, <3>2
  <2> QED  BY <1>2, <1>3, <1>6, <2>2 DEF Capacity
<1> QED  BY <1>5, <1>6

LEMMA Filled ==
  ASSUME Counters, Handed, NEW k \in Kinds, ~HasRoom(k)
  PROVE  Cardinality({id \in taken : id \div Indices = k}) = Capacity(k)
<1>1. PICK m \in Nat :
        /\ nextIndex[k] = m * Step[k]
        /\ m - (IF k = 0 THEN 1 ELSE 0) = Capacity(k)
        /\ k = 0 => m > 0
  BY FullCount
<1>2. PICK b \in Nat : b = IF k = 0 THEN 1 ELSE 0
  OBVIOUS
<1>3. PICK S : S = {id \in taken : id \div Indices = k}
  OBVIOUS
<1>4. PICK f : f = [j \in b..(m - 1) |-> ImageOf(j * Step[k], k)]
  OBVIOUS
<1>5. /\ Step[k] \in Nat \ {0} /\ Indices \in Nat \ {0} /\ k \in Nat
  BY Classes
<1>6. \A i \in Kinds : nextIndex[i] \in 0..Indices
  BY DEF Counters
<1>7. ASSUME NEW j \in b..(m - 1)
      PROVE  ImageOf(j * Step[k], k) \in S
  <2>1. j * Step[k] + Step[k] <= m * Step[k]
    BY <1>5, <1>7, MulLess
  <2>2. Given(k, nextIndex[k], ImageOf(j * Step[k], k))
    <3>1. j \in Nat /\ (k = 0 => j > 0)
      BY <1>2, <1>7
    <3>2. j * Step[k] < nextIndex[k]
      BY <1>1, <1>5, <2>1, <3>1
    <3> QED  BY <3>1, <3>2 DEF Given
  <2>3. ImageOf(j * Step[k], k) \div Indices = k
    BY <1>6, <2>2, GivenIs
  <2> QED  BY <1>3, <2>2, <2>3 DEF Handed
<1>8. ASSUME NEW i \in b..(m - 1), NEW j \in b..(m - 1), i < j
      PROVE  ImageOf(i * Step[k], k) # ImageOf(j * Step[k], k)
  <2>1. i * Step[k] + Step[k] <= j * Step[k]
    BY <1>5, <1>8, MulLess
  <2>2. i * Step[k] \in Nat /\ j * Step[k] \in Nat /\ k * Indices \in Nat
    BY <1>5
  <2> QED  BY <1>5, <2>1, <2>2 DEF ImageOf
<1>9. ASSUME NEW id \in S
      PROVE  \E j \in b..(m - 1) : id = ImageOf(j * Step[k], k)
  <2>1. PICK i \in Kinds : Given(i, nextIndex[i], id)
    BY <1>3 DEF Handed
  <2>2. i = k
    BY <1>3, <1>6, <2>1, GivenIs
  <2>3. PICK j \in Nat : (k = 0 => j > 0) /\ j * Step[k] < m * Step[k] /\ id = ImageOf(j * Step[k], k)
    BY <1>1, <2>1, <2>2 DEF Given
  <2>4. j < m
    <3>1. CASE m < j
      <4>1. m * Step[k] + Step[k] <= j * Step[k]
        BY <1>5, <3>1, MulLess
      <4> QED  BY <1>5, <2>3, <4>1
    <3>2. CASE m = j
      BY <1>5, <2>3, <3>2
    <3> QED  BY <3>1, <3>2
  <2>5. j \in b..(m - 1)
    BY <1>2, <2>3, <2>4
  <2> QED  BY <2>3, <2>5
<1>10. f \in Bijection(b..(m - 1), S)
  <2>1. f \in [b..(m - 1) -> S]
    BY <1>4, <1>7
  <2>2. ASSUME NEW i \in b..(m - 1), NEW j \in b..(m - 1), f[i] = f[j]
        PROVE  i = j
    BY <1>4, <1>8, <2>2
  <2>3. \A id \in S : \E j \in b..(m - 1) : f[j] = id
    BY <1>4, <1>9
  <2>4. IsInjective(f)
    BY <2>1, <2>2 DEF IsInjective
  <2> QED  BY <2>1, <2>3, <2>4 DEF Bijection, Injection, Surjection
<1>11. IsFiniteSet(b..(m - 1)) /\ Cardinality(b..(m - 1)) = m - b
  <2>1. m - 1 \in Int /\ b \in Int /\ m >= b
    BY <1>1, <1>2
  <2>2. /\ IsFiniteSet(b..(m - 1))
        /\ Cardinality(b..(m - 1)) = IF b > m - 1 THEN 0 ELSE (m - 1) - b + 1
    BY <2>1, FS_Interval
  <2> QED  BY <1>2, <2>1, <2>2
<1>12. Cardinality(S) = Cardinality(b..(m - 1))
  BY <1>10, <1>11, FS_Bijection DEF ExistsBijection
<1> QED  BY <1>1, <1>2, <1>3, <1>11, <1>12

LEMMA ImagesTyped == ImagesInv => ImagesTypeOK
<1> SUFFICES ASSUME ImagesInv PROVE ImagesTypeOK
  OBVIOUS
<1>1. taken \subseteq 1..(4 * Indices - 1)
  <2>1. ASSUME NEW id \in taken
        PROVE  id \in 1..(4 * Indices - 1)
    <3>1. PICK k \in Kinds : Given(k, nextIndex[k], id)
      BY DEF ImagesInv, Handed
    <3>2. nextIndex[k] \in 0..Indices
      BY DEF ImagesInv, Counters
    <3> QED  BY <3>1, <3>2, GivenIs
  <2> QED  BY <2>1
<1> QED  BY <1>1 DEF ImagesInv, Counters, Latest, ImagesTypeOK

\* An assembly is refused an index only when every class that is large enough
\* for it has handed out all it has (InterpreterImage::AllocImageIndex): no index
\* is skipped, and a larger class stands in for a full one.
THEOREM SpecRefusedOnlyWhenFull == ImagesSpec => []RefusedOnlyWhenFull
<1>1. ASSUME ImagesInv
      PROVE  RefusedOnlyWhenFull
  <2>1. ASSUME NEW length \in refused, Fitting(length) # {}, NEW kind \in 0..KindByDllLength(length)
        PROVE  Cardinality({id \in taken : id \div Indices = kind}) = Capacity(kind)
    <3>1. ~HasRoom(kind)
      BY <1>1, <2>1 DEF ImagesInv, FullFor
    <3>2. kind \in Kinds
      <4>1. KindByDllLength(length) \in Kinds
        BY <2>1, LargestKind DEF KindByDllLength, Fitting
      <4> QED  BY <4>1 DEF Kinds
    <3> QED  BY <1>1, <3>1, <3>2, Filled DEF ImagesInv
  <2> QED  BY <1>1, <2>1, ImagesTyped DEF RefusedOnlyWhenFull
<1> QED  BY <1>1, ImagesCorrect, PTL
-----------------------------------------------------------------------------
\* What Encode joins, the two Decode functions take apart again, for a row that
\* fits the class of the image.
LEMMA Regroup ==
  ASSUME NEW i \in Nat, NEW k \in Nat, NEW D \in Nat, NEW R \in Nat,
         NEW j \in Nat, NEW s \in Nat, NEW N \in Nat, i = j * s, N * s = D
  PROVE  /\ (i + k * D) * R = k * (R * D) + i * R
         /\ (i + k * D) * R = (k * N + j) * (R * s)
<1>1. (i + k * D) * R = k * (R * D) + i * R
  OBVIOUS
<1>2. i * R = j * (R * s)
  OBVIOUS
<1>3. k * (R * D) = k * (R * (N * s))
  OBVIOUS
<1>4. k * (R * (N * s)) = (k * N) * (R * s)
  OBVIOUS
<1>5. (k * N) * (R * s) + j * (R * s) = (k * N + j) * (R * s)
  OBVIOUS
<1> QED  BY <1>1, <1>2, <1>3, <1>4, <1>5

LEMMA Encoding ==
  ASSUME NEW k \in Kinds, NEW j \in Nat, NEW i \in Nat, i = j * Step[k],
         i < Indices, k = 3 => i < Indices - 1, k = 0 => j > 0,
         NEW row \in 0..IndexMask(k)
  PROVE  /\ Encode(ImageOf(i, k), row) \in 0..(InvalidIndex - 1)
         /\ DecodeImageIndex(Encode(ImageOf(i, k), row)) = ImageOf(i, k)
         /\ DecodeMetadataIndex(Encode(ImageOf(i, k), row)) = row
         /\ IsInterpreterIndex(Encode(ImageOf(i, k), row))
<1>1. PICK R \in Nat \ {0} : R = Rows
  BY Classes
<1>2. PICK D \in Nat \ {0} : D = Indices
  BY Classes
<1>3. PICK s \in Nat \ {0} : s = Step[k] /\ s <= D /\ (k = 3 => s = 1)
  BY <1>2, Classes
<1>4. PICK N \in Nat \ {0} : N * s = D
  BY <1>2, <1>3, Classes
<1>5. k \in Nat /\ k <= 3
  BY Classes
<1>6. PICK W \in Nat \ {0} : W = R * s
  OBVIOUS
<1>7. PICK C \in Nat \ {0} : C = R * D
  OBVIOUS
<1>8. IndexMask(k) + 1 = W /\ IndicesOfKind = C /\ InvalidIndex = 4 * C - 1
  BY <1>1, <1>2, <1>3, <1>6, <1>7 DEF IndexMask, IndicesOfKind, InvalidIndex, Word
<1>9. row \in 0..(W - 1)
  BY <1>1, <1>3, <1>6 DEF IndexMask
<1>10. PICK id \in Nat : id = i + k * D /\ id = ImageOf(i, k)
  BY <1>2, <1>5 DEF ImageOf
<1>11. id * R = k * C + i * R /\ id * R = (k * N + j) * W
  BY <1>3, <1>4, <1>5, <1>6, <1>7, <1>10, Regroup
<1>12. PICK low \in Nat : low = i * R + row
  BY <1>9
<1>13. low < C /\ (k = 3 => low <= C - R - 1)
  <2>1. j < N
    <3>1. CASE j = N
      BY <1>2, <1>3, <1>4, <3>1
    <3>2. CASE N < j
      <4>1. N * s + s <= j * s
        BY <3>2, MulLess
      <4> QED  BY <1>2, <1>3, <1>4, <4>1
    <3> QED  BY <3>1, <3>2
  <2>2. i + s <= D
    <3>1. j * s + s <= N * s
      BY <2>1, MulLess
    <3> QED  BY <1>3, <1>4, <3>1
  <2>3. i * R + W <= C
    <3>1. (i + s) * R <= D * R
      <4>1. CASE i + s = D
        BY <4>1
      <4>2. CASE i + s < D
        BY <4>2, MulLess
      <4> QED  BY <2>2, <4>1, <4>2
    <3>2. (i + s) * R = i * R + W
      BY <1>6
    <3>3. D * R = C
      BY <1>7
    <3> QED  BY <3>1, <3>2, <3>3
  <2>4. low < C
    BY <1>9, <1>12, <2>3
  <2>5. CASE k = 3
    <3>1. i + 1 < D
      BY <1>2, <2>5
    <3>2. (i + 1) * R + R <= D * R
      BY <3>1, MulLess
    <3>3. (i + 1) * R = i * R + R /\ D * R = C /\ W = R
      BY <1>3, <1>6, <1>7, <2>5
    <3>4. i * R + R + R <= C
      BY <3>2, <3>3
    <3> QED  BY <1>9, <1>12, <2>4, <3>3, <3>4
  <2> QED  BY <2>4, <2>5
<1>14. row < 4 * C - 1
  BY <1>7, <1>9, <1>12, <1>13
<1>15. PICK index \in Nat : index = id * R + row /\ index = Encode(id, row)
  BY <1>1, <1>8, <1>9, <1>14 DEF Encode
<1>16. index = k * C + low /\ index = (k * N + j) * W + row
  <2>1. PICK x \in Nat : x = i * R
    OBVIOUS
  <2>2. PICK y \in Nat : y = id * R
    OBVIOUS
  <2>3. PICK z \in Nat : z = k * C
    BY <1>5
  <2>4. y = z + x /\ index = y + row /\ low = x + row
    BY <1>11, <1>12, <1>15, <2>1, <2>2, <2>3
  <2>5. index = z + low
    BY <1>9, <2>4
  <2> QED  BY <1>11, <2>2, <2>3, <2>4, <2>5
<1>17. KindOf(index) = k
  <2>1. k \in Int /\ low \in 0..(C - 1)
    BY <1>5, <1>13
  <2>2. (k * C + low) \div C = k
    BY <2>1, Division, Zenon
  <2> QED  BY <1>8, <1>16, <2>2 DEF KindOf
<1>18. index % W = row
  <2>1. k * N + j \in Int
    BY <1>5
  <2>2. ((k * N + j) * W + row) % W = row
    BY <1>9, <2>1, Division, Zenon
  <2> QED  BY <1>16, <2>2
<1>19. (index - row) \div R = id
  <2>1. index - row = id * R + 0
    BY <1>9, <1>15
  <2>2. id \in Int /\ 0 \in 0..(R - 1)
    OBVIOUS
  <2>3. (id * R + 0) \div R = id
    BY <2>2, Division, Zenon
  <2> QED  BY <2>1, <2>3
<1>20. index <= 4 * C - 2
  <2>1. CASE k = 3
    BY <1>13, <1>16, <2>1
  <2>2. CASE k # 3
    <3>1. k = 0 \/ k = 1 \/ k = 2
      BY <1>5, <2>2
    <3>2. PICK z \in Nat : z = k * C
      BY <1>5
    <3>3. z <= 2 * C
      BY <3>1, <3>2
    <3>4. index = z + low
      BY <1>16, <3>2
    <3> QED  BY <1>13, <3>3, <3>4
  <2> QED  BY <2>1, <2>2
<1>21. index > IndexMask(0)
  <2>1. PICK t \in Nat \ {0} : t = Step[0] /\ t <= D
    BY <1>2, Classes DEF Kinds
  <2>2. id >= t
    <3>1. CASE k = 0
      <4>1. i >= s
        <5>1. 0 * s + s <= j * s
          BY <3>1, MulLess
        <5> QED  BY <1>3, <5>1
      <4> QED  BY <1>3, <1>10, <2>1, <3>1, <4>1
    <3>2. CASE k # 0
      <4>1. PICK z \in Nat : z = k * D
        BY <1>5
      <4>2. z >= D
        BY <1>5, <3>2, <4>1
      <4>3. id = i + z
        BY <1>10, <4>1
      <4> QED  BY <2>1, <4>2, <4>3
    <3> QED  BY <3>1, <3>2
  <2>3. id * R >= t * R
    <3>1. CASE t < id
      BY <3>1, MulLess
    <3>2. CASE t = id
      BY <3>2
    <3> QED  BY <2>2, <3>1, <3>2
  <2>4. IndexMask(0) = t * R - 1
    BY <1>1, <2>1 DEF IndexMask
  <2> QED  BY <1>9, <1>15, <2>3, <2>4
<1>22. /\ index \in 0..(InvalidIndex - 1) /\ index # InvalidIndex
  BY <1>7, <1>8, <1>20
<1>23. DecodeImageIndex(index) = id /\ DecodeMetadataIndex(index) = row
  BY <1>1, <1>8, <1>17, <1>18, <1>19, <1>22 DEF DecodeImageIndex, DecodeMetadataIndex
<1>24. IsInterpreterIndex(index)
  BY <1>21, <1>22 DEF IsInterpreterIndex
<1> QED  BY <1>10, <1>15, <1>22, <1>23, <1>24

\* A step that hands out an index
LEMMA RecoveredStep ==
  ASSUME ImagesInv, [ImagesNext]_imageVars, latest' # latest, Sane(latest'.length)
  PROVE  /\ latest'.id \notin taken
         /\ \A row \in 0..(latest'.length * 4) :
              LET index == Encode(latest'.id, row)
              IN  /\ index \in 0..(InvalidIndex - 1)
                  /\ DecodeImageIndex(index) = latest'.id
                  /\ DecodeMetadataIndex(index) = row
                  /\ IsInterpreterIndex(index)
<1>1. PICK length \in Lengths :
        Allocate(length) /\ Fitting(length) # {} /\ Candidates(length) # {}
  BY DEF ImagesNext, AllocImageIndex, Refuse, imageVars
<1>2. PICK k : k = CHOOSE n \in Candidates(length) : \A j \in Candidates(length) : j <= n
  OBVIOUS
<1>3. /\ k \in Kinds /\ HasRoom(k) /\ MaxRow(length) <= IndexMask(KindByDllLength(length))
      /\ KindByDllLength(length) \in Kinds /\ k <= KindByDllLength(length)
  BY <1>1, <1>2, ChosenKind
<1>4. latest' = [id |-> ImageOf(nextIndex[k], k), length |-> length]
  BY <1>1, <1>2 DEF Allocate
<1>5. Counters /\ Handed
  BY DEF ImagesInv
<1>6. PICK i \in Nat : i = nextIndex[k]
  BY <1>3, <1>5 DEF Counters
<1>7. /\ i < Indices /\ (k = 3 => i < Indices - 1) /\ Indices \in Nat \ {0}
      /\ Step[k] \in Nat \ {0} /\ k \in Nat
  BY <1>3, <1>6, Classes DEF HasRoom
<1>8. PICK j \in Nat : i = j * Step[k] /\ (k = 0 => j > 0)
  <2>1. PICK j \in Nat : i = j * Step[k]
    BY <1>3, <1>5, <1>6 DEF Counters
  <2>2. k = 0 => j > 0
    <3>1. SUFFICES ASSUME k = 0, j = 0 PROVE FALSE
      OBVIOUS
    <3>2. i = 0
      BY <1>7, <2>1, <3>1
    <3>3. i >= Step[k]
      BY <1>5, <1>6, <3>1 DEF Counters
    <3> QED  BY <1>7, <3>2, <3>3
  <2> QED  BY <2>1, <2>2
<1>9. latest'.id = ImageOf(i, k) /\ latest'.length = length
  BY <1>4, <1>6
<1>10. ImageOf(i, k) \notin taken
  <2>1. SUFFICES ASSUME ImageOf(i, k) \in taken PROVE FALSE
    OBVIOUS
  <2>2. PICK n \in Kinds : Given(n, nextIndex[n], ImageOf(i, k))
    BY <1>5, <2>1 DEF Handed
  <2>3. nextIndex[n] \in 0..Indices
    BY <1>5 DEF Counters
  <2>4. ImageOf(i, k) \div Indices = n /\ ImageOf(i, k) < n * Indices + nextIndex[n]
    BY <2>2, <2>3, GivenIs
  <2>5. ImageOf(i, k) = k * Indices + i /\ k \in Int /\ i \in 0..(Indices - 1)
    BY <1>7 DEF ImageOf
  <2>6. (k * Indices + i) \div Indices = k
    BY <1>7, <2>5, Division, Zenon
  <2>7. n = k
    BY <2>4, <2>5, <2>6
  <2> QED  BY <1>6, <1>7, <2>4, <2>5, <2>7
<1>11. ASSUME NEW row \in 0..(length * 4)
       PROVE  row \in 0..IndexMask(k)
  <2>1. length \in Nat
    BY LengthAssumption
  <2>2. Word \in Nat \ {0} /\ length * 4 < Word
    <3>1. Word \in Nat \ {0}
      BY SizeAssumption DEF Word, IndicesOfKind
    <3> QED  BY <1>9, <3>1 DEF Sane
  <2>3. MaxRow(length) = length * 4
    BY <2>1, <2>2 DEF MaxRow
  <2>4. IndexMask(KindByDllLength(length)) <= IndexMask(k)
    <3>1. PICK R \in Nat \ {0} : R = Rows
      BY <1>3, Classes
    <3>2. PICK a \in Nat : a = Step[KindByDllLength(length)]
      BY <1>3, Classes
    <3>3. PICK b \in Nat : b = Step[k]
      BY <1>7
    <3>4. a <= b
      BY <1>3, <3>2, <3>3, Classes
    <3>5. R * a <= R * b
      BY <3>4
    <3> QED  BY <3>1, <3>2, <3>3, <3>5 DEF IndexMask
  <2>5. IndexMask(k) \in Int /\ IndexMask(KindByDllLength(length)) \in Int
    BY <1>3, Classes DEF IndexMask
  <2> QED  BY <1>3, <1>11, <2>1, <2>3, <2>4, <2>5
<1>12. ASSUME NEW row \in 0..(latest'.length * 4)
       PROVE  /\ Encode(latest'.id, row) \in 0..(InvalidIndex - 1)
              /\ DecodeImageIndex(Encode(latest'.id, row)) = latest'.id
              /\ DecodeMetadataIndex(Encode(latest'.id, row)) = row
              /\ IsInterpreterIndex(Encode(latest'.id, row))
  BY <1>3, <1>7, <1>8, <1>9, <1>11, Encoding
<1> QED  BY <1>9, <1>10, <1>12

\* Whatever an image encodes, in any class and order of allocation, is decoded as
\* that row of that image, and no two images share an encoded index, for lengths
\* whose fourfold fits a word (EncodeImageAndMetadataIndex, DecodeImageIndex).
THEOREM SpecEncodedIndicesAreRecovered == ImagesSpec => EncodedIndicesAreRecovered
<1>1. ASSUME ImagesInv, [ImagesNext]_imageVars
      PROVE  [latest' # latest /\ Sane(latest'.length) =>
               /\ latest'.id \notin taken
               /\ \A row \in 0..(latest'.length * 4) :
                    LET index == Encode(latest'.id, row)
                    IN  /\ index \in 0..(InvalidIndex - 1)
                        /\ DecodeImageIndex(index) = latest'.id
                        /\ DecodeMetadataIndex(index) = row
                        /\ IsInterpreterIndex(index)]_imageVars
  BY <1>1, RecoveredStep
<1> QED  BY <1>1, ImagesCorrect, PTL DEF EncodedIndicesAreRecovered, ImagesSpec

-----------------------------------------------------------------------------
(* What Kept of Lists returns *)

LEMMA LeastOf ==
  ASSUME NEW I, I \subseteq Nat, I # {}
  PROVE  \E i \in I : \A j \in I : i <= j
<1>1. PICK i \in I : \A j \in I : ~(<<j, i>> \in OpToRel(<, Nat))
  BY WFMin, NatLessThanWellFounded
<1>2. \A j \in I : ~(j < i)
  <2> SUFFICES ASSUME NEW j \in I, j < i  PROVE FALSE
    OBVIOUS
  <2>1. <<j, i>> \in OpToRel(<, Nat)
    BY DEF OpToRel
  <2> QED  BY <1>1, <2>1
<1> QED  BY <1>2

LEMMA GreatestOf ==
  ASSUME NEW n \in Nat, NEW I, I \subseteq 1 .. n, I # {}
  PROVE  \E i \in I : \A j \in I : j <= i
<1> DEFINE J == {m \in Nat : \A j \in I : j <= m}
<1>1. n \in J /\ J \subseteq Nat
  OBVIOUS
<1>2. PICK m \in J : \A k \in J : m <= k
  <2> HIDE DEF J
  <2> QED  BY <1>1, LeastOf
<1>3. m \in I
  <2> SUFFICES ASSUME m \notin I PROVE FALSE
    OBVIOUS
  <2>1. PICK j \in I : TRUE
    OBVIOUS
  <2>2. m \in Nat /\ m # 0 /\ \A k \in I : k <= m /\ k # m
    BY <2>1
  <2>3. m - 1 \in J
    BY <2>2
  <2> QED  BY <1>2, <2>2, <2>3
<1> QED  BY <1>2, <1>3

\* e walks over the positions of s with an element in S, each once, from left to
\* right; r has what it sees.
Picks(e, s, S, r) ==
  /\ e \in [1 .. Len(r) -> 1 .. Len(s)]
  /\ \A q \in 1 .. Len(r) : r[q] = s[e[q]] /\ s[e[q]] \in S
  /\ \A p, q \in 1 .. Len(r) : p < q => e[p] < e[q]
  /\ \A k \in 1 .. Len(s) : s[k] \in S => \E q \in 1 .. Len(r) : e[q] = k

LEMMA KeptFollows ==
  ASSUME NEW T, NEW s \in Seq(T), NEW S
  PROVE  Kept(s, S) \in Seq(T) /\ \E e : Picks(e, s, S, Kept(s, S))
<1> PICK I : I = Positions(s, S)
  OBVIOUS
<1> PICK c : c = Cardinality(I)
  OBVIOUS
<1> DEFINE rank == [k \in I |-> Cardinality(I \cap 1 .. k)]
<1>1. Len(s) \in Nat /\ I \subseteq 1 .. Len(s) /\ IsFiniteSet(I) /\ c \in Nat
  <2>1. Len(s) \in Nat /\ I \subseteq 1 .. Len(s)
    BY DEF Positions
  <2>2. IsFiniteSet(1 .. Len(s))
    <3>1. 1 \in Int /\ Len(s) \in Int
      BY <2>1
    <3> QED  BY <3>1, FS_Interval
  <2>3. IsFiniteSet(I)
    BY <2>1, <2>2, FS_Subset
  <2> QED  BY <2>1, <2>3, FS_CardinalityType
<1>2. ASSUME NEW k \in I PROVE rank[k] \in 1 .. c /\ IsFiniteSet(I \cap 1 .. k)
  <2>1. IsFiniteSet(I \cap 1 .. k) /\ Cardinality(I \cap 1 .. k) <= c
    BY <1>1, FS_Subset
  <2>2. k \in I \cap 1 .. k
    BY <1>1
  <2>3. Cardinality(I \cap 1 .. k) \in Nat /\ Cardinality(I \cap 1 .. k) # 0
    BY <2>1, <2>2, FS_CardinalityType, FS_EmptySet
  <2> QED  BY <2>1, <2>3, <1>1
<1>3. ASSUME NEW k \in I, NEW l \in I, k < l PROVE rank[k] < rank[l]
  <2>1. I \cap 1 .. k \subseteq I \cap 1 .. l /\ l \in (I \cap 1 .. l) \ (I \cap 1 .. k)
    BY <1>1, <1>3
  <2>2. IsFiniteSet(I \cap 1 .. l)
    BY <1>2
  <2>3. /\ Cardinality(I \cap 1 .. k) <= Cardinality(I \cap 1 .. l)
        /\ Cardinality(I \cap 1 .. k) # Cardinality(I \cap 1 .. l)
    BY <2>1, <2>2, FS_Subset
  <2>4. rank[k] \in Nat /\ rank[l] \in Nat
    BY <1>1, <1>2
  <2> QED  BY <2>3, <2>4
<1>4. rank \in Injection(I, 1 .. c)
  <2>1. \A k, l \in I : rank[k] = rank[l] => k = l
    <3> HIDE DEF rank
    <3> SUFFICES ASSUME NEW k \in I, NEW l \in I, rank[k] = rank[l], k # l PROVE FALSE
      OBVIOUS
    <3>1. k \in Nat /\ l \in Nat
      BY <1>1
    <3>4. rank[k] \in 1 .. c /\ rank[l] \in 1 .. c
      BY <1>2
    <3>2. k < l \/ l < k
      BY <3>1
    <3> QED  BY <3>4, <3>2, <1>3
  <2>2. rank \in [I -> 1 .. c]
    BY <1>2
  <2> HIDE DEF rank
  <2> QED  BY <2>1, <2>2, Fun_IsInj
<1>5. \A q \in 1 .. c : \E k \in I : rank[k] = q
  <2> HIDE DEF rank
  <2>1. IsFiniteSet(1 .. c) /\ Cardinality(1 .. c) = c
    BY <1>1, FS_Interval
  <2>2. rank \in Surjection(I, 1 .. c)
    BY <1>4, <2>1, FS_Injection
  <2> QED  BY <2>2 DEF Surjection
<1> DEFINE e == [q \in 1 .. c |-> CHOOSE k \in I : Cardinality(I \cap 1 .. k) = q]
<1>6. \A q \in 1 .. c : e[q] \in I /\ rank[e[q]] = q
  BY <1>5
<1>7. /\ Kept(s, S) = [q \in 1 .. c |-> s[e[q]]]
  BY DEF Kept
<1>8. \A k \in I : k \in 1 .. Len(s) /\ s[k] \in T /\ s[k] \in S
  BY <1>1 DEF Positions
<1> HIDE DEF e, rank
<1>9. e \in [1 .. c -> 1 .. Len(s)]
  BY <1>6, <1>8 DEF e
<1>10. Kept(s, S) \in Seq(T) /\ Len(Kept(s, S)) = c
  BY <1>1, <1>6, <1>7, <1>8
<1>11. \A q \in 1 .. c : Kept(s, S)[q] = s[e[q]] /\ s[e[q]] \in S
  BY <1>6, <1>7, <1>8
<1>12. ASSUME NEW p \in 1 .. c, NEW q \in 1 .. c, p < q PROVE e[p] < e[q]
  <2>1. e[p] \in I /\ e[q] \in I /\ rank[e[p]] = p /\ rank[e[q]] = q
    BY <1>6
  <2>2. e[p] \in Nat /\ e[q] \in Nat /\ e[p] # e[q] /\ ~ (e[q] < e[p])
    BY <1>1, <1>12, <2>1, <1>3
  <2> QED  BY <2>2
<1>13. ASSUME NEW k \in I PROVE \E q \in 1 .. c : e[q] = k
  <2>1. rank[k] \in 1 .. c /\ e[rank[k]] \in I /\ rank[e[rank[k]]] = rank[k]
    BY <1>2, <1>6
  <2>2. e[rank[k]] = k
    BY <2>1, <1>4, Fun_InjectionProperties
  <2> QED  BY <2>1, <2>2
<1>14. \A k \in 1 .. Len(s) : s[k] \in S => k \in I
  BY DEF Positions
<1>15. Picks(e, s, S, Kept(s, S))
  BY <1>9, <1>10, <1>11, <1>12, <1>13, <1>14 DEF Picks
<1> QED  BY <1>10, <1>15

-----------------------------------------------------------------------------
Known == 1 .. Len(objects)
ReadyOnes == {i \in Known : objects[i].stage = "ready"}
BuiltOnes == {i \in Known : objects[i].stage # "placeholder"}
Listed0 == Len(AOTNames) + Len(Placeholders)

\* The AOT assemblies come first and keep their names; a placeholder that is not
\* built has its name to itself among the others.
Objects ==
  /\ Listed0 <= Len(objects)
  /\ \A i \in 1 .. Len(AOTNames) : objects[i].name \in ToSet(AOTNames) /\ objects[i].stage = "ready"
  /\ \A i \in Known : objects[i].stage = "placeholder" =>
       /\ i \in Len(AOTNames) + 1 .. Listed0
       /\ \A j \in Known : objects[j].name = objects[i].name => j = i \/ j <= Len(AOTNames)

\* What is registered, and in which order: of two registered assemblies of a name
\* the later one has not failed, and those that are ready became so in that order.
Registry ==
  /\ \A i \in Known : i <= Listed0 \/ i \in ReadyOnes => Contains(registered, i)
  /\ \A k \in 1 .. Len(registered) : registered[k] \in Known
  /\ \A k, l \in 1 .. Len(registered) :
       k < l /\ objects[registered[k]].name = objects[registered[l]].name =>
         objects[registered[l]].stage # "half"
LoadHistory ==
  /\ \A p \in 1 .. Len(loadOrder) : loadOrder[p] \in ReadyOnes
  /\ \A i \in ReadyOnes : Contains(loadOrder, i)
  /\ \A k, l \in 1 .. Len(registered), p, q \in 1 .. Len(loadOrder) :
       k < l /\ registered[k] = loadOrder[p] /\ registered[l] = loadOrder[q]
         /\ objects[registered[k]].name = objects[registered[l]].name => p < q

\* The list that is handed out has everything that is ready and nothing unbuilt.
Listing ==
  \E S \in SUBSET BuiltOnes : ReadyOnes \subseteq S /\ AllAssemblies = Kept(registered, S)

\* What the tables refer to is built.
References ==
  \A i \in 1 .. Len(bindings) : \A n \in DOMAIN bindings[i] :
    bindings[i][n] \in BuiltOnes /\ objects[bindings[i][n]].name = n

ReferencesInv ==
  /\ TypeOK /\ Objects /\ Registry /\ LoadHistory /\ Listing
  /\ References /\ LoadedAfterUsesNewest

-----------------------------------------------------------------------------
(* Lists of assemblies                                                     *)

ObjectType == [name : Name, stage : {"placeholder", "half", "ready"}]

LEMMA MinIs ==
  ASSUME NEW I, I \subseteq Nat, I # {}
  PROVE  Min(I) \in I /\ \A j \in I : Min(I) <= j
<1>1. \E i \in I : \A j \in I : i <= j
  BY LeastOf
<1> QED  BY <1>1 DEF Min

LEMMA MaxIs ==
  ASSUME NEW n \in Nat, NEW I, I \subseteq 1 .. n, I # {}
  PROVE  Max(I) \in I /\ \A j \in I : j <= Max(I)
<1>1. \E i \in I : \A j \in I : j <= i
  BY GreatestOf
<1>2. \E i \in I : \A j \in I : i >= j
  <2> PICK i \in I : \A j \in I : j <= i
    BY <1>1
  <2>1. \A j \in I : j \in Nat /\ i \in Nat
    OBVIOUS
  <2> QED  BY <2>1
<1>3. Max(I) \in I /\ \A j \in I : Max(I) >= j
  BY <1>2 DEF Max
<1> PICK m : m = Max(I)
  OBVIOUS
<1>4. ASSUME NEW j \in I PROVE j \in Nat
  OBVIOUS
<1>5. m \in I /\ \A j \in I : m >= j
  BY <1>3
<1>6. \A j \in I : j <= m
  BY <1>4, <1>5
<1> QED  BY <1>5, <1>6

LEMMA KeptInjective ==
  ASSUME NEW s \in Seq(Nat), NEW S, IsInjective(s)
  PROVE  IsInjective(Kept(s, S))
<1> PICK r : r = Kept(s, S)
  OBVIOUS
<1>1. r \in Seq(Nat) /\ \E e : Picks(e, s, S, r)
  BY KeptFollows
<1>2. PICK e : Picks(e, s, S, r)
  BY <1>1
<1>3. ASSUME NEW p \in 1 .. Len(r), NEW q \in 1 .. Len(r), r[p] = r[q] PROVE p = q
  <2>1. e[p] \in 1 .. Len(s) /\ e[q] \in 1 .. Len(s) /\ s[e[p]] = s[e[q]]
    BY <1>2, <1>3 DEF Picks
  <2>2. e[p] = e[q]
    BY <2>1 DEF IsInjective
  <2>3. ~ p < q /\ ~ q < p
    <3>1. p < q => e[p] < e[q]
      BY <1>2 DEF Picks
    <3>2. q < p => e[q] < e[p]
      BY <1>2 DEF Picks
    <3>3. ~ e[p] < e[p]
      BY <2>1
    <3> QED  BY <2>2, <3>1, <3>2, <3>3
  <2> QED  BY <1>1, <2>3
<1> QED  BY <1>1, <1>3 DEF IsInjective

LEMMA KeptHas ==
  ASSUME NEW s \in Seq(Nat), NEW S, NEW x \in S, Contains(s, x)
  PROVE  Contains(Kept(s, S), x)
<1> PICK r : r = Kept(s, S)
  OBVIOUS
<1>1. r \in Seq(Nat) /\ \E e : Picks(e, s, S, r)
  BY KeptFollows
<1>2. PICK e : Picks(e, s, S, r)
  BY <1>1
<1>3. PICK k \in 1 .. Len(s) : s[k] = x
  BY DEF Contains
<1>4. PICK q \in 1 .. Len(r) : e[q] = k
  BY <1>2, <1>3 DEF Picks
<1>5. r[q] = x
  BY <1>2, <1>3, <1>4 DEF Picks
<1> QED  BY <1>5 DEF Contains

LEMMA KeptFrom ==
  ASSUME NEW s \in Seq(Nat), NEW S, NEW r, r = Kept(s, S)
  PROVE  r \in Seq(Nat) /\ \A q \in 1 .. Len(r) : r[q] \in S /\ \E k \in 1 .. Len(s) : r[q] = s[k]
<1>1. r \in Seq(Nat) /\ \E e : Picks(e, s, S, r)
  BY KeptFollows
<1>2. PICK e : Picks(e, s, S, r)
  BY <1>1
<1>3. ASSUME NEW q \in 1 .. Len(r) PROVE r[q] \in S /\ \E k \in 1 .. Len(s) : r[q] = s[k]
  <2>1. e[q] \in 1 .. Len(s) /\ r[q] = s[e[q]] /\ s[e[q]] \in S
    BY <1>2 DEF Picks
  <2> QED  BY <2>1
<1> QED  BY <1>1, <1>3

Named(i, n) == objects[i].name = n
LastOf(list, n, x) ==
  \E k \in 1 .. Len(list) :
    list[k] = x /\ Named(x, n) /\ \A j \in k + 1 .. Len(list) : ~ Named(list[j], n)

LEMMA BoundIs ==
  ASSUME NEW list \in Seq(Nat)
  PROVE  /\ DOMAIN Bound(list) = {objects[list[k]].name : k \in 1 .. Len(list)}
         /\ \A n \in DOMAIN Bound(list) : LastOf(list, n, Bound(list)[n])
<1>1. DOMAIN Bound(list) = {objects[list[k]].name : k \in 1 .. Len(list)}
  BY DEF Bound
<1>2. ASSUME NEW n \in {objects[list[k]].name : k \in 1 .. Len(list)}, NEW x, x = Bound(list)[n]
      PROVE  LastOf(list, n, x)
  <2> PICK k : k = SelectLastInSeq(list, LAMBDA i : objects[i].name = n)
    OBVIOUS
  <2> PICK I : I = {j \in 1 .. Len(list) : objects[list[j]].name = n}
    OBVIOUS
  <2>1. x = list[k]
    BY <1>2 DEF Bound
  <2>2. I # {} /\ I \subseteq 1 .. Len(list) /\ Len(list) \in Nat
    OBVIOUS
  <2>3. k = Max(I)
    BY <2>2 DEF SelectLastInSeq
  <2>4. k \in I /\ \A j \in I : j <= k
    BY <2>2, <2>3, MaxIs
  <2>5. ASSUME NEW j \in k + 1 .. Len(list) PROVE ~ Named(list[j], n)
    <3>1. k \in Nat /\ j \in 1 .. Len(list) /\ ~ j <= k
      BY <2>2, <2>4
    <3> QED  BY <2>4, <3>1 DEF Named
  <2>6. k \in 1 .. Len(list) /\ Named(x, n)
    BY <2>1, <2>4 DEF Named
  <2> QED  BY <2>1, <2>5, <2>6 DEF LastOf
<1> QED  BY <1>1, <1>2

LEMMA FirstNamedIs ==
  ASSUME NEW list \in Seq(Nat), NEW n, NEW a, a = FirstNamed(list, n), a # None
  PROVE  \E k \in 1 .. Len(list) : list[k] = a /\ Named(a, n)
<1> PICK k : k = SelectInSeq(list, LAMBDA i : objects[i].name = n)
  OBVIOUS
<1> PICK I : I = {j \in 1 .. Len(list) : objects[list[j]].name = n}
  OBVIOUS
<1>1. k = IF I # {} THEN Min(I) ELSE 0
  BY DEF SelectInSeq
<1>2. k # 0 /\ a = list[k]
  BY DEF FirstNamed
<1>3. I # {} /\ I \subseteq Nat
  BY <1>1, <1>2
<1>4. k \in I
  BY <1>1, <1>3, MinIs
<1> QED  BY <1>2, <1>4 DEF Named

-----------------------------------------------------------------------------
(* The list that is handed out                                             *)

LEMMA Identities ==
  ASSUME ReferencesInv
  PROVE  /\ objects \in Seq(ObjectType) /\ Len(objects) \in Nat /\ Len(objects) <= MaxObjects
         /\ \A i \in 1 .. Len(objects) : objects[i] \in ObjectType
         /\ MaxObjects \in Nat /\ Id \subseteq Nat /\ Known \subseteq Id
         /\ Len(AOTNames) \in Nat /\ Len(Placeholders) \in Nat /\ Listed0 \in Nat
         /\ 1 .. Listed0 \subseteq Known
         /\ registered \in Seq(Id) /\ registered \in Seq(Nat) /\ IsInjective(registered)
         /\ loadOrder \in Seq(Id) /\ loadOrder \in Seq(Nat) /\ IsInjective(loadOrder)
         /\ bindings \in Seq(Tables) /\ Len(bindings) = Len(objects)
         /\ stale \in BOOLEAN /\ snapshot \in Seq(Id)
<1>1. /\ MaxObjects \in Nat /\ Id \subseteq Nat
      /\ objects \in Seq(ObjectType) /\ Len(objects) \in Nat /\ Len(objects) <= MaxObjects
      /\ registered \in Seq(Id) /\ loadOrder \in Seq(Id)
      /\ IsInjective(registered) /\ IsInjective(loadOrder)
      /\ bindings \in Seq(Tables) /\ Len(bindings) = Len(objects)
      /\ stale \in BOOLEAN /\ snapshot \in Seq(Id)
  BY ReferencesAssumption DEF ReferencesInv, TypeOK, Id, ObjectType
<1>2. registered \in Seq(Nat) /\ loadOrder \in Seq(Nat)
  <2>1. \A s \in Seq(Id) : s \in Seq(Nat)
    BY <1>1, SeqMonotonic
  <2> QED  BY <1>1, <2>1
<1>3. Len(AOTNames) \in Nat /\ Len(Placeholders) \in Nat /\ Listed0 \in Nat /\ Listed0 <= Len(objects)
  BY ReferencesAssumption DEF ReferencesInv, Objects, Listed0
<1>4. Known \subseteq Id /\ 1 .. Listed0 \subseteq Known
  BY <1>1, <1>3 DEF Known, Id
<1> QED  BY <1>1, <1>2, <1>3, <1>4

LEMMA SnapshotHas ==
  ASSUME ReferencesInv, NEW list, list = AllAssemblies
  PROVE  /\ list \in Seq(Id) /\ list \in Seq(Nat) /\ IsInjective(list)
         /\ \A q \in 1 .. Len(list) : list[q] \in BuiltOnes
         /\ \A i \in ReadyOnes : Contains(list, i)
<1>1. PICK S \in SUBSET BuiltOnes : ReadyOnes \subseteq S /\ list = Kept(registered, S)
  BY DEF ReferencesInv, Listing
<1>2. registered \in Seq(Nat) /\ IsInjective(registered)
  BY Identities
<1>3. list \in Seq(Nat) /\ \A q \in 1 .. Len(list) : list[q] \in S
  BY <1>1, <1>2, KeptFrom
<1>4. IsInjective(list)
  BY <1>1, <1>2, KeptInjective
<1>5. ASSUME NEW i \in ReadyOnes PROVE Contains(list, i)
  <2>1. Contains(registered, i) /\ i \in S
    BY <1>1 DEF ReferencesInv, Registry, ReadyOnes
  <2> QED  BY <1>1, <1>2, <2>1, KeptHas
<1>6. \A q \in 1 .. Len(list) : list[q] \in Id
  BY <1>1, <1>3, Identities DEF BuiltOnes
<1>7. ASSUME NEW T, \A q \in 1 .. Len(list) : list[q] \in T PROVE list \in Seq(T)
  BY <1>3, <1>7
<1> QED  BY <1>1, <1>3, <1>4, <1>5, <1>6, <1>7

\* A table that is filled from the list.
LEMMA BoundTable ==
  ASSUME ReferencesInv, NEW list, list = AllAssemblies
  PROVE  /\ Bound(list) \in Tables
         /\ \A n \in DOMAIN Bound(list) :
              Bound(list)[n] \in BuiltOnes /\ objects[Bound(list)[n]].name = n
<1>1. list \in Seq(Nat) /\ \A q \in 1 .. Len(list) : list[q] \in BuiltOnes
  BY SnapshotHas
<1> PICK t : t = Bound(list)
  OBVIOUS
<1>2. /\ DOMAIN t = {objects[list[k]].name : k \in 1 .. Len(list)}
      /\ \A n \in DOMAIN t : LastOf(list, n, t[n])
  BY <1>1, BoundIs
<1>3. ASSUME NEW n \in DOMAIN t PROVE t[n] \in BuiltOnes /\ objects[t[n]].name = n
  BY <1>1, <1>2 DEF LastOf, Named
<1>4. DOMAIN t \subseteq Name
  <2> SUFFICES ASSUME NEW k \in 1 .. Len(list) PROVE objects[list[k]].name \in Name
    BY <1>2
  <2>1. list[k] \in 1 .. Len(objects)
    BY <1>1 DEF BuiltOnes, Known
  <2>2. objects[list[k]] \in ObjectType
    BY <2>1, Identities
  <2> QED  BY <2>2 DEF ObjectType
<1>5. t \in [DOMAIN t -> Id]
  <2>1. \A n \in DOMAIN t : t[n] \in Id
    BY <1>3, Identities DEF BuiltOnes
  <2>2. t = [n \in DOMAIN t |-> t[n]]
    <3>1. t = [n \in {objects[list[k]].name : k \in 1 .. Len(list)} |->
                 list[SelectLastInSeq(list, LAMBDA i : objects[i].name = n)]]
      BY DEF Bound
    <3> QED  BY <3>1
  <2> QED  BY <2>1, <2>2
<1>6. t \in Tables
  BY <1>4, <1>5 DEF Tables
<1> QED  BY <1>3, <1>6

\* A load that has completed is bound, or one of the same name that completed later.
LEMMA BoundIsNewest ==
  ASSUME ReferencesInv, NEW list, list = AllAssemblies, NEW p \in 1 .. Len(loadOrder),
         NEW n, n = objects[loadOrder[p]].name
  PROVE  /\ n \in DOMAIN Bound(list)
         /\ \E q \in p .. Len(loadOrder) : loadOrder[q] = Bound(list)[n]
<1> PICK i : i = loadOrder[p]
  OBVIOUS
<1>1. i \in ReadyOnes /\ i \in Known
  BY DEF ReferencesInv, LoadHistory, ReadyOnes
<1>2. PICK S \in SUBSET BuiltOnes : ReadyOnes \subseteq S /\ list = Kept(registered, S)
  BY DEF ReferencesInv, Listing
<1>3. registered \in Seq(Nat) /\ list \in Seq(Nat) /\ Contains(list, i)
  BY <1>1, SnapshotHas, Identities
<1>4. PICK h \in 1 .. Len(list) : list[h] = i
  BY <1>3 DEF Contains
<1> PICK t : t = Bound(list)
  OBVIOUS
<1>5. /\ DOMAIN t = {objects[list[k]].name : k \in 1 .. Len(list)}
      /\ \A m \in DOMAIN t : LastOf(list, m, t[m])
  BY <1>3, BoundIs
<1>6. n \in DOMAIN t
  BY <1>4, <1>5
<1> PICK x : x = t[n]
  OBVIOUS
<1>7. PICK m \in 1 .. Len(list) :
        list[m] = x /\ Named(x, n) /\ \A j \in m + 1 .. Len(list) : ~ Named(list[j], n)
  BY <1>5, <1>6 DEF LastOf
<1>8. h <= m
  <2>1. h \notin m + 1 .. Len(list)
    BY <1>4, <1>7 DEF Named
  <2> QED  BY <1>3, <2>1
<1>9. PICK e : Picks(e, registered, S, list)
  <2>1. \E e : Picks(e, registered, S, Kept(registered, S))
    BY <1>3, KeptFollows
  <2> QED  BY <1>2, <2>1
<1>10. PICK k, l \in 1 .. Len(registered) : registered[k] = i /\ registered[l] = x /\ k <= l
  <2>1. e[h] \in 1 .. Len(registered) /\ e[m] \in 1 .. Len(registered)
    BY <1>9 DEF Picks
  <2>2. registered[e[h]] = i /\ registered[e[m]] = x
    BY <1>4, <1>7, <1>9 DEF Picks
  <2>3. e[h] <= e[m]
    <3>1. CASE h = m
      BY <2>1, <3>1
    <3>2. CASE h # m
      <4>1. h < m
        BY <1>8, <3>2
      <4>2. e[h] < e[m]
        BY <1>9, <4>1 DEF Picks
      <4> QED  BY <2>1, <4>2
    <3> QED  BY <3>1, <3>2
  <2> QED  BY <2>1, <2>2, <2>3
<1>11. CASE k = l
  <2>1. p \in p .. Len(loadOrder) /\ loadOrder[p] = x
    BY <1>10, <1>11, Identities
  <2> QED  BY <1>6, <2>1
<1>12. CASE k # l
  <2>1. k < l /\ objects[registered[k]].name = objects[registered[l]].name
    BY <1>7, <1>10, <1>12 DEF Named
  <2>2. objects[x].stage # "half"
    BY <1>10, <2>1 DEF ReferencesInv, Registry
  <2>3. x \in BuiltOnes
    BY <1>3, <1>7, SnapshotHas
  <2>4. x \in ReadyOnes
    <3>1. x \in 1 .. Len(objects) /\ objects[x].stage # "placeholder"
      BY <2>3 DEF BuiltOnes, Known
    <3>2. objects[x] \in ObjectType
      BY <3>1, Identities
    <3> QED  BY <2>2, <3>1, <3>2 DEF ObjectType, ReadyOnes, Known
  <2>5. PICK q \in 1 .. Len(loadOrder) : loadOrder[q] = x
    BY <2>4 DEF ReferencesInv, LoadHistory, Contains
  <2>6. p < q
    BY <1>10, <2>1, <2>5 DEF ReferencesInv, LoadHistory
  <2>7. q \in p .. Len(loadOrder)
    BY <2>6, Identities
  <2> QED  BY <1>6, <2>5, <2>7
<1> QED  BY <1>11, <1>12

-----------------------------------------------------------------------------
(* The order of the loads                                                  *)

LEMMA PositionIs ==
  ASSUME loadOrder \in Seq(Nat), IsInjective(loadOrder), NEW x, NEW p \in 1 .. Len(loadOrder)
  PROVE  Position(x) >= p <=> \E r \in p .. Len(loadOrder) : loadOrder[r] = x
<1> PICK I : I = {r \in 1 .. Len(loadOrder) : loadOrder[r] = x}
  OBVIOUS
<1> PICK m : m = Position(x)
  OBVIOUS
<1>1. m = IF I # {} THEN Min(I) ELSE 0
  BY DEF Position, SelectInSeq
<1>2. I \subseteq Nat /\ Len(loadOrder) \in Nat
  OBVIOUS
<1>3. CASE I = {}
  <2>1. m = 0
    BY <1>1, <1>3
  <2>2. \A r \in p .. Len(loadOrder) : r \in 1 .. Len(loadOrder)
    BY <1>2
  <2>3. ~ (\E r \in p .. Len(loadOrder) : loadOrder[r] = x)
    BY <1>3, <2>2
  <2> QED  BY <2>1, <2>3
<1>4. CASE I # {}
  <2>1. m \in I
    BY <1>1, <1>2, <1>4, MinIs
  <2>2. m \in 1 .. Len(loadOrder) /\ loadOrder[m] = x
    BY <2>1
  <2>3. ASSUME m >= p PROVE \E r \in p .. Len(loadOrder) : loadOrder[r] = x
    BY <1>2, <2>2, <2>3
  <2>4. ASSUME NEW r \in p .. Len(loadOrder), loadOrder[r] = x PROVE m >= p
    <3>1. r \in 1 .. Len(loadOrder)
      BY <1>2
    <3>2. r = m
      BY <2>2, <2>4, <3>1 DEF IsInjective
    <3> QED  BY <1>2, <3>2
  <2> QED  BY <2>3, <2>4
<1> QED  BY <1>3, <1>4

NewestBound ==
  \A p, q \in 1 .. Len(loadOrder) :
    LET n == objects[loadOrder[p]].name
        table == bindings[loadOrder[q]]
    IN p < q /\ loadOrder[q] > Len(AOTNames) =>
         n \in DOMAIN table /\ \E r \in p .. Len(loadOrder) : loadOrder[r] = table[n]

LEMMA NewestIs ==
  loadOrder \in Seq(Nat) /\ IsInjective(loadOrder) => (LoadedAfterUsesNewest <=> NewestBound)
<1> SUFFICES ASSUME loadOrder \in Seq(Nat), IsInjective(loadOrder)
             PROVE  LoadedAfterUsesNewest <=> NewestBound
  OBVIOUS
<1>1. \A x : \A p \in 1 .. Len(loadOrder) :
        Position(x) >= p <=> \E r \in p .. Len(loadOrder) : loadOrder[r] = x
  BY PositionIs
<1> QED  BY <1>1 DEF LoadedAfterUsesNewest, NewestBound

LEMMA Start == Init => ReferencesInv
<1> SUFFICES ASSUME Init PROVE ReferencesInv
  OBVIOUS
<1> PICK a, p \in Nat : a = Len(AOTNames) /\ p = Len(Placeholders)
  BY ReferencesAssumption
<1> PICK n \in Nat : n = a + p
  OBVIOUS
<1>1. /\ Listed0 = n /\ AOTNames \in Seq(Name) /\ Placeholders \in Seq(Name) /\ n <= MaxObjects /\ MaxObjects \in Nat
  BY ReferencesAssumption DEF Listed0
<1>2. /\ registered = [i \in 1 .. n |-> i] /\ loadOrder = [i \in 1 .. a |-> i]
      /\ bindings = [i \in 1 .. n |-> Unbound] /\ snapshot = <<>> /\ stale = TRUE
  BY DEF Init
<1>3. /\ objects \in Seq(ObjectType) /\ Len(objects) = n
      /\ \A i \in 1 .. a : objects[i] = [name |-> AOTNames[i], stage |-> "ready"]
      /\ \A i \in a + 1 .. n : objects[i] = [name |-> Placeholders[i - a], stage |-> "placeholder"]
  <2> PICK f : f = [i \in 1 .. a |-> [name |-> AOTNames[i], stage |-> "ready"]]
    OBVIOUS
  <2> PICK g : g = [i \in 1 .. p |-> [name |-> Placeholders[i], stage |-> "placeholder"]]
    OBVIOUS
  <2>1. objects = f \o g
    BY DEF Init
  <2>2. /\ f \in Seq(ObjectType) /\ Len(f) = a
        /\ \A i \in 1 .. a : f[i] = [name |-> AOTNames[i], stage |-> "ready"]
    BY <1>1 DEF ObjectType
  <2>3. /\ g \in Seq(ObjectType) /\ Len(g) = p
        /\ \A i \in 1 .. p : g[i] = [name |-> Placeholders[i], stage |-> "placeholder"]
    BY <1>1 DEF ObjectType
  <2>4. /\ objects \in Seq(ObjectType) /\ Len(objects) = n
        /\ \A i \in 1 .. a : objects[i] = f[i]
    BY <2>1, <2>2, <2>3
  <2>5. \A i \in a + 1 .. n : i - a \in 1 .. p /\ objects[i] = g[i - a]
    BY <2>1, <2>2, <2>3
  <2> QED  BY <2>2, <2>3, <2>4, <2>5
<1>4. Known = 1 .. n /\ \A i \in 1 .. n : i \in 1 .. a \/ i \in a + 1 .. n
  BY <1>3 DEF Known
<1>5. /\ \A i \in 1 .. a : objects[i].stage = "ready" /\ objects[i].name = AOTNames[i]
      /\ \A i \in a + 1 .. n : objects[i].stage = "placeholder" /\ objects[i].name = Placeholders[i - a]
  <2>1. ASSUME NEW i \in 1 .. a PROVE objects[i].stage = "ready" /\ objects[i].name = AOTNames[i]
    <3>1. objects[i] = [name |-> AOTNames[i], stage |-> "ready"]
      BY <1>3
    <3> QED  BY <3>1
  <2>2. ASSUME NEW i \in a + 1 .. n
        PROVE  objects[i].stage = "placeholder" /\ objects[i].name = Placeholders[i - a]
    <3>1. objects[i] = [name |-> Placeholders[i - a], stage |-> "placeholder"]
      BY <1>3
    <3> QED  BY <3>1
  <2> QED  BY <2>1, <2>2
<1>6. /\ registered \in Seq(Id) /\ Len(registered) = n /\ \A i \in 1 .. n : registered[i] = i
      /\ loadOrder \in Seq(Id) /\ Len(loadOrder) = a /\ \A i \in 1 .. a : loadOrder[i] = i
  <2>1. \A i \in 1 .. n : i \in Id
    BY <1>1 DEF Id
  <2>2. \A i \in 1 .. a : i \in Id
    BY <1>1 DEF Id
  <2> QED  BY <1>2, <2>1, <2>2
<1>7. IsInjective(registered) /\ IsInjective(loadOrder)
  BY <1>6 DEF IsInjective
<1>8. bindings \in Seq(Tables) /\ Len(bindings) = n /\ \A i \in 1 .. n : DOMAIN bindings[i] = {}
  <2>1. Unbound \in [{} -> Id] /\ DOMAIN Unbound = {}
    BY DEF Unbound
  <2>2. Unbound \in Tables
    BY <2>1 DEF Tables
  <2> QED  BY <1>2, <2>1, <2>2
<1>9. TypeOK
  <2>1. snapshot \in Seq(Id) /\ stale \in BOOLEAN
    BY <1>2
  <2> QED  BY <1>1, <1>3, <1>6, <1>7, <1>8, <2>1 DEF TypeOK, ObjectType
<1>10. Objects
  <2>1. \A i \in 1 .. a : AOTNames[i] \in ToSet(AOTNames)
    BY DEF ToSet
  <2>2. ASSUME NEW i \in Known, objects[i].stage = "placeholder", NEW j \in Known,
               objects[j].name = objects[i].name, ~ j <= a
        PROVE  j = i
    <3>1. i \in a + 1 .. n /\ j \in a + 1 .. n
      BY <1>4, <1>5, <2>2
    <3>2. i - a \in 1 .. p /\ j - a \in 1 .. p
      BY <3>1
    <3>3. Placeholders[i - a] = Placeholders[j - a]
      BY <1>5, <2>2, <3>1
    <3>4. i - a = j - a
      BY <1>1, <3>2, <3>3, PlaceholdersAssumption DEF IsInjective
    <3> QED  BY <3>1, <3>4
  <2>3. \A i \in Known : objects[i].stage = "placeholder" => i \in a + 1 .. n
    BY <1>4, <1>5
  <2> QED  BY <1>1, <1>3, <1>5, <2>1, <2>2, <2>3 DEF Objects
<1>11. Registry
  <2>1. \A i \in 1 .. n : Contains(registered, i)
    BY <1>6 DEF Contains
  <2>2. \A l \in 1 .. n : objects[l].stage # "half"
    BY <1>4, <1>5
  <2> QED  BY <1>4, <1>6, <2>1, <2>2 DEF Registry
<1>12. ReadyOnes = 1 .. a
  BY <1>4, <1>5 DEF ReadyOnes
<1>13. LoadHistory
  <2>1. \A i \in 1 .. a : Contains(loadOrder, i)
    BY <1>6 DEF Contains
  <2> QED  BY <1>6, <1>12, <2>1 DEF LoadHistory
<1>14. Listing
  <2>1. AllAssemblies = Kept(registered, BuiltOnes)
    BY <1>2 DEF AllAssemblies, Valid, BuiltOnes, Known
  <2>2. ReadyOnes \subseteq BuiltOnes
    BY DEF ReadyOnes, BuiltOnes
  <2> QED  BY <2>1, <2>2 DEF Listing
<1>15. References
  BY <1>8 DEF References
<1>16. LoadedAfterUsesNewest
  BY <1>1, <1>6 DEF LoadedAfterUsesNewest
<1> QED  BY <1>9, <1>10, <1>11, <1>13, <1>14, <1>15, <1>16 DEF ReferencesInv

-----------------------------------------------------------------------------
(* Steps that build nothing                                                *)

Order == Objects /\ Registry /\ LoadHistory

LEMMA OrderStays ==
  ASSUME ReferencesInv, objects' = objects, registered' = registered, loadOrder' = loadOrder
  PROVE  Order'
<1>1. Known' = Known /\ ReadyOnes' = ReadyOnes
  BY DEF Known, ReadyOnes
<1>2. Objects'
  BY <1>1 DEF ReferencesInv, Objects
<1>3. Registry'
  BY <1>1 DEF ReferencesInv, Registry
<1>4. LoadHistory'
  BY <1>1 DEF ReferencesInv, LoadHistory
<1> QED  BY <1>2, <1>3, <1>4 DEF Order

LEMMA ListingStays ==
  ASSUME ReferencesInv, objects' = objects, registered' = registered, AllAssemblies' = AllAssemblies
  PROVE  Listing'
<1>1. BuiltOnes' = BuiltOnes /\ ReadyOnes' = ReadyOnes
  BY DEF BuiltOnes, ReadyOnes, Known
<1> QED  BY <1>1 DEF ReferencesInv, Listing

\* Tables only grow, names stay, and loads are appended: what was bound to a load
\* that has completed still is.
LEMMA NewestKept ==
  ASSUME ReferencesInv,
         Len(loadOrder') \in Nat, Len(loadOrder) <= Len(loadOrder'),
         \A p \in 1 .. Len(loadOrder) : loadOrder'[p] = loadOrder[p],
         \A i \in ReadyOnes : objects'[i].name = objects[i].name,
         \A i \in ReadyOnes : \A n \in DOMAIN bindings[i] :
           n \in DOMAIN bindings'[i] /\ bindings'[i][n] = bindings[i][n],
         NEW p \in 1 .. Len(loadOrder), NEW q \in 1 .. Len(loadOrder), p < q,
         loadOrder[q] > Len(AOTNames), NEW n, n = objects'[loadOrder[p]].name
  PROVE  /\ n \in DOMAIN bindings'[loadOrder[q]]
         /\ \E r \in p .. Len(loadOrder') : loadOrder'[r] = bindings'[loadOrder[q]][n]
<1>1. loadOrder[p] \in ReadyOnes /\ loadOrder[q] \in ReadyOnes
  BY DEF ReferencesInv, LoadHistory
<1>2. n = objects[loadOrder[p]].name
  BY <1>1
<1>3. NewestBound
  BY NewestIs, Identities DEF ReferencesInv
<1>4. /\ n \in DOMAIN bindings[loadOrder[q]]
      /\ \E r \in p .. Len(loadOrder) : loadOrder[r] = bindings[loadOrder[q]][n]
  BY <1>2, <1>3 DEF NewestBound
<1>5. PICK r \in p .. Len(loadOrder) : loadOrder[r] = bindings[loadOrder[q]][n]
  BY <1>4
<1>6. r \in 1 .. Len(loadOrder) /\ r \in p .. Len(loadOrder')
  BY Identities
<1> QED  BY <1>1, <1>4, <1>5, <1>6

LEMMA NewestStays ==
  ASSUME ReferencesInv, loadOrder' = loadOrder,
         \A i \in ReadyOnes : objects'[i].name = objects[i].name,
         \A i \in ReadyOnes : \A n \in DOMAIN bindings[i] :
           n \in DOMAIN bindings'[i] /\ bindings'[i][n] = bindings[i][n]
  PROVE  LoadedAfterUsesNewest'
<1>1. loadOrder \in Seq(Nat) /\ IsInjective(loadOrder)
  BY Identities
<1>2. NewestBound'
  <2> SUFFICES ASSUME NEW p \in 1 .. Len(loadOrder), NEW q \in 1 .. Len(loadOrder),
                      NEW n, n = objects'[loadOrder[p]].name, p < q, loadOrder[q] > Len(AOTNames)
               PROVE  /\ n \in DOMAIN bindings'[loadOrder[q]]
                      /\ \E r \in p .. Len(loadOrder) : loadOrder[r] = bindings'[loadOrder[q]][n]
    BY DEF NewestBound
  <2>1. Len(loadOrder') \in Nat /\ Len(loadOrder) <= Len(loadOrder')
    BY <1>1
  <2> QED  BY <2>1, NewestKept
<1>3. (loadOrder \in Seq(Nat) /\ IsInjective(loadOrder) => (LoadedAfterUsesNewest <=> NewestBound))'
  BY NewestIs, PTL
<1>4. (loadOrder \in Seq(Nat) /\ IsInjective(loadOrder))'
  BY <1>1 DEF IsInjective
<1> QED  BY <1>2, <1>3, <1>4

LEMMA SnapshotStep ==
  ASSUME ReferencesInv, TakeSnapshot
  PROVE  snapshot' \in Seq(Id) /\ stale' \in BOOLEAN /\ AllAssemblies' = AllAssemblies
<1>1. snapshot' = AllAssemblies /\ stale' = FALSE
  BY DEF TakeSnapshot
<1>2. AllAssemblies' = snapshot'
  BY <1>1 DEF AllAssemblies
<1> QED  BY <1>1, <1>2, SnapshotHas

LEMMA GetStep == ReferencesInv /\ GetAllAssemblies => ReferencesInv'
<1> SUFFICES ASSUME ReferencesInv, GetAllAssemblies PROVE ReferencesInv'
  OBVIOUS
<1>1. TakeSnapshot /\ UNCHANGED <<objects, registered, bindings, loadOrder>>
  BY DEF GetAllAssemblies
<1>2. snapshot' \in Seq(Id) /\ stale' \in BOOLEAN /\ AllAssemblies' = AllAssemblies
  BY <1>1, SnapshotStep
<1>3. TypeOK'
  BY <1>1, <1>2 DEF ReferencesInv, TypeOK
<1>4. Order' /\ Listing'
  BY <1>1, <1>2, OrderStays, ListingStays
<1>5. References'
  BY <1>1 DEF ReferencesInv, References, BuiltOnes, Known
<1>6. LoadedAfterUsesNewest'
  BY <1>1, NewestStays
<1> QED  BY <1>3, <1>4, <1>5, <1>6 DEF ReferencesInv, Order

LEMMA ResolveStep ==
  ASSUME ReferencesInv, NEW i \in 1 .. Len(objects), NEW n \in Name, ResolveReference(i, n)
  PROVE  ReferencesInv'
<1> PICK list : list = AllAssemblies
  OBVIOUS
<1> PICK a : a = FirstNamed(list, n)
  OBVIOUS
<1> PICK t : t = bindings[i]
  OBVIOUS
<1> PICK u : u = Put(t, n, a)
  OBVIOUS
<1>1. /\ TakeSnapshot /\ UNCHANGED <<objects, registered, loadOrder>> /\ n \notin DOMAIN t
      /\ bindings' = IF a = None THEN bindings ELSE [bindings EXCEPT ![i] = u]
  BY DEF ResolveReference, Missing
<1>2. snapshot' \in Seq(Id) /\ stale' \in BOOLEAN /\ AllAssemblies' = AllAssemblies
  BY <1>1, SnapshotStep
<1>3. Order' /\ Listing'
  BY <1>1, <1>2, OrderStays, ListingStays
<1>4. bindings \in Seq(Tables) /\ Len(bindings) = Len(objects) /\ i \in 1 .. Len(bindings)
  BY Identities
<1>5. /\ bindings' \in Seq(Tables) /\ Len(bindings') = Len(objects)
      /\ \A j \in 1 .. Len(bindings) : \A m \in DOMAIN bindings[j] :
           m \in DOMAIN bindings'[j] /\ bindings'[j][m] = bindings[j][m]
      /\ \A j \in 1 .. Len(bindings) : \A m \in DOMAIN bindings'[j] :
           \/ m \in DOMAIN bindings[j] /\ bindings'[j][m] = bindings[j][m]
           \/ bindings'[j][m] \in BuiltOnes /\ objects[bindings'[j][m]].name = m
  <2>1. CASE a = None
    BY <1>1, <1>4, <2>1
  <2>2. CASE a # None
    <3>1. list \in Seq(Nat) /\ \A q \in 1 .. Len(list) : list[q] \in BuiltOnes
      BY SnapshotHas
    <3>2. a \in BuiltOnes /\ objects[a].name = n
      BY <2>2, <3>1, FirstNamedIs DEF Named
    <3>3. /\ DOMAIN u = DOMAIN t \cup {n} /\ u[n] = a
          /\ \A m \in DOMAIN t : u[m] = t[m]
      <4>1. u = [m \in DOMAIN t \cup {n} |-> IF m = n THEN a ELSE t[m]]
        BY DEF Put
      <4> QED  BY <1>1, <4>1
    <3>4. u \in Tables
      <4>1. t \in Tables
        BY <1>4
      <4>2. PICK N \in SUBSET Name : t \in [N -> Id]
        BY <4>1 DEF Tables
      <4>3. a \in Id
        BY <3>2, Identities DEF BuiltOnes
      <4>4. u \in [N \cup {n} -> Id]
        BY <4>2, <4>3 DEF Put
      <4> QED  BY <4>4 DEF Tables
    <3>5. bindings' = [bindings EXCEPT ![i] = u]
      BY <1>1, <2>2
    <3>6. /\ bindings' \in Seq(Tables) /\ Len(bindings') = Len(bindings)
          /\ \A j \in 1 .. Len(bindings) : bindings'[j] = IF j = i THEN u ELSE bindings[j]
      BY <1>4, <3>4, <3>5, ExceptSeq
    <3>7. ASSUME NEW j \in 1 .. Len(bindings), NEW m \in DOMAIN bindings[j]
          PROVE  m \in DOMAIN bindings'[j] /\ bindings'[j][m] = bindings[j][m]
      BY <3>3, <3>6
    <3>8. ASSUME NEW j \in 1 .. Len(bindings), NEW m \in DOMAIN bindings'[j]
          PROVE  \/ m \in DOMAIN bindings[j] /\ bindings'[j][m] = bindings[j][m]
                 \/ bindings'[j][m] \in BuiltOnes /\ objects[bindings'[j][m]].name = m
      BY <3>2, <3>3, <3>6
    <3> QED  BY <1>4, <3>6, <3>7, <3>8
  <2> QED  BY <2>1, <2>2
<1>6. References'
  <2>1. BuiltOnes' = BuiltOnes /\ objects' = objects
    BY <1>1 DEF BuiltOnes, Known
  <2>2. ASSUME NEW j \in 1 .. Len(bindings'), NEW m \in DOMAIN bindings'[j]
        PROVE  bindings'[j][m] \in BuiltOnes /\ objects[bindings'[j][m]].name = m
    <3>1. j \in 1 .. Len(bindings)
      BY <1>4, <1>5
    <3> QED  BY <1>5, <3>1 DEF ReferencesInv, References
  <2> QED  BY <2>1, <2>2 DEF References
<1>7. TypeOK'
  <2>1. \A j \in 1 .. Len(bindings') : \A m \in DOMAIN bindings'[j] : objects'[bindings'[j][m]].name = m
    BY <1>6 DEF References
  <2> QED  BY <1>1, <1>2, <1>5, <2>1 DEF ReferencesInv, TypeOK
<1>8. LoadedAfterUsesNewest'
  <2>1. \A j \in ReadyOnes : j \in 1 .. Len(bindings)
    BY <1>4 DEF ReadyOnes, Known
  <2>2. \A j \in ReadyOnes : \A m \in DOMAIN bindings[j] :
           m \in DOMAIN bindings'[j] /\ bindings'[j][m] = bindings[j][m]
    BY <1>5, <2>1
  <2> QED  BY <1>1, <2>2, NewestStays
<1> QED  BY <1>3, <1>6, <1>7, <1>8 DEF ReferencesInv, Order

-----------------------------------------------------------------------------
(* Assembly::Create                                                        *)

\* What it does to the objects and to the tables.
Builds(i, n, stage) ==
  /\ i \in Id /\ objects' \in Seq(ObjectType) /\ Len(objects') \in Nat /\ Len(objects') <= MaxObjects
  /\ Len(objects) <= Len(objects') /\ i \in 1 .. Len(objects')
  /\ objects'[i].name = n /\ objects'[i].stage = stage
  /\ \A j \in 1 .. Len(objects') : j \in Known \/ j = i
  /\ \A j \in Known : j \in 1 .. Len(objects') /\ objects'[j].name = objects[j].name
  /\ \A j \in Known : j # i => objects'[j] = objects[j]
  /\ i \in Known => /\ objects[i].stage = "placeholder" /\ i <= Listed0 /\ i > Len(AOTNames)
                    /\ \A j \in Known : objects[j].name = n => j = i
  /\ i \notin Known => \A j \in Known : objects[j].stage = "placeholder" => objects[j].name # n
  /\ bindings' \in Seq(Tables) /\ Len(bindings') = Len(objects')
  /\ bindings'[i] = Bound(AllAssemblies)
  /\ \A j \in Known : j # i => bindings'[j] = bindings[j]

LEMMA PutAtIs ==
  ASSUME NEW T, NEW s \in Seq(T), NEW x \in T, NEW i \in 1 .. Len(s) + 1
  PROVE  /\ PutAt(s, i, x) \in Seq(T)
         /\ Len(PutAt(s, i, x)) = IF i \in 1 .. Len(s) THEN Len(s) ELSE Len(s) + 1
         /\ PutAt(s, i, x)[i] = x
         /\ \A j \in 1 .. Len(s) : j # i => PutAt(s, i, x)[j] = s[j]
<1> PICK r : r = PutAt(s, i, x)
  OBVIOUS
<1>1. Len(s) \in Nat /\ i \in Nat
  OBVIOUS
<1>2. CASE i \in 1 .. Len(s)
  <2>1. r = [s EXCEPT ![i] = x]
    BY <1>1, <1>2 DEF PutAt
  <2>2. r \in Seq(T) /\ Len(r) = Len(s) /\ \A j \in 1 .. Len(s) : r[j] = IF j = i THEN x ELSE s[j]
    BY <1>2, <2>1, ExceptSeq
  <2> QED  BY <1>2, <2>2
<1>3. CASE i \notin 1 .. Len(s)
  <2>1. i = Len(s) + 1
    BY <1>1, <1>3
  <2>2. r = Append(s, x)
    BY <1>1, <2>1 DEF PutAt
  <2>3. r \in Seq(T) /\ Len(r) = Len(s) + 1 /\ r[Len(s) + 1] = x /\ \A j \in 1 .. Len(s) : r[j] = s[j]
    BY <2>2
  <2> QED  BY <1>3, <2>1, <2>3
<1> QED  BY <1>2, <1>3

LEMMA Building ==
  ASSUME ReferencesInv, NEW n \in Name, n \notin ToSet(AOTNames), NEW stage \in {"half", "ready"},
         NEW i, i = Built(n), BuildImage(i, n, stage)
  PROVE  Builds(i, n, stage)
<1> PICK o : o = [name |-> n, stage |-> stage]
  OBVIOUS
<1> PICK t : t = Bound(AllAssemblies)
  OBVIOUS
<1>1. o \in ObjectType /\ o.name = n /\ o.stage = stage /\ t \in Tables
  BY BoundTable DEF ObjectType
<1>2. /\ i <= MaxObjects /\ objects' = PutAt(objects, i, o) /\ bindings' = PutAt(bindings, i, t)
      /\ objects \in Seq(ObjectType) /\ bindings \in Seq(Tables) /\ Len(bindings) = Len(objects)
      /\ Len(objects) \in Nat /\ MaxObjects \in Nat /\ Listed0 \in Nat /\ Len(AOTNames) \in Nat
      /\ Len(objects) <= MaxObjects
  BY Identities DEF BuildImage
<1>3. /\ i \in 1 .. Len(objects) + 1
      /\ i \in Known => /\ objects[i].stage = "placeholder" /\ i <= Listed0 /\ i > Len(AOTNames)
                        /\ \A j \in Known : objects[j].name = n => j = i
      /\ i \notin Known => \A j \in Known : objects[j].stage = "placeholder" => objects[j].name # n
  <2>1. CASE UnusedPlaceholder(n) # {}
    <3>1. i \in UnusedPlaceholder(n)
      BY <2>1 DEF Built
    <3>2. i \in Known /\ objects[i].name = n /\ objects[i].stage = "placeholder"
      BY <3>1 DEF UnusedPlaceholder, Known
    <3>3. /\ i \in Len(AOTNames) + 1 .. Listed0
          /\ \A j \in Known : objects[j].name = n => j = i \/ j <= Len(AOTNames)
      BY <3>2 DEF ReferencesInv, Objects
    <3>4. ASSUME NEW j \in Known, objects[j].name = n, j <= Len(AOTNames) PROVE FALSE
      <4>1. j \in 1 .. Len(AOTNames)
        BY <1>2, <3>4 DEF Known
      <4> QED  BY <3>4, <4>1 DEF ReferencesInv, Objects
    <3> QED  BY <1>2, <3>2, <3>3, <3>4 DEF Known
  <2>2. CASE UnusedPlaceholder(n) = {}
    <3>1. i = Len(objects) + 1
      BY <2>2 DEF Built
    <3> QED  BY <1>2, <2>2, <3>1 DEF UnusedPlaceholder, Known
  <2> QED  BY <2>1, <2>2
<1> PICK os, bs : os = objects' /\ bs = bindings'
  OBVIOUS
<1>4. /\ os \in Seq(ObjectType) /\ os[i] = o
      /\ Len(os) = IF i \in 1 .. Len(objects) THEN Len(objects) ELSE Len(objects) + 1
      /\ \A j \in 1 .. Len(objects) : j # i => os[j] = objects[j]
  BY <1>1, <1>2, <1>3, PutAtIs
<1>5. /\ bs \in Seq(Tables) /\ bs[i] = t
      /\ Len(bs) = IF i \in 1 .. Len(bindings) THEN Len(bindings) ELSE Len(bindings) + 1
      /\ \A j \in 1 .. Len(bindings) : j # i => bs[j] = bindings[j]
  BY <1>1, <1>2, <1>3, PutAtIs
<1>6. /\ i \in Id /\ Len(os) \in Nat /\ Len(os) <= MaxObjects /\ Len(objects) <= Len(os)
      /\ i \in 1 .. Len(os) /\ \A j \in 1 .. Len(os) : j \in 1 .. Len(objects) \/ j = i
  BY <1>2, <1>3, <1>4 DEF Id
<1>7. \A j \in Known : j \in 1 .. Len(os) /\ os[j].name = objects[j].name
  <2> SUFFICES ASSUME NEW j \in Known PROVE j \in 1 .. Len(os) /\ os[j].name = objects[j].name
    OBVIOUS
  <2>1. j \in 1 .. Len(os)
    BY <1>2, <1>6 DEF Known
  <2>2. CASE j = i
    <3>1. objects[i].name = n
      <4>1. i \in UnusedPlaceholder(n)
        <5>1. i # Len(objects) + 1
          BY <1>2, <2>2 DEF Known
        <5> QED  BY <5>1 DEF Built
      <4> QED  BY <4>1 DEF UnusedPlaceholder
    <3> QED  BY <1>1, <1>4, <2>1, <2>2, <3>1
  <2>3. CASE j # i
    BY <1>4, <2>1, <2>3 DEF Known
  <2> QED  BY <2>2, <2>3
<1> QED  BY <1>1, <1>2, <1>3, <1>4, <1>5, <1>6, <1>7 DEF Builds, Known

\* Ready and built assemblies are not touched, in either outcome.
LEMMA Untouched ==
  ASSUME ReferencesInv, NEW i, NEW n, NEW stage \in {"half", "ready"}, Builds(i, n, stage)
  PROVE  /\ i \notin BuiltOnes /\ i \notin ReadyOnes
         /\ \A j \in BuiltOnes : j \in BuiltOnes' /\ objects'[j] = objects[j]
         /\ ReadyOnes' = IF stage = "ready" THEN ReadyOnes \cup {i} ELSE ReadyOnes
         /\ BuiltOnes' = BuiltOnes \cup {i}
<1>1. i \notin BuiltOnes /\ i \notin ReadyOnes
  BY DEF Builds, BuiltOnes, ReadyOnes
<1>2. ASSUME NEW j PROVE j \in BuiltOnes' <=> j \in BuiltOnes \cup {i}
  <2>1. CASE j = i
    BY <2>1 DEF Builds, BuiltOnes, Known
  <2>2. CASE j # i
    BY <2>2 DEF Builds, BuiltOnes, Known
  <2> QED  BY <2>1, <2>2
<1>3. ASSUME NEW j PROVE j \in ReadyOnes' <=> j \in ReadyOnes \/ (stage = "ready" /\ j = i)
  <2>1. CASE j = i
    BY <1>1, <2>1 DEF Builds, ReadyOnes, Known
  <2>2. CASE j # i
    BY <2>2 DEF Builds, ReadyOnes, Known
  <2> QED  BY <2>1, <2>2
<1>4. ReadyOnes' = IF stage = "ready" THEN ReadyOnes \cup {i} ELSE ReadyOnes
  BY <1>3
<1>5. \A j \in BuiltOnes : objects'[j] = objects[j]
  BY <1>1 DEF Builds, BuiltOnes
<1> QED  BY <1>1, <1>2, <1>4, <1>5

LEMMA ObjectsBuilt ==
  ASSUME ReferencesInv, NEW n \in Name, n \notin ToSet(AOTNames), NEW stage \in {"half", "ready"}, NEW i,
         Builds(i, n, stage)
  PROVE  Objects'
<1>1. /\ Len(objects) \in Nat /\ Len(objects') \in Nat /\ Listed0 \in Nat /\ Len(AOTNames) \in Nat
      /\ 1 .. Listed0 \subseteq Known
  BY Identities DEF Builds
<1>2. Listed0 <= Len(objects')
  BY <1>1 DEF ReferencesInv, Objects, Builds
<1>3. ASSUME NEW j \in 1 .. Len(AOTNames)
      PROVE  objects'[j].name \in ToSet(AOTNames) /\ objects'[j].stage = "ready"
  <2>1. j \in Known
    BY <1>1, ReferencesAssumption DEF Listed0
  <2>2. objects[j].name \in ToSet(AOTNames) /\ objects[j].stage = "ready"
    BY DEF ReferencesInv, Objects
  <2>3. j # i
    BY <2>1, <2>2 DEF Builds
  <2> QED  BY <2>1, <2>2, <2>3 DEF Builds
<1>4. ASSUME NEW j \in 1 .. Len(objects'), objects'[j].stage = "placeholder"
      PROVE  /\ j \in Len(AOTNames) + 1 .. Listed0
             /\ \A k \in 1 .. Len(objects') :
                  objects'[k].name = objects'[j].name => k = j \/ k <= Len(AOTNames)
  <2>1. j # i
    BY <1>4 DEF Builds
  <2>2. j \in Known /\ objects'[j] = objects[j]
    BY <2>1 DEF Builds
  <2>3. /\ j \in Len(AOTNames) + 1 .. Listed0
        /\ \A k \in Known : objects[k].name = objects[j].name => k = j \/ k <= Len(AOTNames)
    BY <1>4, <2>2 DEF ReferencesInv, Objects
  <2>4. ASSUME NEW k \in 1 .. Len(objects'), objects'[k].name = objects'[j].name, k # j
        PROVE  k <= Len(AOTNames)
    <3>1. CASE k \in Known
      BY <2>2, <2>3, <2>4, <3>1 DEF Builds
    <3>2. CASE k \notin Known
      <4>1. k = i
        BY <3>2 DEF Builds
      <4>2. objects[j].name = n
        BY <2>2, <2>4, <4>1 DEF Builds
      <4> QED  BY <1>4, <2>2, <3>2, <4>1, <4>2 DEF Builds
    <3> QED  BY <3>1, <3>2
  <2> QED  BY <2>3, <2>4
<1> QED  BY <1>2, <1>3, <1>4 DEF Objects, Known

LEMMA ReferencesBuilt ==
  ASSUME ReferencesInv, NEW n, NEW stage \in {"half", "ready"}, NEW i, Builds(i, n, stage)
  PROVE  References'
<1>1. ASSUME NEW x \in BuiltOnes PROVE x \in BuiltOnes' /\ objects'[x] = objects[x]
  BY Untouched
<1>2. ASSUME NEW j \in 1 .. Len(bindings'), NEW m \in DOMAIN bindings'[j]
      PROVE  bindings'[j][m] \in BuiltOnes /\ objects[bindings'[j][m]].name = m
  <2>1. CASE j = i
    BY <1>2, <2>1, BoundTable DEF Builds
  <2>2. CASE j # i
    <3>1. j \in Known /\ bindings'[j] = bindings[j]
      BY <2>2 DEF Builds
    <3>2. j \in 1 .. Len(bindings)
      BY <3>1, Identities DEF Known
    <3> QED  BY <1>2, <3>1, <3>2 DEF ReferencesInv, References
  <2> QED  BY <2>1, <2>2
<1> QED  BY <1>1, <1>2 DEF References

LEMMA TablesKept ==
  ASSUME ReferencesInv, NEW n, NEW stage \in {"half", "ready"}, NEW i, Builds(i, n, stage)
  PROVE  /\ \A j \in ReadyOnes : objects'[j].name = objects[j].name
         /\ \A j \in ReadyOnes : bindings'[j] = bindings[j]
<1>1. \A j \in ReadyOnes : j \in Known /\ j # i
  <2>1. i \notin ReadyOnes
    BY Untouched
  <2> QED  BY <2>1 DEF ReadyOnes
<1> QED  BY <1>1 DEF Builds

\* The copy without the unbuilt ones, of registered as it then is.
LEMMA ValidIs ==
  ASSUME NEW rs \in Seq(Id), NEW os, NEW S, S = {i \in 1 .. Len(os) : os[i].stage # "placeholder"}
  PROVE  Valid(os, rs) = Kept(rs, S) /\ Valid(os, rs) \in Seq(Id)
<1>1. Valid(os, rs) = Kept(rs, S)
  BY DEF Valid
<1>2. \A T : \A s \in Seq(T) : Kept(s, S) \in Seq(T)
  BY KeptFollows
<1> QED  BY <1>1, <1>2

LEMMA RaisesStep ==
  ASSUME ReferencesInv, NEW n \in Name \ ToSet(AOTNames), LoadRaises(n)
  PROVE  ReferencesInv'
<1> PICK i : i = Built(n)
  OBVIOUS
<1>1. /\ BuildImage(i, n, "half") /\ UNCHANGED <<registered, loadOrder>>
      /\ \/ UNCHANGED <<snapshot, stale>>
         \/ /\ snapshot' = IF stale THEN Valid(objects', registered) ELSE snapshot
            /\ stale' = FALSE
  BY DEF LoadRaises
<1>2. Builds(i, n, "half")
  <2>1. "half" \in {"half", "ready"}
    OBVIOUS
  <2> QED  BY <1>1, <2>1, Building
<1>3. /\ i \notin BuiltOnes /\ ReadyOnes' = ReadyOnes /\ BuiltOnes' = BuiltOnes \cup {i}
      /\ Objects' /\ References'
      /\ \A j \in ReadyOnes : objects'[j].name = objects[j].name
      /\ \A j \in ReadyOnes : bindings'[j] = bindings[j]
  <2>1. "half" \in {"half", "ready"} /\ "half" # "ready"
    OBVIOUS
  <2>2. i \notin BuiltOnes /\ ReadyOnes' = ReadyOnes /\ BuiltOnes' = BuiltOnes \cup {i}
    BY <1>2, <2>1, Untouched
  <2>3. Objects' /\ References'
    BY <1>2, <2>1, ObjectsBuilt, ReferencesBuilt
  <2> QED  BY <1>2, <2>1, <2>2, <2>3, TablesKept
<1>4. /\ registered \in Seq(Id) /\ registered \in Seq(Nat) /\ IsInjective(registered)
      /\ loadOrder \in Seq(Id) /\ IsInjective(loadOrder) /\ snapshot \in Seq(Id) /\ stale \in BOOLEAN
      /\ 1 .. Listed0 \subseteq Known
  BY Identities
<1>5. Registry'
  <2>1. ASSUME NEW j \in 1 .. Len(objects'), j <= Listed0 \/ j \in ReadyOnes PROVE Contains(registered, j)
    <3>1. j \in Known
      BY <1>4, <2>1, Identities DEF ReadyOnes, Builds
    <3> QED  BY <2>1, <3>1 DEF ReferencesInv, Registry
  <2>2. \A k \in 1 .. Len(registered) : registered[k] \in Known /\ registered[k] \in 1 .. Len(objects')
    BY <1>2 DEF ReferencesInv, Registry, Builds
  <2>3. ASSUME NEW k \in 1 .. Len(registered), NEW l \in 1 .. Len(registered), k < l,
               objects'[registered[k]].name = objects'[registered[l]].name
        PROVE  objects'[registered[l]].stage # "half"
    <3>1. registered[k] \in Known /\ registered[l] \in Known
      BY <2>2
    <3>2. objects[registered[k]].name = objects[registered[l]].name
      BY <1>2, <2>3, <3>1 DEF Builds
    <3>3. registered[l] # i
      <4>1. SUFFICES ASSUME registered[l] = i PROVE FALSE
        OBVIOUS
      <4>2. objects[registered[k]].name = n
        BY <1>2, <2>3, <3>1, <4>1 DEF Builds
      <4>3. registered[k] = i
        BY <1>2, <3>1, <4>1, <4>2 DEF Builds
      <4>4. k = l
        BY <1>4, <4>1, <4>3 DEF IsInjective
      <4> QED  BY <2>3, <4>4
    <3> QED  BY <1>2, <2>3, <3>1, <3>2, <3>3 DEF Builds, ReferencesInv, Registry
  <2> QED  BY <1>1, <1>3, <2>1, <2>2, <2>3 DEF Registry, Known
<1>6. LoadHistory'
  <2>1. \A k \in 1 .. Len(registered) : objects'[registered[k]].name = objects[registered[k]].name
    BY <1>2 DEF ReferencesInv, Registry, Builds
  <2> QED  BY <1>1, <1>3, <2>1 DEF ReferencesInv, LoadHistory
<1>7. Valid(objects', registered) = Kept(registered, BuiltOnes') /\ Valid(objects', registered) \in Seq(Id)
  BY <1>4, ValidIs DEF BuiltOnes, Known
<1>8. AllAssemblies' = IF stale THEN Valid(objects', registered) ELSE snapshot
  BY <1>1 DEF AllAssemblies
<1>9. Listing'
  <2>1. CASE stale
    <3>1. ReadyOnes' \subseteq BuiltOnes'
      BY DEF ReadyOnes, BuiltOnes
    <3> QED  BY <1>1, <1>7, <1>8, <2>1, <3>1 DEF Listing
  <2>2. CASE ~ stale
    <3>1. AllAssemblies' = AllAssemblies
      BY <1>8, <2>2 DEF AllAssemblies
    <3>2. PICK S \in SUBSET BuiltOnes : ReadyOnes \subseteq S /\ AllAssemblies = Kept(registered, S)
      BY DEF ReferencesInv, Listing
    <3>3. S \in SUBSET BuiltOnes' /\ ReadyOnes' \subseteq S /\ AllAssemblies' = Kept(registered', S)
      BY <1>1, <1>3, <3>1, <3>2
    <3> QED  BY <3>3 DEF Listing
  <2> QED  BY <2>1, <2>2
<1>10. LoadedAfterUsesNewest'
  BY <1>1, <1>3, NewestStays
<1>11. TypeOK'
  <2>1. snapshot' \in Seq(Id) /\ stale' \in BOOLEAN
    BY <1>1, <1>4, <1>7
  <2>2. \A j \in 1 .. Len(bindings') : \A m \in DOMAIN bindings'[j] : objects'[bindings'[j][m]].name = m
    BY <1>3 DEF References
  <2>3. objects' \in Seq(ObjectType) /\ Len(objects') <= MaxObjects /\ bindings' \in Seq(Tables) /\ Len(bindings') = Len(objects')
    BY <1>2 DEF Builds
  <2> QED  BY <1>1, <1>4, <2>1, <2>2, <2>3 DEF TypeOK, ObjectType
<1> QED  BY <1>3, <1>5, <1>6, <1>9, <1>10, <1>11 DEF ReferencesInv

\* A sequence without repetitions that gets x at its end, unless it has it.
Extends(s, x, r, T) ==
  /\ r \in Seq(T) /\ IsInjective(r) /\ Contains(r, x) /\ Len(s) <= Len(r)
  /\ \A k \in 1 .. Len(s) : r[k] = s[k]
  /\ \A k \in 1 .. Len(r) :
       k \in 1 .. Len(s) \/ (r[k] = x /\ k = Len(s) + 1 /\ k = Len(r) /\ ~ Contains(s, x))

LEMMA AppendOnce ==
  ASSUME NEW T, NEW s \in Seq(T), IsInjective(s), NEW x \in T,
         NEW r, r = IF Contains(s, x) THEN s ELSE Append(s, x)
  PROVE  Extends(s, x, r, T)
<1>1. CASE Contains(s, x)
  BY <1>1 DEF Extends
<1>2. CASE ~ Contains(s, x)
  <2>1. /\ r \in Seq(T) /\ Len(r) = Len(s) + 1 /\ Len(s) \in Nat /\ r[Len(s) + 1] = x
        /\ \A k \in 1 .. Len(s) : r[k] = s[k]
    BY <1>2
  <2>2. \A k \in 1 .. Len(r) : k \in 1 .. Len(s) \/ k = Len(s) + 1
    BY <2>1
  <2>3. \A k \in 1 .. Len(s) : s[k] # x
    BY <1>2 DEF Contains
  <2>4. ASSUME NEW k \in 1 .. Len(r), NEW l \in 1 .. Len(r), r[k] = r[l] PROVE k = l
    <3>1. CASE k \in 1 .. Len(s) /\ l \in 1 .. Len(s)
      BY <2>1, <2>4, <3>1 DEF IsInjective
    <3>2. CASE ~ (k \in 1 .. Len(s) /\ l \in 1 .. Len(s))
      BY <2>1, <2>2, <2>3, <2>4, <3>2
    <3> QED  BY <3>1, <3>2
  <2>5. IsInjective(r)
    BY <2>1, <2>4 DEF IsInjective
  <2>6. Contains(r, x)
    BY <2>1 DEF Contains
  <2> QED  BY <1>2, <2>1, <2>2, <2>5, <2>6 DEF Extends
<1> QED  BY <1>1, <1>2

\* What a successful load does.
Loads(i, n) ==
  /\ Builds(i, n, "ready")
  /\ i \notin BuiltOnes /\ i \notin ReadyOnes
  /\ ReadyOnes' = ReadyOnes \cup {i} /\ BuiltOnes' = BuiltOnes \cup {i}
  /\ Extends(registered, i, registered', Id)
  /\ Extends(loadOrder, i, loadOrder', Id)
  /\ Len(loadOrder') = Len(loadOrder) + 1 /\ loadOrder'[Len(loadOrder) + 1] = i
  /\ stale' = TRUE /\ snapshot' = snapshot

LEMMA Loading ==
  ASSUME ReferencesInv, NEW n \in Name \ ToSet(AOTNames), LoadFromBytes(n)
  PROVE  \E i : Loads(i, n)
<1> PICK i : i = Built(n)
  OBVIOUS
<1>1. /\ BuildImage(i, n, "ready")
      /\ registered' = IF Contains(registered, i) THEN registered ELSE Append(registered, i)
      /\ stale' = TRUE /\ snapshot' = snapshot
      /\ loadOrder' = Append(loadOrder, i)
  BY DEF LoadFromBytes, RegisterInterpreterAssembly
<1>2. "ready" \in {"half", "ready"}
  OBVIOUS
<1>3. Builds(i, n, "ready")
  BY <1>1, <1>2, Building
<1>4. /\ i \notin BuiltOnes /\ i \notin ReadyOnes
      /\ ReadyOnes' = ReadyOnes \cup {i} /\ BuiltOnes' = BuiltOnes \cup {i}
  BY <1>2, <1>3, Untouched
<1>5. /\ registered \in Seq(Id) /\ IsInjective(registered)
      /\ loadOrder \in Seq(Id) /\ IsInjective(loadOrder) /\ i \in Id
  BY <1>3, Identities DEF Builds
<1>6. ~ Contains(loadOrder, i)
  BY <1>4 DEF Contains, ReferencesInv, LoadHistory
<1>7. loadOrder' = IF Contains(loadOrder, i) THEN loadOrder ELSE Append(loadOrder, i)
  BY <1>1, <1>6
<1>8. Extends(registered, i, registered', Id) /\ Extends(loadOrder, i, loadOrder', Id)
  BY <1>1, <1>5, <1>7, AppendOnce
<1>9. Len(loadOrder') = Len(loadOrder) + 1 /\ loadOrder'[Len(loadOrder) + 1] = i
  BY <1>1, <1>5
<1> QED  BY <1>1, <1>3, <1>4, <1>8, <1>9 DEF Loads

LEMMA LoadedRegistry ==
  ASSUME ReferencesInv, NEW i, NEW n, Loads(i, n)
  PROVE  Registry'
<1>1. /\ Builds(i, n, "ready") /\ ReadyOnes' = ReadyOnes \cup {i}
      /\ Extends(registered, i, registered', Id)
  BY DEF Loads
<1>2. 1 .. Listed0 \subseteq Known /\ Listed0 \in Nat
  BY Identities
<1>3. ASSUME NEW j, Contains(registered, j) PROVE Contains(registered', j)
  <2>1. PICK k \in 1 .. Len(registered) : registered[k] = j
    BY <1>3 DEF Contains
  <2>2. registered'[k] = j /\ Len(registered) <= Len(registered')
    BY <1>1, <2>1 DEF Extends
  <2>3. registered' \in Seq(Id) /\ registered \in Seq(Id)
    BY <1>1, Identities DEF Extends
  <2>4. k \in 1 .. Len(registered')
    BY <2>2, <2>3
  <2> QED  BY <2>2, <2>4 DEF Contains
<1>4. ASSUME NEW j \in 1 .. Len(objects'), j <= Listed0 \/ j \in ReadyOnes' PROVE Contains(registered', j)
  <2>1. CASE j = i
    BY <1>1, <2>1 DEF Extends
  <2>2. CASE j # i
    <3>1. j \in Known /\ (j <= Listed0 \/ j \in ReadyOnes)
      BY <1>1, <1>4, <2>2 DEF Builds
    <3>2. Contains(registered, j)
      BY <3>1 DEF ReferencesInv, Registry
    <3> QED  BY <1>3, <3>2
  <2> QED  BY <2>1, <2>2
<1>5. \A k \in 1 .. Len(registered) : registered'[k] = registered[k] /\ registered[k] \in Known
  BY <1>1 DEF Extends, ReferencesInv, Registry
<1>6. ASSUME NEW k \in 1 .. Len(registered') PROVE registered'[k] \in 1 .. Len(objects')
  <2>1. CASE k \in 1 .. Len(registered)
    BY <1>1, <1>5, <2>1 DEF Builds
  <2>2. CASE k \notin 1 .. Len(registered)
    BY <1>1, <2>2 DEF Builds, Extends
  <2> QED  BY <2>1, <2>2
<1>7. ASSUME NEW k \in 1 .. Len(registered'), NEW l \in 1 .. Len(registered'), k < l,
             objects'[registered'[k]].name = objects'[registered'[l]].name
      PROVE  objects'[registered'[l]].stage # "half"
  <2>1. CASE registered'[l] = i
    <3>1. objects'[i].stage = "ready"
      BY <1>1 DEF Builds
    <3> QED  BY <2>1, <3>1
  <2>2. CASE registered'[l] # i
    <3>1. l \in 1 .. Len(registered)
      BY <1>1, <2>2 DEF Extends
    <3>2. k \in 1 .. Len(registered)
      BY <1>7, <3>1, Identities
    <3>3. objects[registered[k]].name = objects[registered[l]].name
      BY <1>1, <1>5, <1>7, <3>1, <3>2 DEF Builds
    <3>4. objects[registered[l]].stage # "half"
      BY <1>7, <3>1, <3>2, <3>3 DEF ReferencesInv, Registry
    <3>5. objects'[registered'[l]] = objects[registered[l]]
      BY <1>1, <1>5, <2>2, <3>1 DEF Builds
    <3> QED  BY <3>4, <3>5
  <2> QED  BY <2>1, <2>2
<1> QED  BY <1>4, <1>6, <1>7 DEF Registry, Known

\* An assembly that becomes usable is the last to: it is either the last one
\* registered or the only one of its name.
LEMMA LoadedHistory ==
  ASSUME ReferencesInv, NEW i, NEW n, Loads(i, n)
  PROVE  LoadHistory'
<1>1. /\ Builds(i, n, "ready") /\ ReadyOnes' = ReadyOnes \cup {i} /\ i \notin ReadyOnes
      /\ Extends(registered, i, registered', Id)
      /\ Extends(loadOrder, i, loadOrder', Id)
      /\ Len(loadOrder') = Len(loadOrder) + 1 /\ loadOrder'[Len(loadOrder) + 1] = i
  BY DEF Loads
<1>2. /\ Len(registered) \in Nat /\ Len(registered') \in Nat /\ Len(loadOrder) \in Nat
      /\ Len(loadOrder') \in Nat
  <2>1. registered' \in Seq(Id) /\ loadOrder' \in Seq(Id)
    BY <1>1 DEF Extends
  <2> QED  BY <2>1, Identities
<1>3. \A p \in 1 .. Len(loadOrder) : loadOrder'[p] = loadOrder[p] /\ loadOrder[p] \in ReadyOnes
  BY <1>1 DEF Extends, ReferencesInv, LoadHistory
<1>4. \A p \in 1 .. Len(loadOrder') : p \in 1 .. Len(loadOrder) \/ (p = Len(loadOrder') /\ loadOrder'[p] = i)
  BY <1>1 DEF Extends
<1>5. \A p \in 1 .. Len(loadOrder') : loadOrder'[p] \in ReadyOnes'
  BY <1>1, <1>3, <1>4
<1>6. ASSUME NEW j \in ReadyOnes' PROVE Contains(loadOrder', j)
  <2>1. CASE j = i
    BY <1>1, <2>1 DEF Extends
  <2>2. CASE j # i
    <3>1. PICK p \in 1 .. Len(loadOrder) : loadOrder[p] = j
      BY <1>1, <2>2 DEF ReferencesInv, LoadHistory, Contains
    <3>2. p \in 1 .. Len(loadOrder') /\ loadOrder'[p] = j
      BY <1>1, <1>2, <1>3, <3>1
    <3> QED  BY <3>2 DEF Contains
  <2> QED  BY <2>1, <2>2
<1>7. ASSUME NEW k \in 1 .. Len(registered'), NEW l \in 1 .. Len(registered'),
             NEW p \in 1 .. Len(loadOrder'), NEW q \in 1 .. Len(loadOrder'),
             k < l, registered'[k] = loadOrder'[p], registered'[l] = loadOrder'[q],
             objects'[registered'[k]].name = objects'[registered'[l]].name
      PROVE  p < q
  <2>1. registered'[k] # registered'[l]
    BY <1>1, <1>2, <1>7 DEF Extends, IsInjective
  <2>2. CASE q \notin 1 .. Len(loadOrder)
    <3>1. q = Len(loadOrder') /\ p # q
      BY <1>4, <1>7, <2>1, <2>2
    <3> QED  BY <1>2, <3>1
  <2>3. CASE q \in 1 .. Len(loadOrder)
    <3>1. registered'[l] = loadOrder[q] /\ loadOrder[q] \in ReadyOnes /\ registered'[l] # i
      BY <1>1, <1>3, <1>7, <2>3
    <3>2. l \in 1 .. Len(registered) /\ k \in 1 .. Len(registered)
      <4>1. l \in 1 .. Len(registered)
        BY <1>1, <3>1 DEF Extends
      <4> QED  BY <1>2, <1>7, <4>1
    <3>3. /\ registered'[l] = registered[l] /\ registered'[k] = registered[k]
          /\ registered[l] \in Known /\ registered[k] \in Known
      BY <1>1, <3>2 DEF Extends, ReferencesInv, Registry
    <3>4. objects[registered[k]].name = objects[registered[l]].name
      BY <1>1, <1>7, <3>3 DEF Builds
    <3>5. registered[k] # i
      <4>1. SUFFICES ASSUME registered[k] = i PROVE FALSE
        OBVIOUS
      <4>2. objects[registered[l]].name = n
        BY <1>1, <3>3, <3>4, <4>1 DEF Builds
      <4>3. registered[l] = i
        BY <1>1, <3>3, <4>1, <4>2 DEF Builds
      <4> QED  BY <3>1, <3>3, <4>3
    <3>6. p \in 1 .. Len(loadOrder)
      BY <1>4, <1>7, <3>3, <3>5
    <3>7. registered[k] = loadOrder[p] /\ registered[l] = loadOrder[q]
      BY <1>3, <1>7, <2>3, <3>3, <3>6
    <3> QED  BY <1>7, <2>3, <3>2, <3>4, <3>6, <3>7 DEF ReferencesInv, LoadHistory
  <2> QED  BY <2>2, <2>3
<1> QED  BY <1>5, <1>6, <1>7 DEF LoadHistory

\* The list is copied anew when it is next asked for.
LEMMA LoadedListing ==
  ASSUME ReferencesInv, NEW i, NEW n, Loads(i, n)
  PROVE  Listing'
<1>1. registered' \in Seq(Id) /\ stale' = TRUE
  BY DEF Loads, Extends
<1>2. Valid(objects', registered') = Kept(registered', BuiltOnes')
  BY <1>1, ValidIs DEF BuiltOnes, Known
<1>3. AllAssemblies' = Valid(objects', registered')
  BY <1>1 DEF AllAssemblies
<1>4. ReadyOnes' \subseteq BuiltOnes'
  BY DEF ReadyOnes, BuiltOnes
<1> QED  BY <1>2, <1>3, <1>4 DEF Listing

\* The table of the image that was built is filled from the list as it was.
LEMMA LoadedNewest ==
  ASSUME ReferencesInv, NEW i, NEW n, Loads(i, n)
  PROVE  LoadedAfterUsesNewest'
<1>1. /\ Builds(i, n, "ready") /\ Extends(loadOrder, i, loadOrder', Id)
      /\ Len(loadOrder') = Len(loadOrder) + 1 /\ loadOrder'[Len(loadOrder) + 1] = i
  BY DEF Loads
<1>2. Len(loadOrder) \in Nat /\ Len(loadOrder') \in Nat /\ Len(loadOrder) <= Len(loadOrder')
  BY <1>1, Identities
<1>3. /\ \A j \in ReadyOnes : objects'[j].name = objects[j].name
      /\ \A j \in ReadyOnes : bindings'[j] = bindings[j]
  <2>1. "ready" \in {"half", "ready"}
    OBVIOUS
  <2> QED  BY <1>1, <2>1, TablesKept
<1>4. \A p \in 1 .. Len(loadOrder) : loadOrder'[p] = loadOrder[p] /\ loadOrder[p] \in ReadyOnes
  BY <1>1 DEF Extends, ReferencesInv, LoadHistory
<1>5. ASSUME NEW p \in 1 .. Len(loadOrder'), NEW q \in 1 .. Len(loadOrder'), p < q,
             loadOrder'[q] > Len(AOTNames), NEW m, m = objects'[loadOrder'[p]].name
      PROVE  /\ m \in DOMAIN bindings'[loadOrder'[q]]
             /\ \E r \in p .. Len(loadOrder') : loadOrder'[r] = bindings'[loadOrder'[q]][m]
  <2>1. p \in 1 .. Len(loadOrder)
    BY <1>1, <1>2, <1>5
  <2>2. m = objects'[loadOrder[p]].name /\ m = objects[loadOrder[p]].name
    BY <1>3, <1>4, <1>5, <2>1
  <2>3. CASE q \in 1 .. Len(loadOrder)
    <3>1. loadOrder[q] > Len(AOTNames) /\ loadOrder'[q] = loadOrder[q]
      BY <1>4, <1>5, <2>3
    <3>2. \A j \in ReadyOnes : \A x \in DOMAIN bindings[j] :
            x \in DOMAIN bindings'[j] /\ bindings'[j][x] = bindings[j][x]
      BY <1>3
    <3>3. \A x \in 1 .. Len(loadOrder) : loadOrder'[x] = loadOrder[x]
      BY <1>4
    <3>4. \A j \in ReadyOnes : objects'[j].name = objects[j].name
      BY <1>3
    <3>5. p < q /\ m = objects'[loadOrder[p]].name
      BY <1>5, <2>2
    <3>6. /\ m \in DOMAIN bindings'[loadOrder[q]]
          /\ \E r \in p .. Len(loadOrder') : loadOrder'[r] = bindings'[loadOrder[q]][m]
      BY <1>2, <2>1, <2>3, <3>1, <3>2, <3>3, <3>4, <3>5, NewestKept
    <3> QED  BY <3>1, <3>6
  <2>4. CASE q \notin 1 .. Len(loadOrder)
    <3>1. loadOrder'[q] = i
      BY <1>1, <1>2, <2>4
    <3> PICK t : t = Bound(AllAssemblies)
      OBVIOUS
    <3>2. m \in DOMAIN t /\ \E r \in p .. Len(loadOrder) : loadOrder[r] = t[m]
      BY <2>1, <2>2, BoundIsNewest
    <3>3. PICK r \in p .. Len(loadOrder) : loadOrder[r] = t[m]
      BY <3>2
    <3>4. r \in 1 .. Len(loadOrder) /\ r \in p .. Len(loadOrder')
      BY <1>2, <2>1
    <3>5. loadOrder'[r] = t[m]
      BY <1>4, <3>3, <3>4
    <3>6. bindings'[loadOrder'[q]] = t
      BY <1>1, <3>1 DEF Builds
    <3> QED  BY <3>2, <3>4, <3>5, <3>6
  <2> QED  BY <2>3, <2>4
<1>6. NewestBound'
  BY <1>5 DEF NewestBound
<1>7. (loadOrder \in Seq(Nat) /\ IsInjective(loadOrder) => (LoadedAfterUsesNewest <=> NewestBound))'
  BY NewestIs, PTL
<1>8. loadOrder' \in Seq(Nat)
  <2>1. loadOrder' \in Seq(Id)
    BY <1>1 DEF Extends
  <2>2. \A s \in Seq(Id) : s \in Seq(Nat)
    BY Identities, SeqMonotonic
  <2> QED  BY <2>1, <2>2
<1>9. (loadOrder \in Seq(Nat) /\ IsInjective(loadOrder))'
  BY <1>1, <1>8 DEF Extends, IsInjective
<1> QED  BY <1>6, <1>7, <1>9

LEMMA LoadStep ==
  ASSUME ReferencesInv, NEW n \in Name \ ToSet(AOTNames), LoadFromBytes(n)
  PROVE  ReferencesInv'
<1>1. PICK i : Loads(i, n)
  BY Loading
<1>2. "ready" \in {"half", "ready"} /\ Builds(i, n, "ready")
  BY <1>1 DEF Loads
<1>3. Objects' /\ References'
  BY <1>2, ObjectsBuilt, ReferencesBuilt
<1>4. Registry' /\ LoadHistory' /\ Listing' /\ LoadedAfterUsesNewest'
  BY <1>1, LoadedRegistry, LoadedHistory, LoadedListing, LoadedNewest
<1>5. TypeOK'
  <2>1. snapshot' \in Seq(Id) /\ stale' \in BOOLEAN
    BY <1>1, Identities DEF Loads
  <2>2. \A j \in 1 .. Len(bindings') : \A m \in DOMAIN bindings'[j] : objects'[bindings'[j][m]].name = m
    BY <1>3 DEF References
  <2>3. /\ objects' \in Seq(ObjectType) /\ Len(objects') <= MaxObjects
        /\ bindings' \in Seq(Tables) /\ Len(bindings') = Len(objects')
    BY <1>2 DEF Builds
  <2>4. /\ registered' \in Seq(Id) /\ IsInjective(registered')
        /\ loadOrder' \in Seq(Id) /\ IsInjective(loadOrder')
    BY <1>1 DEF Loads, Extends
  <2> QED  BY <2>1, <2>2, <2>3, <2>4 DEF TypeOK, ObjectType
<1> QED  BY <1>3, <1>4, <1>5 DEF ReferencesInv

-----------------------------------------------------------------------------
(* Theorems                                                                *)

LEMMA IInvStep == ReferencesInv /\ [Next]_vars => ReferencesInv'
<1> SUFFICES ASSUME ReferencesInv, [Next]_vars PROVE ReferencesInv'
  OBVIOUS
<1>1. CASE GetAllAssemblies
  BY <1>1, GetStep
<1>2. ASSUME NEW n \in Name \ ToSet(AOTNames), LoadFromBytes(n) PROVE ReferencesInv'
  BY <1>2, LoadStep
<1>3. ASSUME NEW n \in Name \ ToSet(AOTNames), LoadRaises(n) PROVE ReferencesInv'
  BY <1>3, RaisesStep
<1>4. ASSUME NEW i \in 1 .. Len(objects), NEW n \in Name, ResolveReference(i, n) PROVE ReferencesInv'
  BY <1>4, ResolveStep
<1>5. CASE UNCHANGED vars
  <2>1. /\ objects' = objects /\ registered' = registered /\ snapshot' = snapshot
        /\ stale' = stale /\ bindings' = bindings /\ loadOrder' = loadOrder
    BY <1>5 DEF vars
  <2>2. AllAssemblies' = AllAssemblies
    BY <2>1 DEF AllAssemblies, Valid
  <2>3. TypeOK'
    BY <2>1 DEF ReferencesInv, TypeOK
  <2>4. Order' /\ Listing'
    BY <2>1, <2>2, OrderStays, ListingStays
  <2>5. References'
    BY <2>1 DEF ReferencesInv, References, BuiltOnes, Known
  <2>6. LoadedAfterUsesNewest'
    BY <2>1, NewestStays
  <2> QED  BY <2>3, <2>4, <2>5, <2>6 DEF ReferencesInv, Order
<1> QED  BY <1>1, <1>2, <1>3, <1>4, <1>5 DEF Next

LEMMA AlwaysIInv == Spec => []ReferencesInv
BY Start, IInvStep, PTL DEF Spec

\* No image refers to an assembly that has none itself: what Image::GetLoadedAssembly
\* binds a name to was built when it was bound, and stays.
THEOREM ReferencesNeverDangle == Spec => []ReferencesAreBuilt
<1>1. ReferencesInv => ReferencesAreBuilt
  <2> SUFFICES ASSUME ReferencesInv, NEW i \in 1 .. Len(bindings), NEW n \in DOMAIN bindings[i]
               PROVE  objects[bindings[i][n]].stage # "placeholder"
    BY DEF ReferencesInv, ReferencesAreBuilt
  <2>1. bindings[i][n] \in BuiltOnes
    BY DEF ReferencesInv, References
  <2> QED  BY <2>1 DEF BuiltOnes
<1> QED  BY <1>1, AlwaysIInv, PTL

\* Whatever is loaded after a replacement refers to the replacement, in any order of
\* loads, loads that raise and late references.
THEOREM ReplacementsAreUsed == Spec => []LoadedAfterUsesNewest
<1>1. ReferencesInv => LoadedAfterUsesNewest
  BY DEF ReferencesInv
<1> QED  BY <1>1, AlwaysIInv, PTL

\* GetAllAssemblies lists every assembly that has loaded, and none twice, although
\* placeholders are built in place under a snapshot that was taken before.
THEOREM NoLoadedAssemblyIsHidden == Spec => []LoadedAreListed
<1>1. ReferencesInv => LoadedAreListed
  <2> SUFFICES ASSUME ReferencesInv PROVE LoadedAreListed
    OBVIOUS
  <2> PICK list : list = AllAssemblies
    OBVIOUS
  <2>1. IsInjective(list) /\ \A i \in ReadyOnes : Contains(list, i)
    BY SnapshotHas
  <2>2. ASSUME NEW p \in 1 .. Len(loadOrder) PROVE loadOrder[p] \in ToSet(list)
    <3>1. loadOrder[p] \in ReadyOnes
      BY DEF ReferencesInv, LoadHistory
    <3> PICK x : x = loadOrder[p]
      OBVIOUS
    <3>2. \E k \in 1 .. Len(list) : list[k] = x
      BY <2>1, <3>1 DEF Contains
    <3>3. list \in Seq(Nat)
      BY SnapshotHas
    <3> QED  BY <3>2, <3>3 DEF ToSet
  <2>3. loadOrder \in Seq(Nat)
    BY Identities
  <2>4. ToSet(loadOrder) \subseteq ToSet(list)
    BY <2>2, <2>3 DEF ToSet
  <2> QED  BY <2>1, <2>4 DEF LoadedAreListed
<1> QED  BY <1>1, AlwaysIInv, PTL
====
