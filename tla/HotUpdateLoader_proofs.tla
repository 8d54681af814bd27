----------------------- MODULE HotUpdateLoader_proofs -----------------------
(***************************************************************************)
(* Theorems of HotUpdateLoader for any assemblies, types, placeholders and *)
(* lists of binaries, and any nesting of the loader's calls.               *)
(***************************************************************************)
EXTENDS HotUpdateLoader, SequenceTheorems, FiniteSetTheorems, FunctionTheorems,
        WellFoundedInduction, TLAPS

(* What Kept of Lists returns *)

LEMMA LeastOf ==
  ASSUME NEW I, I \subseteq Nat, I # {}
  PROVE  \E i \in I : \A j \in I : i <= j
<1>1. PICK i \in I : \A j \in I : ~(<<j, i>> \in OpToRel(<, Nat))
  BY WFMin, NatLessThanWellFounded
<1>2. \A j \in I : ~(j < i)
  <2> SUFFICES ASSUME NEW j \in I, j < i  PROVE FALSE
    OBVIOUS
  <2>1. <<j, i>> \in OpToRel(<, Nat)
    BY DEF OpToRel
  <2> QED  BY <1>1, <2>1
<1> QED  BY <1>2

LEMMA GreatestOf ==
  ASSUME NEW n \in Nat, NEW I, I \subseteq 1 .. n, I # {}
  PROVE  \E i \in I : \A j \in I : j <= i
<1> DEFINE J == {m \in Nat : \A j \in I : j <= m}
<1>1. n \in J /\ J \subseteq Nat
  OBVIOUS
<1>2. PICK m \in J : \A k \in J : m <= k
  <2> HIDE DEF J
  <2> QED  BY <1>1, LeastOf
<1>3. m \in I
  <2> SUFFICES ASSUME m \notin I PROVE FALSE
    OBVIOUS
  <2>1. PICK j \in I : TRUE
    OBVIOUS
  <2>2. m \in Nat /\ m # 0 /\ \A k \in I : k <= m /\ k # m
    BY <2>1
  <2>3. m - 1 \in J
    BY <2>2
  <2> QED  BY <1>2, <2>2, <2>3
<1> QED  BY <1>2, <1>3

\* e walks over the positions of s with an element in S, each once, from left to
\* right; r has what it sees.
Picks(e, s, S, r) ==
  /\ e \in [1 .. Len(r) -> 1 .. Len(s)]
  /\ \A q \in 1 .. Len(r) : r[q] = s[e[q]] /\ s[e[q]] \in S
  /\ \A p, q \in 1 .. Len(r) : p < q => e[p] < e[q]
  /\ \A k \in 1 .. Len(s) : s[k] \in S => \E q \in 1 .. Len(r) : e[q] = k

LEMMA KeptFollows ==
  ASSUME NEW T, NEW s \in Seq(T), NEW S
  PROVE  Kept(s, S) \in Seq(T) /\ \E e : Picks(e, s, S, Kept(s, S))
<1> PICK I : I = Positions(s, S)
  OBVIOUS
<1> PICK c : c = Cardinality(I)
  OBVIOUS
<1> DEFINE rank == [k \in I |-> Cardinality(I \cap 1 .. k)]
<1>1. Len(s) \in Nat /\ I \subseteq 1 .. Len(s) /\ IsFiniteSet(I) /\ c \in Nat
  <2>1. Len(s) \in Nat /\ I \subseteq 1 .. Len(s)
    BY DEF Positions
  <2>2. IsFiniteSet(1 .. Len(s))
    <3>1. 1 \in Int /\ Len(s) \in Int
      BY <2>1
    <3> QED  BY <3>1, FS_Interval
  <2>3. IsFiniteSet(I)
    BY <2>1, <2>2, FS_Subset
  <2> QED  BY <2>1, <2>3, FS_CardinalityType
<1>2. ASSUME NEW k \in I PROVE rank[k] \in 1 .. c /\ IsFiniteSet(I \cap 1 .. k)
  <2>1. IsFiniteSet(I \cap 1 .. k) /\ Cardinality(I \cap 1 .. k) <= c
    BY <1>1, FS_Subset
  <2>2. k \in I \cap 1 .. k
    BY <1>1
  <2>3. Cardinality(I \cap 1 .. k) \in Nat /\ Cardinality(I \cap 1 .. k) # 0
    BY <2>1, <2>2, FS_CardinalityType, FS_EmptySet
  <2> QED  BY <2>1, <2>3, <1>1
<1>3. ASSUME NEW k \in I, NEW l \in I, k < l PROVE rank[k] < rank[l]
  <2>1. I \cap 1 .. k \subseteq I \cap 1 .. l /\ l \in (I \cap 1 .. l) \ (I \cap 1 .. k)
    BY <1>1, <1>3
  <2>2. IsFiniteSet(I \cap 1 .. l)
    BY <1>2
  <2>3. /\ Cardinality(I \cap 1 .. k) <= Cardinality(I \cap 1 .. l)
        /\ Cardinality(I \cap 1 .. k) # Cardinality(I \cap 1 .. l)
    BY <2>1, <2>2, FS_Subset
  <2>4. rank[k] \in Nat /\ rank[l] \in Nat
    BY <1>1, <1>2
  <2> QED  BY <2>3, <2>4
<1>4. rank \in Injection(I, 1 .. c)
  <2>1. \A k, l \in I : rank[k] = rank[l] => k = l
    <3> HIDE DEF rank
    <3> SUFFICES ASSUME NEW k \in I, NEW l \in I, rank[k] = rank[l], k # l PROVE FALSE
      OBVIOUS
    <3>1. k \in Nat /\ l \in Nat
      BY <1>1
    <3>4. rank[k] \in 1 .. c /\ rank[l] \in 1 .. c
      BY <1>2
    <3>2. k < l \/ l < k
      BY <3>1
    <3> QED  BY <3>4, <3>2, <1>3
  <2>2. rank \in [I -> 1 .. c]
    BY <1>2
  <2> HIDE DEF rank
  <2> QED  BY <2>1, <2>2, Fun_IsInj
<1>5. \A q \in 1 .. c : \E k \in I : rank[k] = q
  <2> HIDE DEF rank
  <2>1. IsFiniteSet(1 .. c) /\ Cardinality(1 .. c) = c
    BY <1>1, FS_Interval
  <2>2. rank \in Surjection(I, 1 .. c)
    BY <1>4, <2>1, FS_Injection
  <2> QED  BY <2>2 DEF Surjection
<1> DEFINE e == [q \in 1 .. c |-> CHOOSE k \in I : Cardinality(I \cap 1 .. k) = q]
<1>6. \A q \in 1 .. c : e[q] \in I /\ rank[e[q]] = q
  BY <1>5
<1>7. /\ Kept(s, S) = [q \in 1 .. c |-> s[e[q]]]
  BY DEF Kept
<1>8. \A k \in I : k \in 1 .. Len(s) /\ s[k] \in T /\ s[k] \in S
  BY <1>1 DEF Positions
<1> HIDE DEF e, rank
<1>9. e \in [1 .. c -> 1 .. Len(s)]
  BY <1>6, <1>8 DEF e
<1>10. Kept(s, S) \in Seq(T) /\ Len(Kept(s, S)) = c
  BY <1>1, <1>6, <1>7, <1>8
<1>11. \A q \in 1 .. c : Kept(s, S)[q] = s[e[q]] /\ s[e[q]] \in S
  BY <1>6, <1>7, <1>8
<1>12. ASSUME NEW p \in 1 .. c, NEW q \in 1 .. c, p < q PROVE e[p] < e[q]
  <2>1. e[p] \in I /\ e[q] \in I /\ rank[e[p]] = p /\ rank[e[q]] = q
    BY <1>6
  <2>2. e[p] \in Nat /\ e[q] \in Nat /\ e[p] # e[q] /\ ~ (e[q] < e[p])
    BY <1>1, <1>12, <2>1, <1>3
  <2> QED  BY <2>2
<1>13. ASSUME NEW k \in I PROVE \E q \in 1 .. c : e[q] = k
  <2>1. rank[k] \in 1 .. c /\ e[rank[k]] \in I /\ rank[e[rank[k]]] = rank[k]
    BY <1>2, <1>6
  <2>2. e[rank[k]] = k
    BY <2>1, <1>4, Fun_InjectionProperties
  <2> QED  BY <2>1, <2>2
<1>14. \A k \in 1 .. Len(s) : s[k] \in S => k \in I
  BY DEF Positions
<1>15. Picks(e, s, S, Kept(s, S))
  BY <1>9, <1>10, <1>11, <1>12, <1>13, <1>14 DEF Picks
<1> QED  BY <1>10, <1>15

-----------------------------------------------------------------------------
Ready(i) == i \in 1 .. Len(objects) /\ objects[i].stage = "ready"
Known(i) == i \in 1 .. Len(objects)

\* A placeholder that is not built is the only object of its name; what was built
\* carries the name of its bytes.
Objects ==
  /\ Len(Placeholders) <= Len(objects)
  /\ \A i \in 1 .. Len(objects) :
       /\ objects[i].stage = "placeholder" =>
             /\ i <= Len(Placeholders)
             /\ \A j \in 1 .. Len(objects) : objects[j].name = objects[i].name => j = i
       /\ objects[i].stage # "placeholder" =>
             objects[i].bytes \in Binary /\ objects[i].name = NameOf[objects[i].bytes]

\* What is registered: the placeholders and every assembly that was loaded.
Registry ==
  /\ \A i \in 1 .. Len(objects) : i <= Len(Placeholders) \/ Ready(i) => Contains(registered, i)
  /\ \A k \in 1 .. Len(registered) :
       Known(registered[k]) /\ (registered[k] <= Len(Placeholders) \/ Ready(registered[k]))

\* What the loader refers to is loaded.
References ==
  /\ \A k \in 1 .. Len(assemblies) : Ready(assemblies[k])
  /\ \A n \in DOMAIN loaded : Ready(loaded[n].assembly)
  /\ \A k \in 1 .. Len(calls) :
       calls[k].pending # None => Ready(calls[k].pending) /\ calls[k].rest # <<>>
  /\ \A k \in 1 .. Len(calls) - 1 : calls[k].pending # None

\* Until a name is overtaken, the runtime finds the assembly whose initializer runs.
PendingAreNewest ==
  \A k \in 1 .. Len(calls) :
    LET i == calls[k].pending
    IN i # None /\ objects[i].name \notin stray => i = Newest(registered, objects, objects[i].name)

IInv ==
  /\ TypeOK /\ Objects /\ Registry /\ References /\ PendingAreNewest
  /\ CachesAreCurrent /\ HotfixStays /\ LoaderFollowsRuntime

-----------------------------------------------------------------------------
(* Lookup by name                                                          *)

Named(os, i, n) == os[i].name = n
FirstBy(as, os, n, x) ==
  \E k \in 1 .. Len(as) :
    as[k] = x /\ Named(os, x, n) /\ \A j \in 1 .. k - 1 : ~ Named(os, as[j], n)
LastBy(rs, os, n, x) ==
  \E k \in 1 .. Len(rs) :
    rs[k] = x /\ Named(os, x, n) /\ \A j \in k + 1 .. Len(rs) : ~ Named(os, rs[j], n)

LEMMA NewestIs ==
  ASSUME NEW rs \in Seq(Nat), NEW os, NEW n
  PROVE  \/ Newest(rs, os, n) = None /\ \A k \in 1 .. Len(rs) : ~ Named(os, rs[k], n)
         \/ LastBy(rs, os, n, Newest(rs, os, n))
<1> PICK I : I = PlacesOf(rs, os, n)
  OBVIOUS
<1>1. CASE I = {}
  BY <1>1 DEF Newest, PlacesOf, Named
<1>2. CASE I # {}
  <2>1. I \subseteq 1 .. Len(rs) /\ Len(rs) \in Nat
    BY DEF PlacesOf
  <2>2. \E i \in I : \A j \in I : j <= i
    BY <1>2, <2>1, GreatestOf
  <2>3. PICK i \in I : i = (CHOOSE m \in I : \A j \in I : j <= m) /\ \A j \in I : j <= i
    BY <2>2
  <2>4. Newest(rs, os, n) = rs[i]
    BY <1>2, <2>3 DEF Newest
  <2>5. ASSUME NEW j \in i + 1 .. Len(rs) PROVE ~ Named(os, rs[j], n)
    <3>1. i \in Nat /\ j \in 1 .. Len(rs) /\ ~ j <= i
      BY <2>1, <2>5
    <3> QED  BY <2>3, <3>1 DEF Named, PlacesOf
  <2> QED  BY <2>1, <2>4, <2>5 DEF LastBy, Named, PlacesOf
<1> QED  BY <1>1, <1>2

LEMMA LastIsUnique ==
  ASSUME NEW rs \in Seq(Nat), NEW os, NEW n, NEW x, LastBy(rs, os, n, x)
  PROVE  Newest(rs, os, n) = x
<1>1. PICK k \in 1 .. Len(rs) :
        rs[k] = x /\ Named(os, x, n) /\ \A j \in k + 1 .. Len(rs) : ~ Named(os, rs[j], n)
  BY DEF LastBy
<1>2. PICK y : y = Newest(rs, os, n)
  OBVIOUS
<1>3. PICK l \in 1 .. Len(rs) :
        rs[l] = y /\ Named(os, y, n) /\ \A j \in l + 1 .. Len(rs) : ~ Named(os, rs[j], n)
  BY <1>1, <1>2, NewestIs DEF LastBy
<1>4. k = l
  BY <1>1, <1>3
<1> QED  BY <1>1, <1>2, <1>3, <1>4

\* The names of the registered assemblies are all that counts.
LEMMA NewestStays ==
  ASSUME NEW rs \in Seq(Nat), NEW os, NEW os2, NEW n,
         \A k \in 1 .. Len(rs) : os2[rs[k]].name = os[rs[k]].name
  PROVE  Newest(rs, os2, n) = Newest(rs, os, n)
<1>1. \A k \in 1 .. Len(rs) : Named(os2, rs[k], n) <=> Named(os, rs[k], n)
  BY DEF Named
<1>2. PlacesOf(rs, os2, n) = PlacesOf(rs, os, n)
  BY <1>1 DEF Named, PlacesOf
<1> QED  BY <1>2 DEF Newest

LEMMA NewestAppended ==
  ASSUME NEW rs \in Seq(Nat), NEW os, NEW n, NEW i \in Nat
  PROVE  Newest(Append(rs, i), os, n) = IF os[i].name = n THEN i ELSE Newest(rs, os, n)
<1> PICK l \in Nat : l = Len(rs)
  OBVIOUS
<1> PICK r : r = Append(rs, i)
  OBVIOUS
<1>1. r \in Seq(Nat) /\ Len(r) = l + 1 /\ r[l + 1] = i /\ \A k \in 1 .. l : r[k] = rs[k]
  OBVIOUS
<1>2. CASE Named(os, i, n)
  <2>1. LastBy(r, os, n, i)
    BY <1>1, <1>2 DEF LastBy
  <2>2. Newest(r, os, n) = i
    BY <1>1, <2>1, LastIsUnique
  <2> QED  BY <1>2, <2>2 DEF Named
<1>3. CASE ~ Named(os, i, n)
  <2>1. ASSUME LastBy(rs, os, n, Newest(rs, os, n)) PROVE LastBy(r, os, n, Newest(rs, os, n))
    <3>1. PICK k \in 1 .. l :
            /\ rs[k] = Newest(rs, os, n) /\ Named(os, rs[k], n)
            /\ \A j \in k + 1 .. l : ~ Named(os, rs[j], n)
      BY <2>1 DEF LastBy
    <3>2. k \in 1 .. l + 1 /\ r[k] = Newest(rs, os, n) /\ Named(os, Newest(rs, os, n), n)
      BY <1>1, <3>1
    <3>3. ASSUME NEW j \in k + 1 .. l + 1 PROVE ~ Named(os, r[j], n)
      <4>1. CASE j = l + 1
        BY <4>1, <1>1, <1>3
      <4>2. CASE j # l + 1
        BY <4>2, <1>1, <3>1
      <4> QED  BY <4>1, <4>2
    <3> QED  BY <1>1, <3>2, <3>3 DEF LastBy
  <2>2. ASSUME Newest(rs, os, n) = None, \A k \in 1 .. l : ~ Named(os, rs[k], n)
        PROVE  Newest(r, os, n) = None
    <3>1. \A k \in 1 .. l + 1 : ~ Named(os, r[k], n)
      BY <1>1, <1>3, <2>2
    <3>2. ~ LastBy(r, os, n, Newest(r, os, n))
      BY <1>1, <3>1 DEF LastBy
    <3> QED  BY <1>1, <3>2, NewestIs
  <2>3. Newest(r, os, n) = Newest(rs, os, n)
    <3>1. CASE LastBy(rs, os, n, Newest(rs, os, n))
      <4>1. LastBy(r, os, n, Newest(rs, os, n))
        BY <2>1, <3>1
      <4> QED  BY <1>1, <4>1, LastIsUnique
    <3>2. CASE ~ LastBy(rs, os, n, Newest(rs, os, n))
      BY <2>2, <3>2, NewestIs
    <3> QED  BY <3>1, <3>2
  <2> QED  BY <1>3, <2>3 DEF Named
<1> QED  BY <1>2, <1>3

\* The first of a name stays the first: behind a longer list, ...
LEMMA FirstAppended ==
  ASSUME NEW s \in Seq(Nat), NEW os, NEW n, NEW x, FirstBy(s, os, n, x), NEW i \in Nat
  PROVE  FirstBy(Append(s, i), os, n, x)
<1>1. PICK k \in 1 .. Len(s) :
        s[k] = x /\ Named(os, x, n) /\ \A j \in 1 .. k - 1 : ~ Named(os, s[j], n)
  BY DEF FirstBy
<1>2. k \in 1 .. Len(Append(s, i)) /\ \A j \in 1 .. k : Append(s, i)[j] = s[j]
  OBVIOUS
<1>3. \A j \in 1 .. k - 1 : ~ Named(os, Append(s, i)[j], n)
  BY <1>1, <1>2
<1> QED  BY <1>1, <1>2, <1>3 DEF FirstBy

\* ... in front, ...
LEMMA FirstInFront ==
  ASSUME NEW s \in Seq(Nat), NEW os, NEW n, NEW i \in Nat, os[i].name = n
  PROVE  FirstBy(<<i>> \o s, os, n, i)
<1>1. 1 \in 1 .. Len(<<i>> \o s) /\ (<<i>> \o s)[1] = i
  OBVIOUS
<1> QED  BY <1>1 DEF FirstBy, Named

\* ... and when others are dropped or put in front of it.
LEMMA FirstKept ==
  ASSUME NEW s \in Seq(Nat), NEW os, NEW n, NEW x, FirstBy(s, os, n, x), NEW i \in Nat, os[i].name # n,
         NEW S, \A k \in 1 .. Len(s) : os[s[k]].name = n => s[k] \in S
  PROVE  FirstBy(<<i>> \o Kept(s, S), os, n, x)
<1>1. PICK k \in 1 .. Len(s) :
        s[k] = x /\ Named(os, x, n) /\ \A j \in 1 .. k - 1 : ~ Named(os, s[j], n)
  BY DEF FirstBy
<1> PICK r : r = Kept(s, S)
  OBVIOUS
<1>2. r \in Seq(Nat) /\ \E e : Picks(e, s, S, r)
  BY KeptFollows
<1> PICK e : Picks(e, s, S, r)
  BY <1>2
<1>3. PICK q \in 1 .. Len(r) : e[q] = k
  BY <1>1 DEF Named, Picks
<1>4. ASSUME NEW p \in 1 .. q - 1 PROVE ~ Named(os, r[p], n)
  <2>1. p \in 1 .. Len(r) /\ p < q
    BY <1>2
  <2>2. e[p] \in 1 .. Len(s) /\ e[p] < e[q] /\ r[p] = s[e[p]]
    BY <2>1 DEF Picks
  <2>3. e[p] \in 1 .. k - 1
    BY <1>3, <2>2
  <2> QED  BY <1>1, <2>2, <2>3
<1> PICK f : f = <<i>> \o r
  OBVIOUS
<1>5. /\ Len(f) = Len(r) + 1 /\ f[1] = i /\ \A p \in 1 .. Len(r) : f[p + 1] = r[p]
      /\ Len(r) \in Nat
  BY <1>2
<1>6. q + 1 \in 1 .. Len(f) /\ f[q + 1] = x
  BY <1>1, <1>3, <1>5 DEF Picks
<1>7. ASSUME NEW j \in 1 .. q PROVE ~ Named(os, f[j], n)
  <2>1. CASE j = 1
    BY <2>1, <1>5 DEF Named
  <2>2. CASE j # 1
    <3>1. j - 1 \in 1 .. q - 1 /\ f[j] = r[j - 1]
      <4>1. j - 1 \in 1 .. Len(r) /\ j = (j - 1) + 1
        BY <2>2, <1>5
      <4> QED  BY <4>1, <1>5
    <3> QED  BY <3>1, <1>4
  <2> QED  BY <2>1, <2>2
<1>8. q \in Nat /\ (q + 1) - 1 = q
  BY <1>2
<1> QED  BY <1>1, <1>6, <1>7, <1>8 DEF FirstBy

-----------------------------------------------------------------------------
(* The list and what is resolved in it                                     *)

LEMMA MinIs ==
  ASSUME NEW I, I \subseteq Nat, I # {}
  PROVE  Min(I) \in I /\ \A j \in I : Min(I) <= j
<1>1. \E i \in I : \A j \in I : i <= j
  BY LeastOf
<1> QED  BY <1>1 DEF Min

HotfixIsFirst == \A n \in DOMAIN hotfix : FirstBy(assemblies, objects, n, hotfix[n])

LEMMA HotfixIs == assemblies \in Seq(Nat) => (HotfixStays <=> HotfixIsFirst)
<1> SUFFICES ASSUME assemblies \in Seq(Nat), NEW n
             PROVE  LET k == SelectInSeq(assemblies, LAMBDA i : objects[i].name = n)
                    IN k # 0 /\ assemblies[k] = hotfix[n] <=> FirstBy(assemblies, objects, n, hotfix[n])
  BY DEF HotfixStays, HotfixIsFirst
<1> PICK I : I = PlacesOf(assemblies, objects, n)
  OBVIOUS
<1> PICK k : k = SelectInSeq(assemblies, LAMBDA i : objects[i].name = n)
  OBVIOUS
<1>1. k = IF I # {} THEN Min(I) ELSE 0
  BY DEF SelectInSeq, PlacesOf
<1>2. I \subseteq Nat /\ 0 \notin I
  BY DEF PlacesOf
<1>3. CASE I = {}
  BY <1>1, <1>3 DEF PlacesOf, FirstBy, Named
<1>4. CASE I # {}
  <2>1. k \in I /\ \A j \in I : k <= j
    BY <1>1, <1>2, <1>4, MinIs
  <2>2. k \in 1 .. Len(assemblies) /\ Named(objects, assemblies[k], n)
    BY <2>1 DEF PlacesOf, Named
  <2>3. ASSUME NEW j \in 1 .. k - 1 PROVE ~ Named(objects, assemblies[j], n)
    <3>1. j \in 1 .. Len(assemblies) /\ ~ k <= j
      BY <2>2
    <3> QED  BY <2>1, <3>1 DEF PlacesOf, Named
  <2>4. FirstBy(assemblies, objects, n, assemblies[k])
    BY <2>2, <2>3 DEF FirstBy
  <2>5. ASSUME FirstBy(assemblies, objects, n, hotfix[n]) PROVE assemblies[k] = hotfix[n]
    <3>1. PICK l \in 1 .. Len(assemblies) :
            /\ assemblies[l] = hotfix[n] /\ Named(objects, assemblies[l], n)
            /\ \A j \in 1 .. l - 1 : ~ Named(objects, assemblies[j], n)
      BY <2>5 DEF FirstBy
    <3>2. k \in Nat /\ l \in Nat /\ Len(assemblies) \in Nat
      BY <1>2, <2>1, <3>1
    <3>3. l \notin 1 .. k - 1
      BY <2>3, <3>1
    <3>4. k \notin 1 .. l - 1
      BY <2>2, <3>1
    <3>5. k = l
      BY <2>2, <3>1, <3>2, <3>3, <3>4
    <3> QED  BY <3>1, <3>5
  <2> QED  BY <1>2, <2>1, <2>4, <2>5
<1> QED  BY <1>3, <1>4

Definers(t) == {k \in 1 .. Len(assemblies) : Defines(assemblies[k], t)}

FirstIsFound ==
  assemblies \in Seq(Nat) =>
    \A t : Resolve(t) = IF Definers(t) = {} THEN None ELSE assemblies[Min(Definers(t))]

LEMMA ResolveIs == FirstIsFound
<1> SUFFICES ASSUME assemblies \in Seq(Nat), NEW t
             PROVE  Resolve(t) = IF Definers(t) = {} THEN None ELSE assemblies[Min(Definers(t))]
  BY DEF FirstIsFound
<1> PICK k : k = SelectInSeq(assemblies, LAMBDA i : Defines(i, t))
  OBVIOUS
<1>1. k = IF Definers(t) # {} THEN Min(Definers(t)) ELSE 0
  BY DEF SelectInSeq, Definers
<1>2. Resolve(t) = IF k = 0 THEN None ELSE assemblies[k]
  BY DEF Resolve
<1>3. Definers(t) \subseteq Nat /\ 0 \notin Definers(t)
  BY DEF Definers
<1>4. Definers(t) # {} => Min(Definers(t)) # 0
  BY <1>3, MinIs
<1> QED  BY <1>1, <1>2, <1>4

\* A search of the list finds what it found while the listed assemblies stay as they are.
LEMMA ResolveStays ==
  ASSUME assemblies \in Seq(Nat), assemblies' = assemblies, NEW t,
         \A k \in 1 .. Len(assemblies) : objects'[assemblies[k]] = objects[assemblies[k]]
  PROVE  Resolve(t)' = Resolve(t)
<1>1. Definers(t)' = Definers(t)
  BY DEF Definers, Defines
<1>2. assemblies' \in Seq(Nat)
  OBVIOUS
<1>3. FirstIsFound'
  BY ResolveIs, PTL
<1>4. Resolve(t)' = IF Definers(t)' = {} THEN None ELSE assemblies'[Min(Definers(t)')]
  BY <1>2, <1>3 DEF FirstIsFound
<1> QED  BY <1>1, <1>4, ResolveIs DEF FirstIsFound

-----------------------------------------------------------------------------
(* Assembly::Create                                                        *)

LEMMA Indices ==
  ASSUME IInv
  PROVE  /\ Len(objects) \in Nat /\ Len(calls) \in Nat /\ Len(assemblies) \in Nat /\ Id \subseteq Nat
         /\ assemblies \in Seq(Nat) /\ registered \in Seq(Nat) /\ MaxObjects \in Nat
         /\ \A k \in 1 .. Len(assemblies) : assemblies[k] \in 1 .. Len(objects)
         /\ \A k \in 1 .. Len(registered) : registered[k] \in 1 .. Len(objects)
         /\ \A i \in 1 .. Len(objects) : i \in Id /\ objects[i] \in ObjectType
<1>1. /\ MaxObjects \in Nat /\ Id \subseteq Nat /\ objects \in Seq(ObjectType) /\ Len(objects) <= MaxObjects
      /\ assemblies \in Seq(Id) /\ registered \in Seq(Id) /\ calls \in Seq(CallType)
  BY LoaderAssumption DEF IInv, TypeOK, Id
<1>2. assemblies \in Seq(Nat) /\ registered \in Seq(Nat)
  <2>1. \A s \in Seq(Id) : s \in Seq(Nat)
    BY <1>1, SeqMonotonic
  <2> QED  BY <1>1, <2>1
<1> QED  BY <1>1, <1>2 DEF IInv, References, Registry, Ready, Known, Id

\* What Assembly::Create does to the objects.
Builds(i, b, stage) ==
  /\ i \in Id /\ objects' \in Seq(ObjectType) /\ Len(objects') <= MaxObjects
  /\ Len(objects) <= Len(objects') /\ i <= Len(objects')
  /\ \A j \in 1 .. Len(objects') : j \in 1 .. Len(objects) \/ j = i
  /\ objects'[i] = [name |-> NameOf[b], bytes |-> b, stage |-> stage]
  /\ \A j \in 1 .. Len(objects) : j # i => objects'[j] = objects[j]
  /\ \A j \in 1 .. Len(objects) : objects'[j].name = objects[j].name
  /\ \A j \in 1 .. Len(objects) : Ready(j) => j # i /\ objects'[j] = objects[j]
  /\ i \in 1 .. Len(objects) => i <= Len(Placeholders) /\ objects[i].stage = "placeholder"
  /\ \A j \in 1 .. Len(objects') : objects'[j].stage = "placeholder" => objects'[j].name # NameOf[b]

LEMMA Building ==
  ASSUME IInv, NEW b \in Binary, NEW stage \in {"half", "ready"}, NEW i, i = Built(NameOf[b]),
         BuildObject(b, stage), i <= MaxObjects
  PROVE  Builds(i, b, stage)
<1> PICK n : n = NameOf[b]
  OBVIOUS
<1> PICK o : o = [name |-> n, bytes |-> b, stage |-> stage]
  OBVIOUS
<1>1. n \in Name /\ o \in ObjectType /\ o.name = n /\ o.stage = stage
  BY LoaderAssumption DEF ObjectType
<1>2. /\ objects \in Seq(ObjectType) /\ Len(objects) \in Nat /\ MaxObjects \in Nat
      /\ Len(objects) <= MaxObjects /\ Len(Placeholders) <= Len(objects) /\ Len(Placeholders) \in Nat
  BY Indices, LoaderAssumption DEF IInv, TypeOK, Objects
<1>3. objects' = IF i > Len(objects) THEN Append(objects, o) ELSE [objects EXCEPT ![i] = o]
  BY DEF BuildObject
<1>4. CASE UnusedPlaceholder(n) # {}
  <2>1. i \in UnusedPlaceholder(n)
    BY <1>4 DEF Built
  <2>2. i \in 1 .. Len(Placeholders) /\ objects[i].name = n /\ objects[i].stage = "placeholder"
    BY <2>1 DEF UnusedPlaceholder
  <2>3. i \in 1 .. Len(objects)
    BY <1>2, <2>2
  <2>4. objects' = [objects EXCEPT ![i] = o]
    BY <1>2, <1>3, <2>3
  <2>5. /\ objects' \in Seq(ObjectType) /\ Len(objects') = Len(objects)
        /\ \A j \in 1 .. Len(objects) : objects'[j] = IF j = i THEN o ELSE objects[j]
    BY <1>1, <1>2, <2>3, <2>4, ExceptSeq
  <2>6. \A j \in 1 .. Len(objects) : objects[j].name = n => j = i
    BY <2>2, <2>3 DEF IInv, Objects
  <2>7. \A j \in 1 .. Len(objects') : objects'[j].stage = "placeholder" => objects'[j].name # n
    BY <1>1, <2>5, <2>6
  <2>8. i \in Id
    BY <1>2, <2>3 DEF Id
  <2>9. \A j \in 1 .. Len(objects) : objects'[j].name = objects[j].name
    BY <1>1, <2>2, <2>5
  <2>10. \A j \in 1 .. Len(objects) : Ready(j) => j # i /\ objects'[j] = objects[j]
    BY <2>2, <2>5 DEF Ready
  <2> QED  BY <1>2, <2>2, <2>3, <2>5, <2>7, <2>8, <2>9, <2>10 DEF Builds
<1>5. CASE UnusedPlaceholder(n) = {}
  <2>1. i = Len(objects) + 1
    BY <1>5 DEF Built
  <2>2. objects' = Append(objects, o)
    BY <1>2, <1>3, <2>1
  <2>3. /\ objects' \in Seq(ObjectType) /\ Len(objects') = Len(objects) + 1 /\ objects'[i] = o
        /\ \A j \in 1 .. Len(objects) : objects'[j] = objects[j]
    BY <1>1, <1>2, <2>1, <2>2
  <2>4. \A j \in 1 .. Len(objects) : objects[j].stage = "placeholder" => objects[j].name # n
    BY <1>5, <1>2 DEF UnusedPlaceholder, IInv, Objects
  <2>5. \A j \in 1 .. Len(objects') : j \in 1 .. Len(objects) \/ j = i
    BY <1>2, <2>1, <2>3
  <2>6. \A j \in 1 .. Len(objects') : objects'[j].stage = "placeholder" => objects'[j].name # n
    BY <1>1, <2>3, <2>4, <2>5
  <2>7. i \in Id /\ i \notin 1 .. Len(objects) /\ i <= Len(objects')
    BY <1>2, <2>1, <2>3 DEF Id
  <2> QED  BY <1>2, <2>1, <2>3, <2>5, <2>6, <2>7 DEF Builds
<1> QED  BY <1>4, <1>5

-----------------------------------------------------------------------------
(* The conjuncts of the invariant, one by one, over the steps that keep the *)
(* assemblies that are loaded                                              *)

LEMMA Start == Init => IInv
<1> SUFFICES ASSUME Init PROVE IInv
  OBVIOUS
<1> PICK p \in Nat : p = Len(Placeholders)
  BY LoaderAssumption
<1>1. /\ objects \in Seq(ObjectType) /\ Len(objects) = p
      /\ \A i \in 1 .. p : objects[i] = [name |-> Placeholders[i], bytes |-> NoBinary, stage |-> "placeholder"]
  BY LoaderAssumption DEF Init, ObjectType
<1>2. registered \in Seq(Id) /\ Len(registered) = p /\ \A i \in 1 .. p : registered[i] = i
  <2>1. \A i \in 1 .. p : i \in Id
    BY LoaderAssumption DEF Id
  <2> QED  BY <2>1 DEF Init
<1>3. \A i, j \in 1 .. p : Placeholders[i] = Placeholders[j] => i = j
  BY PlaceholdersAssumption, LoaderAssumption DEF IsInjective
<1>4. /\ assemblies = <<>> /\ calls = <<>> /\ DOMAIN loaded = {} /\ DOMAIN hotfix = {} /\ stray = {}
      /\ DOMAIN typeCache = {} /\ DOMAIN methodCache = {}
  BY DEF Init, Empty
<1>5. TypeOK
  <2>1. IsInjective(registered)
    BY <1>2 DEF IsInjective
  <2>2. Len(objects) <= MaxObjects
    BY <1>1, LoaderAssumption
  <2>3. assemblies \in Seq(Id) /\ calls \in Seq(CallType) /\ Len(assemblies) = 0
    BY <1>4
  <2> QED  BY <1>1, <1>2, <1>4, <2>1, <2>2, <2>3 DEF TypeOK
<1>6. Objects
  <2>1. ASSUME NEW i \in 1 .. p PROVE objects[i].name = Placeholders[i] /\ objects[i].stage = "placeholder"
    <3>1. objects[i] = [name |-> Placeholders[i], bytes |-> NoBinary, stage |-> "placeholder"]
      BY <1>1
    <3> QED  BY <3>1
  <2> QED  BY <1>1, <1>3, <2>1 DEF Objects
<1>7. Registry
  <2>1. \A i \in 1 .. Len(objects) : Contains(registered, i)
    BY <1>1, <1>2 DEF Contains
  <2> QED  BY <1>1, <1>2, <2>1 DEF Registry, Known
<1>8. References /\ PendingAreNewest
  BY <1>4 DEF References, PendingAreNewest
<1>9. CachesAreCurrent /\ LoaderFollowsRuntime
  BY <1>4 DEF CachesAreCurrent, LoaderFollowsRuntime
<1>10. HotfixStays
  BY <1>4 DEF HotfixStays
<1> QED  BY <1>5, <1>6, <1>7, <1>8, <1>9, <1>10 DEF IInv

\* No object loses its name, and what is loaded stays as it is.
Grows ==
  /\ objects' \in Seq(ObjectType) /\ Len(objects') <= MaxObjects
  /\ Len(objects) \in Nat /\ Len(objects') \in Nat /\ Len(objects) <= Len(objects')
  /\ \A j \in 1 .. Len(objects) : objects'[j].name = objects[j].name
  /\ \A j \in 1 .. Len(objects) : Ready(j) => objects'[j] = objects[j]

LEMMA SameGrows == IInv /\ objects' = objects => Grows
  BY Indices DEF Grows, IInv, TypeOK

LEMMA BuildsGrows ==
  ASSUME IInv, NEW i, NEW b, NEW stage, Builds(i, b, stage)
  PROVE  Grows
<1>1. Len(objects) \in Nat /\ Len(objects') \in Nat
  BY Indices DEF Builds
<1> QED  BY <1>1 DEF Builds, Grows

LEMMA ReadyStays ==
  ASSUME Grows, NEW i, Ready(i)
  PROVE  Ready(i)' /\ objects'[i] = objects[i] /\ i \in 1 .. Len(objects)
<1>1. i \in 1 .. Len(objects) /\ objects'[i] = objects[i] /\ i \in 1 .. Len(objects')
  BY DEF Grows, Ready
<1> QED  BY <1>1 DEF Ready

RuntimeOK == Objects /\ Registry

LEMMA RuntimeStays == IInv /\ runtimeState' = runtimeState => RuntimeOK'
<1> SUFFICES ASSUME IInv, objects' = objects, registered' = registered PROVE RuntimeOK'
  BY DEF runtimeState
<1>1. Objects'
  BY DEF IInv, Objects
<1>2. Registry'
  BY DEF IInv, Registry, Ready, Known
<1> QED  BY <1>1, <1>2 DEF RuntimeOK

LEMMA NewestGrown ==
  ASSUME IInv, Grows, NEW n
  PROVE  Newest(registered, objects', n) = Newest(registered, objects, n)
<1>1. \A k \in 1 .. Len(registered) : objects'[registered[k]].name = objects[registered[k]].name
  BY Indices DEF Grows
<1> QED  BY <1>1, Indices, NewestStays

ListOK ==
  /\ assemblies \in Seq(Id)
  /\ \A k \in 1 .. Len(assemblies) : Ready(assemblies[k])
  /\ DOMAIN hotfix \subseteq Name
  /\ HotfixStays

LEMMA ListStays ==
  ASSUME IInv, Grows, assemblies' = assemblies, hotfix' = hotfix
  PROVE  ListOK'
<1>1. \A k \in 1 .. Len(assemblies) :
         Ready(assemblies[k])' /\ objects'[assemblies[k]] = objects[assemblies[k]]
  BY ReadyStays DEF IInv, References
<1>2. (\A k \in 1 .. Len(assemblies) : Ready(assemblies[k]))'
  BY <1>1 DEF Ready
<1>3. HotfixIsFirst
  BY HotfixIs, Indices DEF IInv
<1>4. HotfixIsFirst'
  <2> SUFFICES ASSUME NEW n \in DOMAIN hotfix PROVE FirstBy(assemblies, objects', n, hotfix[n])
    BY DEF HotfixIsFirst
  <2>1. PICK k \in 1 .. Len(assemblies) :
          /\ assemblies[k] = hotfix[n] /\ Named(objects, hotfix[n], n)
          /\ \A j \in 1 .. k - 1 : ~ Named(objects, assemblies[j], n)
    BY <1>3 DEF HotfixIsFirst, FirstBy
  <2>2. \A j \in 1 .. k : Named(objects', assemblies[j], n) <=> Named(objects, assemblies[j], n)
    <3>1. \A j \in 1 .. k : j \in 1 .. Len(assemblies)
      BY Indices, <2>1
    <3> QED  BY <1>1, <3>1 DEF Named
  <2>3. k \in 1 .. k /\ \A j \in 1 .. k - 1 : j \in 1 .. k
    BY Indices, <2>1
  <2> QED  BY <2>1, <2>2, <2>3 DEF FirstBy
<1>5. HotfixStays'
  <2>1. (assemblies \in Seq(Nat) => (HotfixStays <=> HotfixIsFirst))'
    BY HotfixIs, PTL
  <2> QED  BY <1>4, <2>1, Indices
<1> QED  BY <1>2, <1>5 DEF IInv, TypeOK, ListOK

LEMMA CachesStay ==
  ASSUME IInv, Grows, assemblies' = assemblies, typeCache' = typeCache, methodCache' = methodCache
  PROVE  CachesAreCurrent'
<1>1. \A k \in 1 .. Len(assemblies) : objects'[assemblies[k]] = objects[assemblies[k]]
  BY ReadyStays DEF IInv, References
<1>2. ASSUME NEW t PROVE Resolve(t)' = Resolve(t)
  BY <1>1, ResolveStays, Indices
<1> QED  BY <1>2 DEF IInv, CachesAreCurrent

LoadedOK ==
  /\ DOMAIN loaded \subseteq Name
  /\ \A n \in DOMAIN loaded :
       /\ loaded[n] \in [assembly : Id, bytes : Binary]
       /\ objects[loaded[n].assembly] = [name |-> n, bytes |-> loaded[n].bytes, stage |-> "ready"]
       /\ Ready(loaded[n].assembly)

LEMMA LoadedStays == IInv /\ Grows /\ loaded' = loaded => LoadedOK'
  BY ReadyStays DEF IInv, References, TypeOK, LoadedOK

LEMMA LoadedAreFound ==
  ASSUME IInv, NEW n \in DOMAIN loaded
  PROVE  LastBy(registered, objects, n, Newest(registered, objects, n)) /\ Newest(registered, objects, n) \in Id
<1> PICK i : i = loaded[n].assembly
  OBVIOUS
<1>1. Ready(i) /\ objects[i].name = n
  <2>1. objects[i] = [name |-> n, bytes |-> loaded[n].bytes, stage |-> "ready"]
    BY DEF IInv, TypeOK
  <2> QED  BY <2>1 DEF IInv, References
<1>2. \E k \in 1 .. Len(registered) : registered[k] = i
  BY <1>1 DEF IInv, Registry, Ready, Contains
<1>3. LastBy(registered, objects, n, Newest(registered, objects, n))
  BY <1>1, <1>2, NewestIs, Indices DEF Named
<1>4. Newest(registered, objects, n) \in Id
  BY <1>3, Indices DEF LastBy
<1> QED  BY <1>3, <1>4

-----------------------------------------------------------------------------
(* The active calls                                                        *)

CallsOK ==
  /\ calls \in Seq(CallType)
  /\ \A k \in 1 .. Len(calls) :
       calls[k].pending # None => Ready(calls[k].pending) /\ calls[k].rest # <<>>
  /\ \A k \in 1 .. Len(calls) - 1 : calls[k].pending # None

\* A call of the new state that awaits an initializer awaited the same one before.
Waits ==
  \A k \in 1 .. Len(calls') :
    calls'[k].pending # None => k \in 1 .. Len(calls) /\ calls[k].pending = calls'[k].pending

LEMMA LastCall ==
  ASSUME IInv, calls # <<>>
  PROVE  /\ Len(calls) \in 1 .. Len(calls) /\ Active \in CallType
         /\ Left \in Seq(CallType) /\ Len(Left) = Len(calls) - 1
         /\ \A k \in 1 .. Len(calls) - 1 : Left[k] = calls[k]
<1>1. calls \in Seq(CallType) /\ Len(calls) \in Nat /\ Len(calls) # 0
  BY DEF IInv, TypeOK
<1>2. Len(calls) \in 1 .. Len(calls) /\ Active \in CallType
  BY <1>1 DEF Active
<1>3. PICK n \in Nat : n = Len(calls) - 1
  BY <1>1
<1>4. Left = SubSeq(calls, 1, n) /\ n <= Len(calls)
  BY <1>1, <1>3 DEF Left
<1>5. Left \in Seq(CallType) /\ Len(Left) = n /\ \A k \in 1 .. n : Left[k] = calls[k]
  BY <1>1, <1>4
<1> QED  BY <1>2, <1>3, <1>5

LEMMA CallsShrink ==
  ASSUME IInv, Grows, calls # <<>>, calls' = Left
  PROVE  CallsOK' /\ Waits
<1>1. calls' \in Seq(CallType) /\ \A k \in 1 .. Len(calls') : k \in 1 .. Len(calls) - 1 /\ calls'[k] = calls[k]
  BY LastCall
<1>2. \A k \in 1 .. Len(calls') : k \in 1 .. Len(calls)
  BY <1>1, LastCall, Indices
<1>3. \A k \in 1 .. Len(calls') - 1 : k \in 1 .. Len(calls')
  BY <1>1
<1>4. \A k \in 1 .. Len(calls') :
        calls'[k].pending # None => Ready(calls[k].pending) /\ calls[k].rest # <<>>
  BY <1>1, <1>2 DEF IInv, References
<1>5. \A k \in 1 .. Len(calls') : calls[k].pending # None => Ready(calls[k].pending)'
  BY <1>1, <1>4, ReadyStays
<1>6. (\A k \in 1 .. Len(calls) :
        calls[k].pending # None => Ready(calls[k].pending) /\ calls[k].rest # <<>>)'
  BY <1>1, <1>4, <1>5 DEF Ready
<1>7. \A k \in 1 .. Len(calls') : calls'[k].pending # None
  BY <1>1 DEF IInv, References
<1> QED  BY <1>1, <1>2, <1>3, <1>6, <1>7 DEF CallsOK, Waits

LEMMA CallsEnter ==
  ASSUME IInv, Grows, NEW op \in {"load", "replace"}, NEW bs \in Seq(Binary), Enter(op, bs)
  PROVE  CallsOK' /\ Waits
<1> PICK c : c = [op |-> op, rest |-> bs, pending |-> None]
  OBVIOUS
<1>1. c \in CallType /\ c.pending = None
  BY DEF CallType
<1>2. calls' = Append(calls, c) /\ calls \in Seq(CallType) /\ HostRuns
  BY DEF Enter, IInv, TypeOK
<1>3. /\ calls' \in Seq(CallType) /\ Len(calls') = Len(calls) + 1 /\ calls'[Len(calls) + 1] = c
      /\ \A k \in 1 .. Len(calls) : calls'[k] = calls[k]
  BY <1>1, <1>2
<1>4. \A k \in 1 .. Len(calls') : k \in 1 .. Len(calls) \/ calls'[k].pending = None
  <2>1. \A k \in 1 .. Len(calls') : k \in 1 .. Len(calls) \/ k = Len(calls) + 1
    BY <1>2, <1>3
  <2> QED  BY <1>1, <1>3, <2>1
<1>5. \A k \in 1 .. Len(calls) : calls[k].pending # None
  <2> SUFFICES ASSUME NEW k \in 1 .. Len(calls) PROVE calls[k].pending # None
    OBVIOUS
  <2>1. CASE k = Len(calls)
    BY <1>2, <2>1 DEF HostRuns, InitializerRuns, Active
  <2>2. CASE k # Len(calls)
    <3>1. k \in 1 .. Len(calls) - 1
      BY <2>2, Indices
    <3> QED  BY <3>1 DEF IInv, References
  <2> QED  BY <2>1, <2>2
<1>6. \A k \in 1 .. Len(calls') - 1 : calls'[k].pending # None
  <2>1. \A k \in 1 .. Len(calls') - 1 : k \in 1 .. Len(calls)
    BY <1>2, <1>3
  <2> QED  BY <1>3, <1>5, <2>1
<1>7. Waits
  BY <1>3, <1>4 DEF Waits
<1>8. \A k \in 1 .. Len(calls) : Ready(calls[k].pending) /\ calls[k].rest # <<>>
  BY <1>5 DEF IInv, References
<1>9. \A k \in 1 .. Len(calls) : Ready(calls[k].pending)'
  BY <1>3, <1>8, ReadyStays
<1>10. (\A k \in 1 .. Len(calls) :
          calls[k].pending # None => Ready(calls[k].pending) /\ calls[k].rest # <<>>)'
  BY <1>3, <1>4, <1>8, <1>9 DEF Ready
<1> QED  BY <1>3, <1>6, <1>7, <1>10 DEF CallsOK

LEMMA CallsContinue ==
  ASSUME IInv, Grows, calls # <<>>, NEW c \in CallType, calls' = WithActive(c),
         c.pending # None => Ready(c.pending)' /\ c.rest # <<>>
  PROVE  /\ CallsOK' /\ Len(calls') = Len(calls) /\ calls'[Len(calls)] = c
         /\ \A k \in 1 .. Len(calls) - 1 : calls'[k] = calls[k]
         /\ \A k \in 1 .. Len(calls) : k \in 1 .. Len(calls) - 1 \/ k = Len(calls)
<1> PICK n : n = Len(calls)
  OBVIOUS
<1>1. calls \in Seq(CallType) /\ n \in Nat /\ n \in 1 .. Len(calls) /\ calls' = [calls EXCEPT ![n] = c]
  BY LastCall DEF WithActive, IInv, TypeOK
<1>2. calls' \in Seq(CallType) /\ Len(calls') = n /\ \A k \in 1 .. n : calls'[k] = IF k = n THEN c ELSE calls[k]
  BY <1>1, ExceptSeq
<1>3. calls'[n] = c /\ \A k \in 1 .. n - 1 : k \in 1 .. n /\ calls'[k] = calls[k]
  BY <1>1, <1>2
<1>4. \A k \in 1 .. n : k \in 1 .. n - 1 \/ k = n
  BY <1>1
<1>5. \A k \in 1 .. n - 1 : calls[k].pending # None /\ Ready(calls[k].pending) /\ calls[k].rest # <<>>
  BY <1>3 DEF IInv, References
<1>6. \A k \in 1 .. n - 1 : Ready(calls[k].pending)'
  BY <1>3, <1>5, ReadyStays
<1> QED  BY <1>2, <1>3, <1>4, <1>5, <1>6 DEF CallsOK, Ready

-----------------------------------------------------------------------------
(* Steps that load nothing                                                 *)

TablesOK ==
  /\ objects \in Seq(ObjectType) /\ Len(objects) <= MaxObjects
  /\ registered \in Seq(Id) /\ IsInjective(registered)
  /\ stray \subseteq Name

Whole ==
  /\ TablesOK /\ RuntimeOK /\ ListOK /\ LoadedOK /\ CallsOK
  /\ PendingAreNewest /\ CachesAreCurrent /\ LoaderFollowsRuntime

LEMMA WholeIs == Whole => IInv
<1> SUFFICES ASSUME Whole PROVE IInv
  OBVIOUS
<1>1. \A k \in 1 .. Len(assemblies) : objects[assemblies[k]].stage = "ready"
  BY DEF Whole, ListOK, Ready
<1>2. TypeOK
  BY <1>1 DEF Whole, TablesOK, ListOK, LoadedOK, CallsOK, TypeOK
<1>3. References
  BY DEF Whole, ListOK, LoadedOK, CallsOK, References
<1> QED  BY <1>2, <1>3 DEF Whole, RuntimeOK, ListOK, IInv

LEMMA WholeNext == Whole' => IInv'
  BY WholeIs, PTL

LEMMA TablesStay ==
  ASSUME IInv, Grows, registered' = registered, stray' \subseteq Name
  PROVE  TablesOK'
  BY DEF IInv, TypeOK, TablesOK, Grows

\* Calls that end while they await an initializer leave a name to the runtime.
LEMMA QuietFollows ==
  ASSUME IInv, Grows, registered' = registered, loaded' = loaded, stray \subseteq stray', Waits,
         NEW N, stray' = stray \cup N,
         \A k \in 1 .. Len(calls) :
           calls[k].pending # None /\ objects[calls[k].pending].name \notin N =>
             k \in 1 .. Len(calls') /\ calls'[k].pending = calls[k].pending
  PROVE  PendingAreNewest' /\ LoaderFollowsRuntime'
<1>1. ASSUME NEW k \in 1 .. Len(calls'), NEW i, i = calls'[k].pending, i # None,
             objects'[i].name \notin stray'
      PROVE  i = Newest(registered, objects', objects'[i].name)
  <2>1. k \in 1 .. Len(calls) /\ calls[k].pending = i
    BY <1>1 DEF Waits
  <2>2. Ready(i)
    BY <1>1, <2>1 DEF IInv, References
  <2>3. objects'[i] = objects[i]
    BY <2>2, ReadyStays
  <2>4. i = Newest(registered, objects, objects[i].name)
    BY <1>1, <2>1, <2>3 DEF IInv, PendingAreNewest
  <2> QED  BY <2>3, <2>4, NewestGrown
<1>2. PendingAreNewest'
  BY <1>1 DEF PendingAreNewest
<1>3. ASSUME NEW n \in DOMAIN loaded \ stray'
      PROVE  \/ loaded[n].assembly = Newest(registered, objects', n)
             \/ \E k \in 1 .. Len(calls') : calls'[k].pending = Newest(registered, objects', n)
  <2> PICK x : x = Newest(registered, objects, n)
    OBVIOUS
  <2>1. x = Newest(registered, objects', n)
    BY NewestGrown
  <2>2. x # None /\ objects[x].name = n
    BY LoadedAreFound, Indices DEF LastBy, Named, None, Id
  <2>3. loaded[n].assembly = x \/ \E k \in 1 .. Len(calls) : calls[k].pending = x
    BY <1>3 DEF IInv, LoaderFollowsRuntime
  <2>4. ASSUME NEW k \in 1 .. Len(calls), calls[k].pending = x
        PROVE  k \in 1 .. Len(calls') /\ calls'[k].pending = x
    BY <1>3, <2>2, <2>4
  <2> QED  BY <2>1, <2>3, <2>4
<1>4. LoaderFollowsRuntime'
  BY <1>3 DEF LoaderFollowsRuntime
<1> QED  BY <1>2, <1>4

\* A call begins: Load, Reload and Replace.
LEMMA BeginsFollows ==
  ASSUME IInv, NEW op \in {"load", "replace"}, NEW bs \in Seq(Binary), Enter(op, bs),
         runtimeState' = runtimeState, loaded' = loaded, stray' = stray
  PROVE  /\ Grows /\ TablesOK' /\ RuntimeOK' /\ LoadedOK' /\ CallsOK'
         /\ PendingAreNewest' /\ LoaderFollowsRuntime'
<1>1. objects' = objects /\ registered' = registered /\ Grows
  BY SameGrows DEF runtimeState
<1>2. CallsOK' /\ Waits
  BY <1>1, CallsEnter
<1>3. \A k \in 1 .. Len(calls) : k \in 1 .. Len(calls') /\ calls'[k].pending = calls[k].pending
  <2>1. calls \in Seq(CallType) /\ calls' = Append(calls, [op |-> op, rest |-> bs, pending |-> None])
    BY DEF Enter, IInv, TypeOK
  <2> PICK c : c = [op |-> op, rest |-> bs, pending |-> None]
    OBVIOUS
  <2>2. Len(calls') = Len(calls) + 1 /\ Len(calls) \in Nat /\ \A k \in 1 .. Len(calls) : calls'[k] = calls[k]
    BY <2>1
  <2> QED  BY <2>2
<1>4. PendingAreNewest' /\ LoaderFollowsRuntime'
  <2>1. stray' = stray \cup {}
    OBVIOUS
  <2> QED  BY <1>1, <1>2, <1>3, <2>1, QuietFollows
<1>5. TablesOK'
  BY <1>1, TablesStay DEF IInv, TypeOK
<1> QED  BY <1>1, <1>2, <1>4, <1>5, RuntimeStays, LoadedStays

LEMMA BeginStep ==
  ASSUME IInv, NEW op \in {"load", "replace"}, NEW bs \in Seq(Binary), Enter(op, bs),
         UNCHANGED <<runtimeState, resolution, loaded, hotfix, stray>>
  PROVE  IInv'
<1>1. /\ Grows /\ TablesOK' /\ RuntimeOK' /\ LoadedOK' /\ CallsOK'
      /\ PendingAreNewest' /\ LoaderFollowsRuntime'
  BY BeginsFollows
<1>2. ListOK' /\ CachesAreCurrent'
  BY <1>1, ListStays, CachesStay DEF resolution
<1> QED  BY <1>1, <1>2, WholeNext DEF Whole

LEMMA ReloadStep ==
  ASSUME IInv, NEW bs \in Batches, ReloadHotUpdateAssemblies(bs)
  PROVE  IInv'
<1>1. bs \in Seq(Binary)
  BY LoaderAssumption
<1>2. /\ Enter("load", bs) /\ UNCHANGED <<runtimeState, loaded, stray>>
      /\ assemblies' = <<>> /\ hotfix' = Empty /\ typeCache' = Empty /\ methodCache' = Empty
  BY DEF ReloadHotUpdateAssemblies, ClearCaches
<1>3. /\ Grows /\ TablesOK' /\ RuntimeOK' /\ LoadedOK' /\ CallsOK'
      /\ PendingAreNewest' /\ LoaderFollowsRuntime'
  BY <1>1, <1>2, BeginsFollows
<1>4. DOMAIN hotfix' = {} /\ DOMAIN typeCache' = {} /\ DOMAIN methodCache' = {}
  BY <1>2 DEF Empty
<1>5. ListOK'
  BY <1>2, <1>4 DEF ListOK, HotfixStays
<1>6. CachesAreCurrent'
  BY <1>4 DEF CachesAreCurrent
<1> QED  BY <1>3, <1>5, <1>6, WholeNext DEF Whole

\* A call ends: it returns, refuses a binary, or is left by an exception.
LEMMA EndsFollows ==
  ASSUME IInv, Grows, calls # <<>>, calls' = Left, registered' = registered, loaded' = loaded,
         NEW N, stray' = stray \cup N, N \subseteq Name,
         Active.pending # None => objects[Active.pending].name \in N
  PROVE  TablesOK' /\ LoadedOK' /\ CallsOK' /\ PendingAreNewest' /\ LoaderFollowsRuntime'
<1>1. CallsOK' /\ Waits
  BY CallsShrink
<1>2. \A k \in 1 .. Len(calls) :
        calls[k].pending # None /\ objects[calls[k].pending].name \notin N =>
          k \in 1 .. Len(calls') /\ calls'[k].pending = calls[k].pending
  <2> SUFFICES ASSUME NEW k \in 1 .. Len(calls),
                      calls[k].pending # None, objects[calls[k].pending].name \notin N
               PROVE  k \in 1 .. Len(calls') /\ calls'[k].pending = calls[k].pending
    OBVIOUS
  <2>1. k # Len(calls)
    BY DEF Active
  <2>2. k \in 1 .. Len(calls) - 1
    BY <2>1, Indices
  <2> QED  BY <2>2, LastCall
<1>3. stray \subseteq stray' /\ stray' \subseteq Name
  BY DEF IInv, TypeOK
<1>4. PendingAreNewest' /\ LoaderFollowsRuntime'
  BY <1>1, <1>2, <1>3, QuietFollows
<1> QED  BY <1>1, <1>3, <1>4, TablesStay, LoadedStays

LEMMA EndStep ==
  ASSUME IInv, calls # <<>>, calls' = Left, UNCHANGED <<runtimeState, resolution, loaded, hotfix>>,
         NEW N, stray' = stray \cup N, N \subseteq Name,
         Active.pending # None => objects[Active.pending].name \in N
  PROVE  IInv'
<1>1. objects' = objects /\ registered' = registered /\ Grows
  BY SameGrows DEF runtimeState
<1>2. TablesOK' /\ LoadedOK' /\ CallsOK' /\ PendingAreNewest' /\ LoaderFollowsRuntime'
  BY <1>1, EndsFollows
<1>3. ListOK' /\ CachesAreCurrent'
  BY <1>1, ListStays, CachesStay DEF resolution
<1> QED  BY <1>2, <1>3, WholeNext, RuntimeStays DEF Whole

LEMMA RaisesStep == IInv /\ InitializerRaises => IInv'
<1> SUFFICES ASSUME IInv, InitializerRaises PROVE IInv'
  OBVIOUS
<1> PICK i : i = Active.pending
  OBVIOUS
<1>1. calls # <<>> /\ i # None
  BY DEF InitializerRaises, InitializerRuns
<1>2. Ready(i)
  BY <1>1, LastCall DEF IInv, References, Active
<1>3. objects[i].name \in Name
  BY <1>2, Indices DEF Ready, ObjectType
<1>4. {objects[i].name} \subseteq Name /\ objects[i].name \in {objects[i].name}
  BY <1>3
<1> QED  BY <1>1, <1>4, EndStep DEF InitializerRaises

LEMMA QuietEndStep == IInv /\ (Refuse \/ LoadReturns) => IInv'
<1> SUFFICES ASSUME IInv, Refuse \/ LoadReturns PROVE IInv'
  OBVIOUS
<1>1. /\ calls # <<>> /\ calls' = Left /\ Active.pending = None
      /\ UNCHANGED <<runtimeState, resolution, loaded, hotfix, stray>>
  BY DEF Refuse, LoadReturns, Loads
<1>2. stray' = stray \cup {} /\ {} \subseteq Name
  BY <1>1
<1> QED  BY <1>1, <1>2, EndStep

-----------------------------------------------------------------------------
(* An assembly is built                                                    *)

LEMMA ObjectsBuilt ==
  ASSUME IInv, NEW i, NEW b \in Binary, NEW stage \in {"half", "ready"}, Builds(i, b, stage)
  PROVE  Objects'
<1>1. Len(objects) \in Nat /\ Len(objects') \in Nat /\ Len(Placeholders) \in Nat
  BY Indices, LoaderAssumption DEF Builds
<1>2. Len(Placeholders) <= Len(objects')
  BY <1>1 DEF IInv, Objects, Builds
<1>3. objects'[i].stage = stage /\ objects'[i].bytes = b /\ objects'[i].name = NameOf[b]
  BY DEF Builds
<1>4. ASSUME NEW j \in 1 .. Len(objects'), objects'[j].stage = "placeholder"
      PROVE  /\ j <= Len(Placeholders)
             /\ \A k \in 1 .. Len(objects') : objects'[k].name = objects'[j].name => k = j
  <2>1. j # i /\ objects'[j].name # NameOf[b]
    BY <1>3, <1>4 DEF Builds
  <2>2. j \in 1 .. Len(objects) /\ objects'[j] = objects[j]
    BY <2>1 DEF Builds
  <2>3. /\ j <= Len(Placeholders)
        /\ \A k \in 1 .. Len(objects) : objects[k].name = objects[j].name => k = j
    BY <1>4, <2>2 DEF IInv, Objects
  <2>4. ASSUME NEW k \in 1 .. Len(objects'), objects'[k].name = objects'[j].name PROVE k = j
    <3>1. k # i
      BY <1>3, <2>1, <2>4
    <3>2. k \in 1 .. Len(objects) /\ objects'[k] = objects[k]
      BY <3>1 DEF Builds
    <3> QED  BY <2>2, <2>3, <2>4, <3>2
  <2> QED  BY <2>3, <2>4
<1>5. ASSUME NEW j \in 1 .. Len(objects'), objects'[j].stage # "placeholder"
      PROVE  objects'[j].bytes \in Binary /\ objects'[j].name = NameOf[objects'[j].bytes]
  <2>1. CASE j = i
    BY <1>3, <2>1
  <2>2. CASE j # i
    <3>1. j \in 1 .. Len(objects) /\ objects'[j] = objects[j]
      BY <2>2 DEF Builds
    <3> QED  BY <1>5, <3>1 DEF IInv, Objects
  <2> QED  BY <2>1, <2>2
<1> QED  BY <1>2, <1>4, <1>5 DEF Objects

LEMMA RaisesRegistry ==
  ASSUME IInv, NEW i, NEW b \in Binary, Builds(i, b, "half"), registered' = registered
  PROVE  Registry'
<1>1. Grows /\ objects'[i].stage = "half"
  BY BuildsGrows DEF Builds
<1>2. Len(Placeholders) <= Len(objects) /\ Len(Placeholders) \in Nat
  BY LoaderAssumption DEF IInv, Objects
<1>3. ASSUME NEW j \in 1 .. Len(objects'), j <= Len(Placeholders) \/ Ready(j)'
      PROVE  Contains(registered, j)
  <2>1. CASE j <= Len(Placeholders)
    <3>1. j \in 1 .. Len(objects)
      BY <1>1, <1>2, <2>1 DEF Grows
    <3> QED  BY <2>1, <3>1 DEF IInv, Registry
  <2>2. CASE Ready(j)'
    <3>1. j # i
      BY <1>1, <2>2 DEF Ready
    <3>2. j \in 1 .. Len(objects) /\ objects'[j] = objects[j]
      BY <3>1 DEF Builds
    <3>3. Ready(j)
      BY <2>2, <3>2 DEF Ready
    <3> QED  BY <3>2, <3>3 DEF IInv, Registry
  <2> QED  BY <1>3, <2>1, <2>2
<1>4. ASSUME NEW k \in 1 .. Len(registered), NEW j, j = registered[k]
      PROVE  Known(j)' /\ (j <= Len(Placeholders) \/ Ready(j)')
  <2>1. Known(j) /\ (j <= Len(Placeholders) \/ Ready(j))
    BY <1>4 DEF IInv, Registry
  <2>2. Known(j)'
    BY <1>1, <2>1 DEF Known, Grows
  <2> QED  BY <1>1, <2>1, <2>2, ReadyStays
<1>5. \A k \in 1 .. Len(registered) :
        registered[k] \in 1 .. Len(objects')
        /\ (registered[k] <= Len(Placeholders) \/ (registered[k] \in 1 .. Len(objects') /\ objects'[registered[k]].stage = "ready"))
  BY <1>4 DEF Ready, Known
<1> QED  BY <1>3, <1>5 DEF Registry, Known, Ready

LEMMA CreateRaisesStep == IInv /\ CreateRaises => IInv'
<1> SUFFICES ASSUME IInv, CreateRaises PROVE IInv'
  OBVIOUS
<1> PICK b : b = Head(Active.rest)
  OBVIOUS
<1> PICK i : i = Built(NameOf[b])
  OBVIOUS
<1>1. /\ calls # <<>> /\ Active.pending = None /\ Active.rest # <<>> /\ calls' = Left
      /\ BuildObject(b, "half") /\ i <= MaxObjects
      /\ UNCHANGED <<registered, resolution, loaded, hotfix, stray>>
  BY DEF CreateRaises, Loads
<1>2. b \in Binary
  <2>1. Active.rest \in Seq(Binary)
    BY <1>1, LastCall DEF CallType
  <2> QED  BY <1>1, <2>1
<1>3. Builds(i, b, "half")
  <2>1. "half" \in {"half", "ready"}
    OBVIOUS
  <2> QED  BY <1>1, <1>2, <2>1, Building
<1>4. Grows /\ Objects' /\ Registry'
  BY <1>1, <1>2, <1>3, BuildsGrows, ObjectsBuilt, RaisesRegistry
<1> PICK N : N = {}
  OBVIOUS
<1>5. stray' = stray \cup N /\ N \subseteq Name
  BY <1>1
<1>6. TablesOK' /\ LoadedOK' /\ CallsOK' /\ PendingAreNewest' /\ LoaderFollowsRuntime'
  <2>1. Active.pending # None => objects[Active.pending].name \in N
    BY <1>1
  <2>2. registered' = registered /\ loaded' = loaded
    BY <1>1
  <2> QED  BY <1>1, <1>4, <1>5, <2>1, <2>2, EndsFollows
<1>7. ListOK' /\ CachesAreCurrent'
  BY <1>1, <1>4, ListStays, CachesStay DEF resolution
<1> QED  BY <1>4, <1>6, <1>7, WholeNext DEF Whole, RuntimeOK

\* What is registered after Create.
LEMMA RegisteredIs ==
  ASSUME IInv, NEW i, NEW b \in Binary, Builds(i, b, "ready"), registered' = Registered(i)
  PROVE  /\ Contains(registered', i) /\ \A j : Contains(registered, j) => Contains(registered', j)
         /\ \A k \in 1 .. Len(registered') :
              registered'[k] = i \/ \E l \in 1 .. Len(registered) : registered'[k] = registered[l]
         /\ registered' \in Seq(Id) /\ IsInjective(registered')
         /\ \A n : Newest(registered', objects', n) =
                     IF n = NameOf[b] THEN i ELSE Newest(registered, objects, n)
<1>1. /\ registered \in Seq(Id) /\ registered \in Seq(Nat) /\ IsInjective(registered) /\ i \in Id /\ i \in Nat
      /\ Len(registered) \in Nat /\ Grows /\ objects'[i].name = NameOf[b]
  <2>1. i \in Id /\ i \in Nat /\ objects'[i].name = NameOf[b]
    BY DEF Builds, Id
  <2>2. registered \in Seq(Id) /\ registered \in Seq(Nat) /\ IsInjective(registered)
    BY Indices DEF IInv, TypeOK
  <2> QED  BY <2>1, <2>2, BuildsGrows
<1>2. CASE Contains(registered, i)
  <2>1. registered' = registered
    BY <1>2 DEF Registered
  <2>2. PICK k \in 1 .. Len(registered) : registered[k] = i
    BY <1>2 DEF Contains
  <2>3. i \in 1 .. Len(objects)
    BY <2>2, Indices
  <2>4. \A j \in 1 .. Len(objects) : objects[j].name = NameOf[b] => j = i
    <3>1. objects[i].stage = "placeholder" /\ objects[i].name = NameOf[b]
      BY <1>1, <2>3 DEF Builds
    <3> QED  BY <2>3, <3>1 DEF IInv, Objects
  <2>5. LastBy(registered, objects', NameOf[b], i)
    <3>1. ASSUME NEW l \in k + 1 .. Len(registered) PROVE ~ Named(objects', registered[l], NameOf[b])
      <4>1. l \in 1 .. Len(registered) /\ l # k
        BY <2>2
      <4>2. registered[l] # i
        BY <1>1, <2>2, <4>1 DEF IsInjective
      <4>3. registered[l] \in 1 .. Len(objects)
        BY <4>1, Indices
      <4>4. objects[registered[l]].name # NameOf[b]
        BY <2>4, <4>2, <4>3
      <4> QED  BY <1>1, <4>3, <4>4 DEF Named, Grows
    <3> QED  BY <1>1, <2>2, <3>1 DEF LastBy, Named
  <2>6. Newest(registered, objects', NameOf[b]) = i
    BY <1>1, <2>5, LastIsUnique
  <2>7. \A n : Newest(registered, objects', n) = Newest(registered, objects, n)
    BY <1>1, NewestGrown
  <2> QED  BY <1>1, <1>2, <2>1, <2>6, <2>7
<1>3. CASE ~ Contains(registered, i)
  <2> PICK n \in Nat : n = Len(registered)
    BY <1>1
  <2>1. registered' = Append(registered, i)
    BY <1>3 DEF Registered
  <2>2. /\ Len(registered') = n + 1 /\ registered'[n + 1] = i /\ \A k \in 1 .. n : registered'[k] = registered[k]
        /\ registered' \in Seq(Id)
    BY <1>1, <2>1
  <2>3. \A k \in 1 .. n + 1 : k \in 1 .. n \/ k = n + 1
    OBVIOUS
  <2>4. \A k \in 1 .. n : registered[k] # i
    BY <1>3 DEF Contains
  <2>5. IsInjective(registered')
    <3>1. ASSUME NEW k \in 1 .. n + 1, NEW l \in 1 .. n + 1, registered'[k] = registered'[l] PROVE k = l
      <4>1. CASE k = n + 1 \/ l = n + 1
        BY <2>2, <2>3, <2>4, <3>1, <4>1
      <4>2. CASE k \in 1 .. n /\ l \in 1 .. n
        BY <1>1, <2>2, <3>1, <4>2 DEF IsInjective
      <4> QED  BY <2>3, <4>1, <4>2
    <3> QED  BY <2>2, <3>1 DEF IsInjective
  <2>6. Contains(registered', i)
    BY <2>2 DEF Contains
  <2>7. ASSUME NEW j, Contains(registered, j) PROVE Contains(registered', j)
    <3>1. PICK k \in 1 .. n : registered[k] = j
      BY <2>7 DEF Contains
    <3>2. k \in 1 .. n + 1
      OBVIOUS
    <3> QED  BY <2>2, <3>1, <3>2 DEF Contains
  <2>8. ASSUME NEW m
        PROVE  Newest(registered', objects', m) = IF m = NameOf[b] THEN i ELSE Newest(registered, objects, m)
    <3>1. Newest(registered', objects', m) = IF objects'[i].name = m THEN i ELSE Newest(registered, objects', m)
      BY <1>1, <2>1, NewestAppended
    <3> QED  BY <1>1, <3>1, NewestGrown
  <2> QED  BY <2>2, <2>3, <2>5, <2>6, <2>7, <2>8
<1> QED  BY <1>2, <1>3

LEMMA CreatesRegistry ==
  ASSUME IInv, NEW i, NEW b \in Binary, Builds(i, b, "ready"), registered' = Registered(i)
  PROVE  Registry'
<1>1. Grows /\ Ready(i)' /\ i \in Nat
  BY BuildsGrows DEF Builds, Ready, Id
<1>2. Len(Placeholders) <= Len(objects) /\ Len(Placeholders) \in Nat
  BY LoaderAssumption DEF IInv, Objects
<1>3. ASSUME NEW j \in 1 .. Len(objects'), j <= Len(Placeholders) \/ Ready(j)'
      PROVE  Contains(registered', j)
  <2>1. CASE j = i
    BY <2>1, RegisteredIs
  <2>2. CASE j # i
    <3>1. j \in 1 .. Len(objects) /\ objects'[j] = objects[j]
      BY <2>2 DEF Builds
    <3>2. j <= Len(Placeholders) \/ Ready(j)
      BY <1>3, <3>1 DEF Ready
    <3>3. Contains(registered, j)
      BY <3>1, <3>2 DEF IInv, Registry
    <3> QED  BY <3>3, RegisteredIs
  <2> QED  BY <2>1, <2>2
<1>4. ASSUME NEW k \in 1 .. Len(registered'), NEW j, j = registered'[k]
      PROVE  j \in 1 .. Len(objects') /\ (j <= Len(Placeholders) \/ objects'[j].stage = "ready")
  <2>1. CASE j = i
    BY <1>1, <2>1 DEF Ready
  <2>2. CASE j # i
    <3>1. PICK l \in 1 .. Len(registered) : j = registered[l]
      BY <1>4, <2>2, RegisteredIs
    <3>2. Known(j) /\ (j <= Len(Placeholders) \/ Ready(j))
      BY <3>1 DEF IInv, Registry
    <3>3. j \in 1 .. Len(objects')
      BY <1>1, <3>2 DEF Known, Grows
    <3>4. Ready(j) => objects'[j].stage = "ready"
      BY <1>1, ReadyStays DEF Ready
    <3> QED  BY <3>2, <3>3, <3>4
  <2> QED  BY <2>1, <2>2
<1> QED  BY <1>3, <1>4 DEF Registry, Known, Ready

LEMMA CreateStep == IInv /\ Create => IInv'
<1> SUFFICES ASSUME IInv, Create PROVE IInv'
  OBVIOUS
<1> PICK b : b = Head(Active.rest)
  OBVIOUS
<1> PICK i : i = Built(NameOf[b])
  OBVIOUS
<1> PICK c : c = [Active EXCEPT !.pending = i]
  OBVIOUS
<1> PICK n : n = Len(calls)
  OBVIOUS
<1> PICK N : N = {m \in {NameOf[b]} : \E k \in 1 .. n - 1 : objects[calls[k].pending].name = m}
  OBVIOUS
<1>1. /\ calls # <<>> /\ Active.pending = None /\ Active.rest # <<>> /\ calls' = WithActive(c)
      /\ BuildObject(b, "ready") /\ i <= MaxObjects /\ registered' = Registered(i)
      /\ stray' = stray \cup N
      /\ UNCHANGED <<resolution, loaded, hotfix>>
  BY DEF Create, Loads
<1>2. Active \in CallType /\ Active.rest \in Seq(Binary) /\ b \in Binary
  <2>1. Active \in CallType /\ Active.rest \in Seq(Binary)
    BY <1>1, LastCall DEF CallType
  <2> QED  BY <1>1, <2>1
<1>3. Builds(i, b, "ready")
  <2>1. "ready" \in {"half", "ready"}
    OBVIOUS
  <2> QED  BY <1>1, <1>2, <2>1, Building
<1>4. Grows /\ Objects' /\ Registry' /\ Ready(i)' /\ i \in Id /\ objects'[i].name = NameOf[b]
  <2>1. Ready(i)' /\ i \in Id /\ objects'[i].name = NameOf[b]
    BY <1>3 DEF Builds, Ready, Id
  <2>2. "ready" \in {"half", "ready"}
    OBVIOUS
  <2> QED  BY <1>1, <1>2, <1>3, <2>1, <2>2, BuildsGrows, ObjectsBuilt, CreatesRegistry
<1>5. c \in CallType /\ c.pending = i /\ c.rest # <<>>
  BY <1>1, <1>2, <1>4 DEF CallType
<1>6. /\ CallsOK' /\ Len(calls') = n /\ calls'[n] = c /\ n \in 1 .. n
      /\ \A k \in 1 .. n - 1 : k \in 1 .. n /\ calls'[k] = calls[k]
      /\ \A k \in 1 .. n : k \in 1 .. n - 1 \/ k = n
  <2>1. /\ CallsOK' /\ Len(calls') = n /\ calls'[n] = c
        /\ \A k \in 1 .. n - 1 : calls'[k] = calls[k]
        /\ \A k \in 1 .. n : k \in 1 .. n - 1 \/ k = n
    BY <1>1, <1>4, <1>5, CallsContinue
  <2>2. n \in 1 .. n /\ \A k \in 1 .. n - 1 : k \in 1 .. n
    BY <1>1, LastCall
  <2> QED  BY <2>1, <2>2
<1>7. N \subseteq Name /\ stray' \subseteq Name /\ stray \subseteq stray'
  BY <1>1, <1>2, LoaderAssumption DEF IInv, TypeOK
<1>8. /\ registered' \in Seq(Id) /\ IsInjective(registered')
      /\ \A m : Newest(registered', objects', m) = IF m = NameOf[b] THEN i ELSE Newest(registered, objects, m)
  BY <1>1, <1>2, <1>3, RegisteredIs
<1>9. TablesOK'
  BY <1>4, <1>7, <1>8 DEF TablesOK, Grows
<1>10. ASSUME NEW k \in 1 .. n, NEW j, j = calls'[k].pending, j # None, objects'[j].name \notin stray'
       PROVE  j = Newest(registered', objects', objects'[j].name)
  <2>1. CASE k = n
    BY <1>4, <1>5, <1>6, <1>8, <1>10, <2>1
  <2>2. CASE k # n
    <3>1. k \in 1 .. n - 1 /\ calls[k].pending = j
      BY <1>6, <1>10, <2>2
    <3>2. Ready(j)
      BY <1>6, <1>10, <3>1 DEF IInv, References
    <3>3. objects'[j] = objects[j]
      BY <1>4, <3>2, ReadyStays
    <3>4. objects[j].name # NameOf[b]
      BY <1>1, <1>10, <3>1, <3>3
    <3>5. j = Newest(registered, objects, objects[j].name)
      BY <1>1, <1>10, <3>1, <3>3 DEF IInv, PendingAreNewest
    <3> QED  BY <1>8, <3>3, <3>4, <3>5
  <2> QED  BY <2>1, <2>2
<1>11. PendingAreNewest'
  BY <1>6, <1>10 DEF PendingAreNewest
<1>12. ASSUME NEW m \in DOMAIN loaded, m \notin stray'
       PROVE  \/ loaded[m].assembly = Newest(registered', objects', m)
              \/ \E k \in 1 .. n : calls'[k].pending = Newest(registered', objects', m)
  <2>1. CASE m = NameOf[b]
    BY <1>5, <1>6, <1>8, <2>1
  <2>2. CASE m # NameOf[b]
    <3> PICK x : x = Newest(registered, objects, m)
      OBVIOUS
    <3>1. x = Newest(registered', objects', m)
      BY <1>8, <2>2
    <3>2. x # None
      BY LoadedAreFound DEF None, Id
    <3>3. loaded[m].assembly = x \/ \E k \in 1 .. n : calls[k].pending = x
      BY <1>7, <1>12 DEF IInv, LoaderFollowsRuntime
    <3>4. ASSUME NEW k \in 1 .. n, calls[k].pending = x PROVE calls'[k].pending = x
      <4>1. k # n
        BY <1>1, <3>2, <3>4 DEF Active
      <4> QED  BY <1>6, <3>4, <4>1
    <3> QED  BY <3>1, <3>3, <3>4
  <2> QED  BY <2>1, <2>2
<1>13. LoaderFollowsRuntime'
  BY <1>1, <1>6, <1>12 DEF LoaderFollowsRuntime
<1>14. ListOK' /\ CachesAreCurrent' /\ LoadedOK'
  BY <1>1, <1>4, ListStays, CachesStay, LoadedStays DEF resolution
<1> QED  BY <1>4, <1>6, <1>9, <1>11, <1>13, <1>14, WholeNext DEF Whole, RuntimeOK

-----------------------------------------------------------------------------
(* A static call                                                           *)

LEMMA InvokeStep == ASSUME IInv, NEW t \in TypeName, InvokeStatic(t) PROVE IInv'
<1> PICK x : x = Resolve(t)
  OBVIOUS
<1> PICK f, g : f = typeCache /\ g = methodCache
  OBVIOUS
<1> PICK f2, g2 : f2 = typeCache' /\ g2 = methodCache'
  OBVIOUS
<1>1. /\ Grows /\ objects' = objects /\ assemblies' = assemblies /\ assemblies \in Seq(Nat)
      /\ f2 = Cached(f, t, x) /\ g2 = Cached(g, t, f2[t])
      /\ UNCHANGED <<runtimeState, assemblies, loaded, calls, hotfix, stray>>
  BY SameGrows, Indices DEF InvokeStatic, runtimeState
<1>2. ASSUME NEW u PROVE Resolve(u)' = Resolve(u)
  BY <1>1, ResolveStays
<1>3. t \in DOMAIN f2 /\ \A u \in DOMAIN f2 : f2[u] = Resolve(u)
  <2>1. \A u \in DOMAIN f : f[u] = Resolve(u)
    BY DEF IInv, CachesAreCurrent
  <2>2. CASE t \in DOMAIN f
    BY <1>1, <2>1, <2>2 DEF Cached
  <2>3. CASE t \notin DOMAIN f
    BY <1>1, <2>1, <2>3 DEF Cached, Put
  <2> QED  BY <2>2, <2>3
<1>4. g2 = Cached(g, t, x)
  BY <1>1, <1>3
<1>5. \A u \in DOMAIN g2 : g2[u] = Resolve(u)
  <2>1. \A u \in DOMAIN g : g[u] = Resolve(u)
    BY DEF IInv, CachesAreCurrent
  <2>2. CASE t \in DOMAIN g
    BY <1>4, <2>1, <2>2 DEF Cached
  <2>3. CASE t \notin DOMAIN g
    BY <1>4, <2>1, <2>3 DEF Cached, Put
  <2> QED  BY <2>2, <2>3
<1>6. CachesAreCurrent'
  BY <1>2, <1>3, <1>5 DEF CachesAreCurrent
<1>7. TablesOK' /\ ListOK' /\ LoadedOK' /\ RuntimeOK'
  <2>1. registered' = registered /\ stray' \subseteq Name
    BY <1>1 DEF runtimeState, IInv, TypeOK
  <2> QED  BY <1>1, <2>1, TablesStay, ListStays, LoadedStays, RuntimeStays
<1>8. CallsOK' /\ Waits
  <2>1. \A k \in 1 .. Len(calls) : Ready(calls[k].pending)' <=> Ready(calls[k].pending)
    BY <1>1 DEF Ready
  <2> QED  BY <1>1, <2>1 DEF CallsOK, Waits, IInv, TypeOK, References
<1>9. PendingAreNewest' /\ LoaderFollowsRuntime'
  BY <1>1 DEF runtimeState, IInv, PendingAreNewest, LoaderFollowsRuntime
<1> QED  BY <1>6, <1>7, <1>8, <1>9, WholeNext DEF Whole

-----------------------------------------------------------------------------
(* The loader takes an assembly into its list                              *)

LEMMA ListLoaded ==
  ASSUME IInv, Grows, objects' = objects, NEW i, Ready(i), assemblies' = Listed(i), hotfix' = hotfix
  PROVE  ListOK'
<1> PICK n \in Nat : n = Len(assemblies)
  BY Indices
<1>1. i \in Id /\ i \in Nat /\ assemblies \in Seq(Id) /\ assemblies \in Seq(Nat) /\ assemblies' = Append(assemblies, i)
  BY Indices DEF Ready, Listed, IInv, TypeOK, Id
<1>2. /\ assemblies' \in Seq(Id) /\ assemblies' \in Seq(Nat) /\ Len(assemblies') = n + 1
      /\ assemblies'[n + 1] = i /\ \A k \in 1 .. n : assemblies'[k] = assemblies[k]
  BY <1>1
<1>3. ASSUME NEW k \in 1 .. n + 1 PROVE Ready(assemblies'[k])
  <2>1. CASE k = n + 1
    BY <1>2, <2>1
  <2>2. CASE k # n + 1
    BY <1>2, <2>2 DEF IInv, References
  <2> QED  BY <2>1, <2>2
<1>4. HotfixIsFirst
  BY HotfixIs, Indices DEF IInv
<1>5. HotfixIsFirst'
  <2> SUFFICES ASSUME NEW m \in DOMAIN hotfix PROVE FirstBy(assemblies', objects, m, hotfix[m])
    BY DEF HotfixIsFirst
  <2>1. FirstBy(assemblies, objects, m, hotfix[m])
    BY <1>4 DEF HotfixIsFirst
  <2> QED  BY <1>1, <2>1, FirstAppended
<1>6. HotfixStays'
  <2>1. (assemblies \in Seq(Nat) => (HotfixStays <=> HotfixIsFirst))'
    BY HotfixIs, PTL
  <2> QED  BY <1>2, <1>5, <2>1
<1> QED  BY <1>2, <1>3, <1>6 DEF ListOK, Ready, IInv, TypeOK

LEMMA ListReplaced ==
  ASSUME IInv, Grows, objects' = objects, NEW i, Ready(i), assemblies' = Replaced(i),
         NEW n \in Name, objects[i].name = n, hotfix' = Put(hotfix, n, i)
  PROVE  ListOK'
<1> PICK S : S = {j \in 1 .. Len(objects) : objects[j].name # n}
  OBVIOUS
<1> PICK as : as = assemblies
  OBVIOUS
<1> PICK r : r = Kept(as, S)
  OBVIOUS
<1> PICK s : s = <<i>> \o r
  OBVIOUS
<1>1. /\ i \in Id /\ i \in Nat /\ as \in Seq(Id) /\ as \in Seq(Nat)
      /\ assemblies' = s
  BY Indices DEF Ready, Replaced, IInv, TypeOK, Id
<1>2. r \in Seq(Nat) /\ \A q \in 1 .. Len(r) : \E k \in 1 .. Len(as) : r[q] = as[k]
  <2>1. as \in Seq(Nat)
    BY <1>1
  <2>2. r \in Seq(Nat) /\ \E e : Picks(e, as, S, r)
    BY <2>1, KeptFollows
  <2>3. ASSUME NEW q \in 1 .. Len(r), NEW e, Picks(e, as, S, r)
        PROVE  \E k \in 1 .. Len(as) : r[q] = as[k]
    <3>1. e[q] \in 1 .. Len(as) /\ r[q] = as[e[q]]
      BY <2>3 DEF Picks
    <3> QED  BY <3>1
  <2> QED  BY <2>2, <2>3
<1>3. r \in Seq(Id) /\ \A q \in 1 .. Len(r) : Ready(r[q])
  <2>1. ASSUME NEW q \in 1 .. Len(r) PROVE r[q] \in Id /\ Ready(r[q])
    <3>1. PICK k \in 1 .. Len(as) : r[q] = as[k]
      BY <1>2
    <3>2. as[k] \in Id
      BY <1>1
    <3> QED  BY <3>1, <3>2 DEF IInv, References
  <2>2. ASSUME NEW T, \A q \in 1 .. Len(r) : r[q] \in T PROVE r \in Seq(T)
    BY <1>2, <2>2
  <2> QED  BY <2>1, <2>2
<1>4. /\ s \in Seq(Id) /\ s \in Seq(Nat) /\ Len(s) = Len(r) + 1 /\ Len(r) \in Nat
      /\ s[1] = i /\ \A q \in 1 .. Len(r) : s[q + 1] = r[q]
  BY <1>1, <1>2, <1>3
<1>5. ASSUME NEW k \in 1 .. Len(s) PROVE Ready(s[k])
  <2>1. CASE k = 1
    BY <1>4, <2>1
  <2>2. CASE k # 1
    <3>1. k - 1 \in 1 .. Len(r) /\ k = (k - 1) + 1
      BY <1>4, <2>2
    <3>2. s[k] = r[k - 1]
      BY <1>4, <3>1
    <3> QED  BY <1>3, <3>1, <3>2
  <2> QED  BY <2>1, <2>2
<1>6. HotfixIsFirst
  BY HotfixIs, Indices DEF IInv
<1> PICK h, h2 : h = hotfix /\ h2 = hotfix'
  OBVIOUS
<1>7. DOMAIN h2 = DOMAIN h \cup {n} /\ h2[n] = i /\ \A m \in DOMAIN h \ {n} : h2[m] = h[m]
  <2>1. h2 = Put(h, n, i)
    OBVIOUS
  <2> QED  BY <2>1 DEF Put
<1>8. ASSUME NEW m \in DOMAIN h2 PROVE FirstBy(s, objects, m, h2[m])
  <2>1. CASE m = n
    <3>1. FirstBy(<<i>> \o r, objects, n, i)
      BY <1>1, <1>2, FirstInFront
    <3> QED  BY <1>7, <2>1, <3>1
  <2>2. CASE m # n
    <3>1. FirstBy(as, objects, m, h2[m])
      BY <1>6, <1>7, <1>8, <2>2 DEF HotfixIsFirst
    <3>2. \A k \in 1 .. Len(as) : objects[as[k]].name = m => as[k] \in S
      BY Indices, <2>2
    <3>3. objects[i].name # m
      BY <2>2
    <3>4. FirstBy(<<i>> \o Kept(as, S), objects, m, h2[m])
      BY <1>1, <3>1, <3>2, <3>3, FirstKept
    <3> QED  BY <3>4
  <2> QED  BY <2>1, <2>2
<1>9. HotfixStays'
  <2>1. (assemblies \in Seq(Nat) => (HotfixStays <=> HotfixIsFirst))'
    BY HotfixIs, PTL
  <2>2. HotfixIsFirst'
    BY <1>1, <1>8 DEF HotfixIsFirst
  <2> QED  BY <1>1, <1>4, <2>1, <2>2
<1>10. DOMAIN hotfix' \subseteq Name
  BY <1>7 DEF IInv, TypeOK
<1> QED  BY <1>1, <1>4, <1>5, <1>9, <1>10 DEF ListOK, Ready

LEMMA AcceptStep ==
  ASSUME IInv, NEW b \in Binary, NEW i, calls # <<>>, Ready(i),
         objects[i] = [name |-> NameOf[b], bytes |-> b, stage |-> "ready"],
         Active.rest # <<>>, Active.pending \in {None, i},
         runtimeState' = runtimeState, stray' = stray, Accept(i, b),
         NameOf[b] \notin stray =>
            \/ i = Newest(registered, objects, NameOf[b])
            \/ \E k \in 1 .. Len(calls) - 1 : calls[k].pending = Newest(registered, objects, NameOf[b])
  PROVE  IInv'
<1> PICK m : m = NameOf[b]
  OBVIOUS
<1>1. Grows /\ objects' = objects /\ registered' = registered /\ i \in Id /\ m \in Name /\ objects[i].name = m
  <2>1. objects[i].name = m
    OBVIOUS
  <2> QED  BY <2>1, SameGrows, Indices, LoaderAssumption DEF runtimeState, Ready
<1>2. TablesOK' /\ RuntimeOK'
  BY <1>1, TablesStay, RuntimeStays DEF IInv, TypeOK
<1>3. CachesAreCurrent'
  <2>1. typeCache' = Empty /\ methodCache' = Empty
    BY DEF Accept, ClearCaches
  <2>2. DOMAIN typeCache' = {} /\ DOMAIN methodCache' = {}
    BY <2>1 DEF Empty
  <2> QED  BY <2>2 DEF CachesAreCurrent
<1>4. ListOK'
  <2>1. CASE Active.op = "replace"
    <3>1. assemblies' = Replaced(i) /\ hotfix' = Put(hotfix, m, i)
      BY <2>1 DEF Accept
    <3> QED  BY <1>1, <3>1, ListReplaced
  <2>2. CASE Active.op # "replace"
    <3>1. assemblies' = Listed(i) /\ hotfix' = hotfix
      BY <2>2 DEF Accept
    <3> QED  BY <1>1, <3>1, ListLoaded
  <2> QED  BY <2>1, <2>2
<1>5. /\ CallsOK'
      /\ \A k \in 1 .. Len(calls) - 1 : k \in 1 .. Len(calls') /\ calls'[k] = calls[k]
      /\ \A k \in 1 .. Len(calls') : calls'[k].pending # None => k \in 1 .. Len(calls) - 1
  <2>1. CASE Active.op = "replace"
    <3>1. calls' = Left
      BY <2>1 DEF Accept
    <3>2. Len(calls') = Len(calls) - 1 /\ \A k \in 1 .. Len(calls) - 1 : calls'[k] = calls[k]
      BY <3>1, LastCall
    <3> QED  BY <1>1, <3>1, <3>2, CallsShrink
  <2>2. CASE Active.op # "replace"
    <3> PICK a : a = Active
      OBVIOUS
    <3> PICK c : c = [a EXCEPT !.rest = Tail(@), !.pending = None]
      OBVIOUS
    <3>1. calls' = WithActive(c)
      BY <2>2 DEF Accept
    <3>2. a \in CallType /\ a.rest \in Seq(Binary) /\ a.rest # <<>>
      BY LastCall DEF CallType
    <3>3. Tail(a.rest) \in Seq(Binary)
      BY <3>2
    <3>4. c \in CallType /\ c.pending = None
      BY <3>2, <3>3 DEF CallType
    <3>5. /\ CallsOK' /\ Len(calls') = Len(calls) /\ calls'[Len(calls)] = c
          /\ \A k \in 1 .. Len(calls) - 1 : calls'[k] = calls[k]
          /\ \A k \in 1 .. Len(calls) : k \in 1 .. Len(calls) - 1 \/ k = Len(calls)
      BY <1>1, <3>1, <3>4, CallsContinue
    <3>6. \A k \in 1 .. Len(calls) - 1 : k \in 1 .. Len(calls)
      BY Indices
    <3> QED  BY <3>4, <3>5, <3>6
  <2> QED  BY <2>1, <2>2
<1>6. PendingAreNewest'
  <2> SUFFICES ASSUME NEW k \in 1 .. Len(calls'), NEW j, j = calls'[k].pending, j # None,
                      objects[j].name \notin stray
               PROVE  j = Newest(registered, objects, objects[j].name)
    BY <1>1 DEF PendingAreNewest
  <2>1. k \in 1 .. Len(calls) - 1 /\ calls[k].pending = j
    BY <1>5
  <2>2. k \in 1 .. Len(calls)
    BY <2>1, Indices
  <2> QED  BY <2>1, <2>2 DEF IInv, PendingAreNewest
<1> PICK f, f2 : f = loaded /\ f2 = loaded'
  OBVIOUS
<1>7. /\ DOMAIN f2 = DOMAIN f \cup {m} /\ f2[m] = [assembly |-> i, bytes |-> b]
      /\ \A n \in DOMAIN f \ {m} : f2[n] = f[n]
  <2>1. f2 = Put(f, m, [assembly |-> i, bytes |-> b])
    BY DEF Accept
  <2> QED  BY <2>1 DEF Put
<1>8. LoadedOK'
  <2>1. LoadedOK
    BY DEF IInv, TypeOK, References, LoadedOK
  <2>2. ASSUME NEW n \in DOMAIN f2
        PROVE  /\ f2[n] \in [assembly : Id, bytes : Binary]
               /\ objects[f2[n].assembly] = [name |-> n, bytes |-> f2[n].bytes, stage |-> "ready"]
               /\ Ready(f2[n].assembly)
    <3>1. CASE n = m
      BY <1>1, <1>7, <3>1
    <3>2. CASE n # m
      BY <1>7, <2>1, <2>2, <3>2 DEF LoadedOK
    <3> QED  BY <3>1, <3>2
  <2>3. DOMAIN f2 \subseteq Name
    BY <1>1, <1>7, <2>1 DEF LoadedOK
  <2> QED  BY <1>1, <2>2, <2>3 DEF LoadedOK, Ready
<1>9. LoaderFollowsRuntime'
  <2> SUFFICES ASSUME NEW n \in DOMAIN f2, n \notin stray, NEW x, x = Newest(registered, objects, n)
               PROVE  f2[n].assembly = x \/ \E k \in 1 .. Len(calls') : calls'[k].pending = x
    BY <1>1 DEF LoaderFollowsRuntime
  <2>1. CASE n = m
    BY <1>5, <1>7, <2>1
  <2>2. CASE n # m
    <3>1. n \in DOMAIN f /\ f2[n] = f[n]
      BY <1>7, <2>2
    <3>2. x # None /\ objects[x].name = n
      BY <3>1, LoadedAreFound DEF LastBy, Named, None, Id
    <3>3. f[n].assembly = x \/ \E k \in 1 .. Len(calls) : calls[k].pending = x
      BY <3>1 DEF IInv, LoaderFollowsRuntime
    <3>4. ASSUME NEW k \in 1 .. Len(calls), calls[k].pending = x
          PROVE  k \in 1 .. Len(calls') /\ calls'[k].pending = x
      <4>1. k # Len(calls)
        BY <1>1, <2>2, <3>2, <3>4 DEF Active
      <4>2. k \in 1 .. Len(calls) - 1
        BY <4>1, Indices
      <4> QED  BY <1>5, <3>4, <4>2
    <3> QED  BY <3>1, <3>3, <3>4
  <2> QED  BY <2>1, <2>2
<1> QED  BY <1>2, <1>3, <1>4, <1>5, <1>6, <1>8, <1>9, WholeNext DEF Whole

LEMMA ReuseStep == IInv /\ Reuse => IInv'
<1> SUFFICES ASSUME IInv, Reuse PROVE IInv'
  OBVIOUS
<1> PICK b : b = Head(Active.rest)
  OBVIOUS
<1>1. /\ calls # <<>> /\ Active.pending = None /\ Active.rest # <<>>
      /\ runtimeState' = runtimeState /\ stray' = stray
  BY DEF Reuse, Loads
<1>2. PICK i \in Reusable(b) : Accept(i, b)
  BY DEF Reuse
<1>3. b \in Binary
  <2>1. Active.rest \in Seq(Binary)
    BY <1>1, LastCall DEF CallType
  <2> QED  BY <1>1, <2>1
<1>4. PICK n \in DOMAIN loaded : loaded[n].bytes = b /\ loaded[n].assembly = i
  BY <1>2 DEF Reusable
<1>5. Ready(i) /\ objects[i] = [name |-> n, bytes |-> b, stage |-> "ready"]
  BY <1>4 DEF IInv, TypeOK, References
<1>6. n = NameOf[b]
  <2>1. objects[i].stage # "placeholder" /\ objects[i].name = n /\ objects[i].bytes = b
    BY <1>5
  <2> QED  BY <1>5, <2>1 DEF Ready, IInv, Objects
<1>7. ASSUME n \notin stray
      PROVE  \/ i = Newest(registered, objects, n)
             \/ \E k \in 1 .. Len(calls) - 1 : calls[k].pending = Newest(registered, objects, n)
  <2>1. Newest(registered, objects, n) # None
    BY LoadedAreFound DEF None, Id
  <2>2. \/ i = Newest(registered, objects, n)
        \/ \E k \in 1 .. Len(calls) : calls[k].pending = Newest(registered, objects, n)
    BY <1>4, <1>7 DEF IInv, LoaderFollowsRuntime
  <2>3. ASSUME NEW k \in 1 .. Len(calls), calls[k].pending = Newest(registered, objects, n)
        PROVE  k \in 1 .. Len(calls) - 1
    <3>1. k # Len(calls)
      BY <1>1, <2>1, <2>3 DEF Active
    <3> QED  BY <3>1, Indices
  <2> QED  BY <2>2, <2>3
<1> QED  BY <1>1, <1>2, <1>3, <1>5, <1>6, <1>7, AcceptStep

LEMMA ReturnsStep == IInv /\ InitializerReturns => IInv'
<1> SUFFICES ASSUME IInv, InitializerReturns PROVE IInv'
  OBVIOUS
<1> PICK i : i = Active.pending
  OBVIOUS
<1> PICK b : b = objects[i].bytes
  OBVIOUS
<1>1. /\ calls # <<>> /\ i # None /\ Accept(i, b)
      /\ runtimeState' = runtimeState /\ stray' = stray
  BY DEF InitializerReturns, InitializerRuns
<1>2. Ready(i) /\ Active.rest # <<>>
  BY <1>1, LastCall DEF IInv, References, Active
<1>3. b \in Binary /\ objects[i].name = NameOf[b] /\ objects[i].stage = "ready"
  BY <1>2 DEF Ready, IInv, Objects
<1>4. objects[i] = [name |-> NameOf[b], bytes |-> b, stage |-> "ready"]
  BY <1>2, <1>3, Indices DEF Ready, ObjectType
<1>5. NameOf[b] \notin stray => i = Newest(registered, objects, NameOf[b])
  BY <1>1, <1>3, LastCall DEF IInv, PendingAreNewest, Active
<1> QED  BY <1>1, <1>2, <1>3, <1>4, <1>5, AcceptStep

-----------------------------------------------------------------------------
(* The theorems                                                            *)

LEMMA IInvStep == IInv /\ [Next]_vars => IInv'
<1> SUFFICES ASSUME IInv, [Next]_vars PROVE IInv'
  OBVIOUS
<1>1. CASE \E bs \in Batches : LoadHotUpdateAssemblies(bs)
  <2>1. PICK bs \in Batches : LoadHotUpdateAssemblies(bs)
    BY <1>1
  <2>2. bs \in Seq(Binary)
    BY LoaderAssumption
  <2> QED  BY <2>1, <2>2, BeginStep DEF LoadHotUpdateAssemblies
<1>2. CASE \E bs \in Batches : ReloadHotUpdateAssemblies(bs)
  BY <1>2, ReloadStep
<1>3. CASE \E b \in Binary : ReplaceHotUpdateAssembly(b)
  <2>1. PICK b \in Binary : ReplaceHotUpdateAssembly(b)
    BY <1>3
  <2>2. <<b>> \in Seq(Binary)
    OBVIOUS
  <2> QED  BY <2>1, <2>2, BeginStep DEF ReplaceHotUpdateAssembly
<1>4. CASE Refuse \/ LoadReturns
  BY <1>4, QuietEndStep
<1>5. CASE Reuse
  BY <1>5, ReuseStep
<1>6. CASE CreateRaises
  BY <1>6, CreateRaisesStep
<1>7. CASE Create
  BY <1>7, CreateStep
<1>8. CASE InitializerReturns
  BY <1>8, ReturnsStep
<1>9. CASE InitializerRaises
  BY <1>9, RaisesStep
<1>10. CASE \E t \in TypeName : InvokeStatic(t)
  BY <1>10, InvokeStep
<1>11. CASE UNCHANGED vars
  <2>1. /\ Grows /\ UNCHANGED <<runtimeState, assemblies, typeCache, methodCache, loaded, calls, hotfix, stray>>
        /\ objects' = objects
    BY <1>11, SameGrows DEF vars, runtimeState, resolution
  <2>2. TablesOK' /\ ListOK' /\ CachesAreCurrent' /\ LoadedOK' /\ RuntimeOK'
    <3>1. registered' = registered /\ stray' \subseteq Name
      BY <2>1 DEF runtimeState, IInv, TypeOK
    <3> QED  BY <2>1, <3>1, TablesStay, ListStays, CachesStay, LoadedStays, RuntimeStays
  <2>3. CallsOK'
    <3>1. \A k \in 1 .. Len(calls) : Ready(calls[k].pending)' <=> Ready(calls[k].pending)
      BY <2>1 DEF Ready
    <3> QED  BY <2>1, <3>1 DEF CallsOK, IInv, TypeOK, References
  <2>4. PendingAreNewest' /\ LoaderFollowsRuntime'
    BY <2>1 DEF runtimeState, IInv, PendingAreNewest, LoaderFollowsRuntime
  <2> QED  BY <2>2, <2>3, <2>4, WholeNext DEF Whole
<1> QED  BY <1>1, <1>2, <1>3, <1>4, <1>5, <1>6, <1>7, <1>8, <1>9, <1>10, <1>11 DEF Next

LEMMA AlwaysIInv == Spec => []IInv
<1>1. Init => IInv
  BY Start
<1>2. IInv /\ [Next]_vars => IInv'
  BY IInvStep
<1> QED  BY <1>1, <1>2, PTL DEF Spec

(* A type or a static method that is cached is the one a search of the     *)
(* loader's list would find now: no call goes to a replaced assembly.      *)
THEOREM CachedAnswersAreCurrent == Spec => []CachesAreCurrent
<1>1. IInv => CachesAreCurrent
  BY DEF IInv
<1> QED  BY <1>1, AlwaysIInv, PTL

(* A hotfix is the first of its name in the list until the next Replace or *)
(* Reload, whatever is loaded later, from initializers too.                *)
THEOREM HotfixesStay == Spec => []HotfixStays
<1>1. IInv => HotfixStays
  BY DEF IInv
<1> QED  BY <1>1, AlwaysIInv, PTL

(* The runtime finds under a name the assembly the loader last loaded, or  *)
(* the one whose initializer is running, unless an initializer raised or   *)
(* loaded its own assembly's name again.                                   *)
THEOREM LoaderAgreesWithRuntime == Spec => []LoaderFollowsRuntime
<1>1. IInv => LoaderFollowsRuntime
  BY DEF IInv
<1> QED  BY <1>1, AlwaysIInv, PTL

(* The state is well-typed, and the runtime finds no assembly whose        *)
(* construction raised, except one that is built in a placeholder.         *)
THEOREM NoHalfBuiltIsFound == Spec => []RuntimeFindsNoHalfBuilt
<1>1. ASSUME IInv, NEW n \in Name, NEW i, i = Newest(registered, objects, n),
             i # None, i > Len(Placeholders)
      PROVE  objects[i].stage = "ready"
  <2>1. LastBy(registered, objects, n, i)
    BY <1>1, NewestIs, Indices
  <2>2. PICK k \in 1 .. Len(registered) : registered[k] = i
    BY <2>1 DEF LastBy
  <2>3. i \in Nat /\ (i <= Len(Placeholders) \/ Ready(i))
    BY <1>1, <2>2, Indices DEF IInv, Registry
  <2>4. ~ i <= Len(Placeholders)
    BY <1>1, <2>3, LoaderAssumption
  <2> QED  BY <2>3, <2>4 DEF Ready
<1>2. IInv => RuntimeFindsNoHalfBuilt
  BY <1>1 DEF RuntimeFindsNoHalfBuilt, IInv
<1> QED  BY <1>2, AlwaysIInv, PTL
====
