------------------------ MODULE ExceptionFlow_proofs ------------------------
(* What holds of the exception-flow entries for every program of verifiable *)
(* IL, as long as the code has not departed from the CLI in the known ways. *)
EXTENDS ExceptionFlow, SequenceTheorems, WellFoundedInduction, TLAPS

USE DEF FlowTypes

Frame == [method : Methods, ip : Nat, flows : Seq(FlowEntry)]

Cl(m, i) == clauses[m][i]

Around(c, o) == InHandler(c, o) \/ InFilter(c, o)

Catching == {"Exception", "Filter"}

\* Entries fl of one frame tell that catch i is being left.
Left(m, fl, i) ==
  /\ Cl(m, i).flags \in Catching
  /\ \E k \in DOMAIN fl :
       /\ fl[k].type = "Leave"
       /\ InHandler(Cl(m, i), fl[k].throwOffset)
       /\ ~InHandler(Cl(m, i), fl[k].target)

\* fl are the handlers around offset o of m with an index above n (counting
\* from 1), and perhaps some below, innermost last, less the catches being left.
Listed(m, fl, o) ==
  \A k \in DOMAIN fl :
    /\ fl[k].next \in DOMAIN clauses[m]
    /\ Around(Cl(m, fl[k].next), o) /\ ~Left(m, fl, fl[k].next)
    /\ fl[k].type \in EntryTypes(Cl(m, fl[k].next), o)

Descends(fl) == \A j, k \in DOMAIN fl : j < k => fl[k].next < fl[j].next

Complete(m, fl, o, n) ==
  \A i \in DOMAIN clauses[m] :
    (Around(Cl(m, i), o) /\ i > n /\ ~Left(m, fl, i)) => \E k \in DOMAIN fl : fl[k].next = i

Fits(m, fl, o, n) == Listed(m, fl, o) /\ Descends(fl) /\ Complete(m, fl, o, n)

\* What is true of every entry: it names a target in the code, and a Leave comes
\* from a leave instruction.
Known(m, e) ==
  /\ e.target \in DOMAIN code[m]
  /\ e.type = "Leave" =>
       /\ e.throwOffset \in DOMAIN code[m]
       /\ code[m][e.throwOffset].op = "leave" /\ code[m][e.throwOffset].target = e.target

Clean(d) == d \cap {"abandoned", "leaked", "foreign"} = {}

\* What is true of an entry that has found its handler.
Settled(m, e, d) ==
  /\ e.next \in DOMAIN clauses[m]
  /\ InTry(Cl(m, e.next), e.throwOffset)
  /\ (Clean(d) /\ e.type = "Leave") => ~InTry(Cl(m, e.next), e.target)

\* The flow entries of a frame whose control is at o
AtRest(m, fl, o, d) ==
  /\ \A k \in DOMAIN fl : Known(m, fl[k]) /\ Settled(m, fl[k], d)
  /\ Clean(d) => Fits(m, fl, o, 0)

\* Those of a frame that is looking for the handler of its last entry
InSearch(m, fl, d) ==
  /\ fl # <<>>
  /\ \A k \in DOMAIN fl : Known(m, fl[k])
  /\ \A k \in 1..(Len(fl) - 1) : Settled(m, fl[k], d)
  /\ fl[Len(fl)].next <= Len(clauses[m])
  /\ Clean(d) =>
       /\ fl[Len(fl)].type = "Exception"
       /\ Fits(m, SubSeq(fl, 1, Len(fl) - 1), fl[Len(fl)].throwOffset, fl[Len(fl)].next)

\* A frame below the top waits at its call.
Waiting(f, d) ==
  /\ f.ip \in DOMAIN code[f.method] /\ f.ip - 1 \in DOMAIN code[f.method]
  /\ code[f.method][f.ip - 1].op = "call"
  /\ AtRest(f.method, f.flows, f.ip - 1, d)

Locals ==
  /\ imi = Top.method /\ ipBase = Top.method
  /\ ip \in DOMAIN code[Top.method] /\ Top.ip \in DOMAIN code[Top.method]
  /\ phase = "run" => origin = ip
  /\ phase = "run" => AtRest(Top.method, Flows, ip, departures)
  /\ phase = "search" => InSearch(Top.method, Flows, departures)
  /\ phase = "aborted" =>
       AtRest(Top.method, Flows, ip, departures) \/ InSearch(Top.method, Flows, departures)

Shape ==
  /\ frames \in Seq(Frame)
  /\ \A i \in 1..(Len(frames) - 1) : Waiting(frames[i], departures)
  /\ ip \in Nat
  /\ phase = "idle" <=> frames = <<>>
  /\ frames = <<>> => imi = NoMethod /\ ipBase = NoMethod
  /\ frames # <<>> => Locals

Types ==
  /\ departures \subseteq Departures
  /\ phase \in {"idle", "run", "search", "aborted"}

\* Once a callee's failed entry made imi foreign to the top frame, offsets mean
\* nothing until Execute ends.
IInv == Types /\ ("foreign" \notin departures => Shape)

\* History: an entry's offset is in the try blocks its instruction was in.
PlacedIn(m, fl) ==
  \A k \in DOMAIN fl : \A j \in DOMAIN clauses[m] :
    InTry(Cl(m, j), fl[k].throwOffset) <=> InTry(Cl(m, j), fl[k].at)

Placed ==
  departures \cap {"misplaced", "foreign"} = {} =>
    \A i \in DOMAIN frames : PlacedIn(frames[i].method, frames[i].flows)

\* The search has yet to come to the finallys and faults around the instruction
\* that ran last.
Pending ==
  (phase = "search" /\ Clean(departures) /\ "faultSkipped" \notin departures) =>
    \A i \in DOMAIN clauses[Top.method] :
      (Cl(Top.method, i).flags \in {"Finally", "Fault"} /\ InTry(Cl(Top.method, i), origin)) =>
        InTry(Cl(Top.method, i), Efi.throwOffset) /\ i > Efi.next
-----------------------------------------------------------------------------
(* The geometry of the clauses of a method *)

LEMMA ClauseType ==
  ASSUME NEW m \in Methods, NEW i \in DOMAIN clauses[m]
  PROVE  /\ Cl(m, i) \in EhClause
         /\ clauses[m] \in Seq(EhClause) /\ DOMAIN clauses[m] = 1 .. Len(clauses[m])
         /\ Len(clauses[m]) \in Nat /\ i \in Nat
<1>1. clauses[m] \in Seq(EhClause)
  BY ClauseAssumption
<1> QED  BY <1>1 DEF Cl

LEMMA RegionIs ==
  ASSUME NEW c \in EhClause, NEW o \in Nat
  PROVE  /\ o \in Region(c, "try") <=> InTry(c, o)
         /\ o \in Region(c, "handler") <=> InHandler(c, o)
         /\ o \in Region(c, "filter") <=> InFilter(c, o)
<1>1. /\ c.tryBegin \in Nat /\ c.tryEnd \in Nat /\ c.handlerBegin \in Nat /\ c.handlerEnd \in Nat
      /\ c.filterBegin \in Nat
  BY DEF EhClause
<1>2. o \in Region(c, "try") <=> InTry(c, o)
  BY <1>1 DEF Region, InTry
<1>3. o \in Region(c, "handler") <=> InHandler(c, o)
  BY <1>1 DEF Region, InHandler
<1>4. o \in Region(c, "filter") <=> InFilter(c, o)
  BY <1>1 DEF Region, InFilter
<1> QED  BY <1>2, <1>3, <1>4

\* A region of a clause is apart from its others.
LEMMA Apart ==
  ASSUME NEW m \in Methods, NEW i \in DOMAIN clauses[m], NEW o \in Nat
  PROVE  /\ ~(InTry(Cl(m, i), o) /\ Around(Cl(m, i), o))
         /\ ~(InHandler(Cl(m, i), o) /\ InFilter(Cl(m, i), o))
<1>1. Cl(m, i) \in EhClause
  BY ClauseType
<1>2. \A p, q \in Parts : p # q => Region(Cl(m, i), p) \cap Region(Cl(m, i), q) = {}
  BY ClauseAssumption DEF Cl
<1>3. /\ Region(Cl(m, i), "try") \cap Region(Cl(m, i), "handler") = {}
      /\ Region(Cl(m, i), "try") \cap Region(Cl(m, i), "filter") = {}
      /\ Region(Cl(m, i), "handler") \cap Region(Cl(m, i), "filter") = {}
  BY <1>2 DEF Parts
<1> QED  BY <1>1, <1>3, RegionIs DEF Around

Within(c, o) == InTry(c, o) \/ Around(c, o)

LEMMA NestsIs ==
  ASSUME NEW m \in Methods, NEW i \in DOMAIN clauses[m], NEW j \in DOMAIN clauses[m], i < j,
         NEW q \in Parts, NEW p \in Parts, NEW o, o \in Region(Cl(m, i), p), o \in Region(Cl(m, j), q)
  PROVE  /\ Region(Cl(m, i), p) \subseteq Region(Cl(m, j), q)
         /\ (p # "try" \/ q # "try" \/ Cl(m, j).flags \in {"Finally", "Fault"}) =>
              \A r \in Parts : Region(Cl(m, i), r) \subseteq Region(Cl(m, j), q)
<1>1. Nests(Cl(m, i), Cl(m, j))
  BY ClauseAssumption DEF Cl
<1>2. ~ \A r \in Parts : Region(Cl(m, i), r) \cap Region(Cl(m, j), q) = {}
  OBVIOUS
<1>3. \A r, s \in Parts : r # s => Region(Cl(m, i), r) \cap Region(Cl(m, i), s) = {}
  BY ClauseAssumption DEF Cl
<1>4. CASE \A r \in Parts : Region(Cl(m, i), r) \subseteq Region(Cl(m, j), q)
  BY <1>4
<1>5. CASE /\ q = "try" /\ Region(Cl(m, i), q) = Region(Cl(m, j), q)
           /\ {Cl(m, i).flags, Cl(m, j).flags} \subseteq {"Exception", "Filter"}
  <2>1. Region(Cl(m, i), p) \cap Region(Cl(m, i), "try") # {}
    BY <1>5
  <2>2. p = "try"
    BY <2>1, <1>3 DEF Parts
  <2>3. Cl(m, j).flags \notin {"Finally", "Fault"}
    BY <1>5
  <2> QED  BY <2>2, <2>3, <1>5
<1> QED  BY <1>1, <1>2, <1>4, <1>5 DEF Nests

\* A region of an outer clause that meets a region of an inner one holds it.
LEMMA Inside ==
  ASSUME NEW m \in Methods, NEW i \in DOMAIN clauses[m], NEW j \in DOMAIN clauses[m], i < j,
         NEW o \in Nat, NEW p \in Nat,
         \/ InTry(Cl(m, i), o) /\ InTry(Cl(m, i), p)
         \/ InHandler(Cl(m, i), o) /\ InHandler(Cl(m, i), p)
         \/ InFilter(Cl(m, i), o) /\ InFilter(Cl(m, i), p)
  PROVE  /\ InTry(Cl(m, j), o) => InTry(Cl(m, j), p)
         /\ InHandler(Cl(m, j), o) => InHandler(Cl(m, j), p)
         /\ InFilter(Cl(m, j), o) => InFilter(Cl(m, j), p)
<1>1. Cl(m, i) \in EhClause /\ Cl(m, j) \in EhClause
  BY ClauseType
<1>2. PICK r \in Parts : o \in Region(Cl(m, i), r) /\ p \in Region(Cl(m, i), r)
  BY <1>1, RegionIs DEF Parts
<1>3. \A q \in Parts : o \in Region(Cl(m, j), q) => p \in Region(Cl(m, j), q)
  BY <1>2, NestsIs
<1> QED  BY <1>1, <1>3, RegionIs DEF Parts

\* Outside a clause its regions are in the same handlers, filters and, unless
\* two catches share it, try blocks.
LEMMA Outside ==
  ASSUME NEW m \in Methods, NEW i \in DOMAIN clauses[m], NEW j \in DOMAIN clauses[m], i < j,
         NEW o \in Nat, NEW p \in Nat, Within(Cl(m, i), o), Within(Cl(m, i), p)
  PROVE  /\ InHandler(Cl(m, j), o) => InHandler(Cl(m, j), p)
         /\ InFilter(Cl(m, j), o) => InFilter(Cl(m, j), p)
         /\ (~InTry(Cl(m, i), o) \/ Cl(m, j).flags \in {"Finally", "Fault"}) =>
              (InTry(Cl(m, j), o) => InTry(Cl(m, j), p))
<1>1. Cl(m, i) \in EhClause /\ Cl(m, j) \in EhClause
  BY ClauseType
<1>2. PICK r \in Parts : o \in Region(Cl(m, i), r) /\ (r = "try" => InTry(Cl(m, i), o))
  BY <1>1, RegionIs DEF Parts, Within, Around
<1>3. PICK s \in Parts : p \in Region(Cl(m, i), s)
  BY <1>1, RegionIs DEF Parts, Within, Around
<1>4. \A q \in Parts : (o \in Region(Cl(m, j), q) /\
         (r # "try" \/ q # "try" \/ Cl(m, j).flags \in {"Finally", "Fault"})) => p \in Region(Cl(m, j), q)
  BY <1>2, <1>3, NestsIs
<1>5. "handler" # "try" /\ "filter" # "try" /\ {"try", "handler", "filter"} = Parts
  BY DEF Parts
<1>6. InHandler(Cl(m, j), o) => InHandler(Cl(m, j), p)
  BY <1>1, <1>4, <1>5, RegionIs
<1>7. InFilter(Cl(m, j), o) => InFilter(Cl(m, j), p)
  BY <1>1, <1>4, <1>5, RegionIs
<1>8. (~InTry(Cl(m, i), o) \/ Cl(m, j).flags \in {"Finally", "Fault"}) =>
              (InTry(Cl(m, j), o) => InTry(Cl(m, j), p))
  BY <1>1, <1>2, <1>4, <1>5, RegionIs
<1> QED  BY <1>6, <1>7, <1>8
-----------------------------------------------------------------------------
(* How the list of entries may change when control moves *)

Same(c, o, p) == (InHandler(c, o) <=> InHandler(c, p)) /\ (InFilter(c, o) <=> InFilter(c, p))

LEMMA TypesOf ==
  ASSUME NEW m \in Methods, NEW i \in DOMAIN clauses[m], NEW o
  PROVE  /\ InFilter(Cl(m, i), o) => EntryTypes(Cl(m, i), o) = {"Exception"}
         /\ (~InFilter(Cl(m, i), o) /\ Cl(m, i).flags \in Catching)
              => EntryTypes(Cl(m, i), o) = {"Catch"}
         /\ (~InFilter(Cl(m, i), o) /\ Cl(m, i).flags = "Fault")
              => EntryTypes(Cl(m, i), o) = {"Exception"}
         /\ (~InFilter(Cl(m, i), o) /\ Cl(m, i).flags = "Finally")
              => EntryTypes(Cl(m, i), o) = {"Exception", "Leave"}
         /\ Cl(m, i).flags \in ClauseFlags
         /\ InFilter(Cl(m, i), o) => Cl(m, i).flags = "Filter"
<1>1. Cl(m, i).flags \in {"Exception", "Filter", "Finally", "Fault"}
  BY ClauseType DEF EhClause, ClauseFlags
<1>2. InFilter(Cl(m, i), o) => Cl(m, i).flags = "Filter"
  BY DEF InFilter
<1>3. InFilter(Cl(m, i), o) => EntryTypes(Cl(m, i), o) = {"Exception"}
  BY <1>2 DEF EntryTypes
<1>4. (~InFilter(Cl(m, i), o) /\ Cl(m, i).flags \in Catching) => EntryTypes(Cl(m, i), o) = {"Catch"}
  BY DEF EntryTypes, Catching
<1>5. (~InFilter(Cl(m, i), o) /\ Cl(m, i).flags = "Fault") => EntryTypes(Cl(m, i), o) = {"Exception"}
  BY DEF EntryTypes
<1>6. (~InFilter(Cl(m, i), o) /\ Cl(m, i).flags = "Finally")
        => EntryTypes(Cl(m, i), o) = {"Exception", "Leave"}
  BY DEF EntryTypes
<1> QED  BY <1>1, <1>2, <1>3, <1>4, <1>5, <1>6 DEF ClauseFlags

LEMMA SameIs ==
  ASSUME NEW m \in Methods, NEW i \in DOMAIN clauses[m], NEW o, NEW p, Same(Cl(m, i), o, p)
  PROVE  /\ Around(Cl(m, i), o) <=> Around(Cl(m, i), p)
         /\ EntryTypes(Cl(m, i), o) = EntryTypes(Cl(m, i), p)
<1>1. InFilter(Cl(m, i), o) <=> InFilter(Cl(m, i), p)
  BY DEF Same
<1>2. Cl(m, i).flags \in Catching \cup {"Fault", "Finally"}
  BY TypesOf DEF Catching, ClauseFlags
<1>3. EntryTypes(Cl(m, i), o) = EntryTypes(Cl(m, i), p)
  BY <1>1, <1>2, TypesOf
<1> QED  BY <1>3 DEF Same, Around

LEMMA OutsideSame ==
  ASSUME NEW m \in Methods, NEW i \in DOMAIN clauses[m], NEW j \in DOMAIN clauses[m], i < j,
         NEW o \in Nat, NEW p \in Nat, Within(Cl(m, i), o), Within(Cl(m, i), p)
  PROVE  Same(Cl(m, j), o, p)
BY Outside DEF Same

\* Every leave in progress of fl is one of gl.
Leaves(fl, gl) ==
  \A k \in DOMAIN fl : fl[k].type = "Leave" =>
    \E j \in DOMAIN gl : /\ gl[j].type = "Leave" /\ gl[j].throwOffset = fl[k].throwOffset
                         /\ gl[j].target = fl[k].target

LEMMA LeftMore ==
  ASSUME NEW m, NEW fl, NEW gl, NEW i, Leaves(fl, gl), Left(m, fl, i)
  PROVE  Left(m, gl, i)
BY DEF Left, Leaves

LEMMA FitsMoves ==
  ASSUME NEW m \in Methods, NEW fl, NEW o, NEW p, NEW n, Fits(m, fl, o, n),
         \A i \in DOMAIN clauses[m] : Same(Cl(m, i), o, p)
  PROVE  Fits(m, fl, p, n)
<1>1. Listed(m, fl, p)
  BY SameIs DEF Fits, Listed
<1>2. Complete(m, fl, p, n)
  BY SameIs DEF Fits, Complete
<1> QED  BY <1>1, <1>2 DEF Fits

LEMMA FitsLater ==
  ASSUME NEW m \in Methods, NEW fl, NEW o, NEW n \in Nat, NEW l \in Nat, n <= l, Fits(m, fl, o, n)
  PROVE  Fits(m, fl, o, l)
<1>1. \A i \in DOMAIN clauses[m] : i > l => i > n
  BY ClauseType
<1>2. Complete(m, fl, o, l)
  BY <1>1 DEF Fits, Complete
<1> QED  BY <1>2 DEF Fits

LEMMA FrontIs ==
  ASSUME NEW S, NEW fl \in Seq(S), fl # <<>>
  PROVE  /\ Len(fl) \in Nat \ {0} /\ DOMAIN fl = 1 .. Len(fl)
         /\ SubSeq(fl, 1, Len(fl) - 1) \in Seq(S) /\ Front(fl) = SubSeq(fl, 1, Len(fl) - 1)
         /\ Len(SubSeq(fl, 1, Len(fl) - 1)) = Len(fl) - 1
         /\ DOMAIN SubSeq(fl, 1, Len(fl) - 1) = 1 .. (Len(fl) - 1)
         /\ \A k \in 1 .. (Len(fl) - 1) : SubSeq(fl, 1, Len(fl) - 1)[k] = fl[k]
         /\ fl[Len(fl)] \in S
<1>1. Len(fl) \in Nat \ {0} /\ DOMAIN fl = 1 .. Len(fl)
  BY EmptySeq
<1>2. \A k \in 1 .. (Len(fl) - 1) : fl[k] \in S
  BY <1>1
<1> DEFINE g == SubSeq(fl, 1, Len(fl) - 1)
<1>3. g \in Seq(S) /\ Len(g) = Len(fl) - 1 /\ \A k \in 1 .. (Len(fl) - 1) : g[k] = fl[k]
  BY <1>1, <1>2, SubSeqProperties
<1> QED  BY <1>1, <1>3 DEF Front

\* Handler i is entered at p from offset o of another of its regions.
LEMMA FitsEnter ==
  ASSUME NEW m \in Methods, NEW gl \in Seq(FlowEntry), gl # <<>>,
         NEW i \in DOMAIN clauses[m], i = gl[Len(gl)].next,
         NEW o \in Nat, Within(Cl(m, i), o),
         NEW p \in Nat, Around(Cl(m, i), p), EntersOnly(m, p, i .. Len(clauses[m])),
         gl[Len(gl)].type \in EntryTypes(Cl(m, i), p), ~Left(m, gl, i),
         \A k \in 1 .. (Len(gl) - 1) :
           /\ gl[k].next \in DOMAIN clauses[m] /\ gl[k].next > i
           /\ Around(Cl(m, gl[k].next), o) /\ gl[k].type \in EntryTypes(Cl(m, gl[k].next), o)
           /\ ~Left(m, gl, gl[k].next),
         \A j, k \in 1 .. (Len(gl) - 1) : j < k => gl[k].next < gl[j].next,
         \A j \in DOMAIN clauses[m] : (j > i /\ Around(Cl(m, j), o) /\ ~Left(m, gl, j)) =>
           \E k \in 1 .. (Len(gl) - 1) : gl[k].next = j
  PROVE  Fits(m, gl, p, 0)
<1>1. DOMAIN gl = 1 .. Len(gl) /\ Len(gl) \in Nat \ {0}
  BY FrontIs
<1>2. DOMAIN clauses[m] = 1 .. Len(clauses[m]) /\ Len(clauses[m]) \in Nat
  BY ClauseType
<1>3. \A j \in DOMAIN clauses[m] : i < j => Same(Cl(m, j), o, p)
  BY OutsideSame DEF Within
<1>4. ASSUME NEW k \in DOMAIN gl
      PROVE  /\ gl[k].next \in DOMAIN clauses[m]
             /\ Around(Cl(m, gl[k].next), p) /\ ~Left(m, gl, gl[k].next)
             /\ gl[k].type \in EntryTypes(Cl(m, gl[k].next), p)
  <2>1. CASE k = Len(gl)
    BY <2>1
  <2>2. CASE k \in 1 .. (Len(gl) - 1)
    <3>1. Same(Cl(m, gl[k].next), o, p)
      BY <1>2, <1>3, <2>2
    <3>2. /\ gl[k].next \in DOMAIN clauses[m]
          /\ Around(Cl(m, gl[k].next), o) /\ gl[k].type \in EntryTypes(Cl(m, gl[k].next), o)
          /\ ~Left(m, gl, gl[k].next)
      BY <2>2
    <3>3. /\ Around(Cl(m, gl[k].next), o) <=> Around(Cl(m, gl[k].next), p)
          /\ EntryTypes(Cl(m, gl[k].next), o) = EntryTypes(Cl(m, gl[k].next), p)
      BY <3>1, <3>2, SameIs
    <3> QED  BY <3>2, <3>3
  <2> QED  BY <1>1, <2>1, <2>2
<1>5. \A j, k \in DOMAIN gl : j < k => gl[k].next < gl[j].next
  <2> SUFFICES ASSUME NEW j \in DOMAIN gl, NEW k \in DOMAIN gl, j < k
               PROVE  gl[k].next < gl[j].next
    OBVIOUS
  <2>1. CASE k = Len(gl)
    BY <1>1, <1>2, <2>1
  <2>2. CASE k \in 1 .. (Len(gl) - 1)
    BY SMTT(20), <1>1, <2>2
  <2> QED  BY <1>1, <2>1, <2>2
<1>6. ASSUME NEW j \in DOMAIN clauses[m], Around(Cl(m, j), p), ~Left(m, gl, j)
      PROVE  \E k \in DOMAIN gl : gl[k].next = j
  <2>1. j \in i .. Len(clauses[m])
    BY <1>6 DEF EntersOnly, Around, Cl
  <2>2. CASE j = i
    BY <1>1, <2>2
  <2>3. CASE j > i
    <3>1. Around(Cl(m, j), o)
      BY <1>2, <1>3, <1>6, <2>3, SameIs
    <3>2. PICK k \in 1 .. (Len(gl) - 1) : gl[k].next = j
      BY <1>6, <2>3, <3>1
    <3>3. \A l \in 1 .. (Len(gl) - 1) : l \in DOMAIN gl
      BY <1>1
    <3> QED  BY <3>2, <3>3
  <2> QED  BY <1>2, <2>1, <2>2, <2>3
<1> QED  BY <1>4, <1>5, <1>6 DEF Fits, Listed, Descends, Complete

\* i is the innermost handler or filter around o, and has an entry: the last.
LEMMA LastIsInnermost ==
  ASSUME NEW m \in Methods, NEW fl \in Seq(FlowEntry), NEW o \in Nat, Fits(m, fl, o, 0),
         NEW i \in DOMAIN clauses[m], Innermost(m, i, o), ~Left(m, fl, i)
  PROVE  fl # <<>> /\ fl[Len(fl)].next = i
<1>1. DOMAIN clauses[m] = 1 .. Len(clauses[m]) /\ Len(clauses[m]) \in Nat
  BY ClauseType
<1>2. Around(Cl(m, i), o) /\ i > 0
  BY <1>1 DEF Innermost, Around, Cl
<1>3. PICK k \in DOMAIN fl : fl[k].next = i
  BY <1>2 DEF Fits, Complete
<1>4. DOMAIN fl = 1 .. Len(fl) /\ Len(fl) \in Nat \ {0} /\ fl # <<>>
  BY <1>3, EmptySeq
<1>5. fl[Len(fl)].next \in DOMAIN clauses[m] /\ Around(Cl(m, fl[Len(fl)].next), o)
  BY <1>4 DEF Fits, Listed
<1>6. k = Len(fl) \/ fl[Len(fl)].next < i
  BY <1>3, <1>4 DEF Fits, Descends
<1>7. ~(fl[Len(fl)].next < i)
  BY <1>1, <1>5 DEF Innermost, Around, Cl
<1> QED  BY <1>3, <1>4, <1>6, <1>7

\* A leave in progress is in a finally, and leaves none of the catches whose
\* filter or try block holds that finally.
LEMMA InnerLeaves ==
  ASSUME NEW m \in Methods, NEW fl \in Seq(FlowEntry), NEW o \in Nat, NEW d, Listed(m, fl, o),
         \A k \in DOMAIN fl : Settled(m, fl[k], d),
         NEW i \in DOMAIN clauses[m], InFilter(Cl(m, i), o)
  PROVE  ~Left(m, fl, i)
<1> SUFFICES ASSUME NEW k \in DOMAIN fl, fl[k].type = "Leave",
                    InHandler(Cl(m, i), fl[k].throwOffset)
             PROVE  FALSE
  BY DEF Left
<1>1. PICK g \in DOMAIN clauses[m] : g = fl[k].next
  BY DEF Listed
<1>2. PICK x \in Nat : x = fl[k].throwOffset
  <2>1. fl[k] \in FlowEntry
    OBVIOUS
  <2> QED  BY <2>1 DEF FlowEntry
<1>3. InTry(Cl(m, g), x) /\ Around(Cl(m, g), o) /\ "Leave" \in EntryTypes(Cl(m, g), o)
  BY <1>1, <1>2 DEF Listed, Settled
<1>4. ~InFilter(Cl(m, g), o) /\ Cl(m, g).flags = "Finally" /\ Cl(m, i).flags = "Filter"
  BY <1>3, TypesOf DEF ClauseFlags, Catching
<1>5. InHandler(Cl(m, g), o) /\ g # i
  BY <1>3, <1>4 DEF Around
<1>6. CASE g < i
  <2>1. InFilter(Cl(m, i), x)
    BY <1>3, <1>5, <1>6, Outside DEF Within
  <2> QED  BY <1>2, <2>1, Apart
<1>7. CASE i < g
  <2>1. InHandler(Cl(m, g), x)
    BY <1>2, <1>5, <1>7, Outside DEF Within, Around
  <2> QED  BY <1>3, <2>1, Apart DEF Around
<1> QED  BY <1>5, <1>6, <1>7, ClauseType

\* endfinally and endfilter with an Exception entry: the search goes on from
\* where the exception was raised.
LEMMA FitsResume ==
  ASSUME NEW m \in Methods, NEW fl \in Seq(FlowEntry), fl # <<>>, NEW o \in Nat, Fits(m, fl, o, 0),
         NEW i \in DOMAIN clauses[m], i = fl[Len(fl)].next,
         NEW x \in Nat, InTry(Cl(m, i), x), fl[Len(fl)].type = "Exception"
  PROVE  Fits(m, SubSeq(fl, 1, Len(fl) - 1), x, i)
<1> PICK gl \in Seq(FlowEntry) : gl = SubSeq(fl, 1, Len(fl) - 1)
  BY FrontIs
<1>1. /\ DOMAIN fl = 1 .. Len(fl) /\ Len(fl) \in Nat \ {0} /\ DOMAIN gl = 1 .. (Len(fl) - 1)
      /\ \A k \in DOMAIN gl : gl[k] = fl[k]
  BY FrontIs
<1>2. DOMAIN clauses[m] = 1 .. Len(clauses[m]) /\ Len(clauses[m]) \in Nat
  BY ClauseType
<1>3. Around(Cl(m, i), o)
  BY <1>1 DEF Fits, Listed
<1>4. \A j \in DOMAIN clauses[m] : i < j => Same(Cl(m, j), o, x)
  BY <1>3, OutsideSame DEF Within
<1>5. Leaves(fl, gl) /\ Leaves(gl, fl)
  <2>1. \A k \in DOMAIN fl : fl[k].type = "Leave" => k \in DOMAIN gl
    BY <1>1
  <2>2. DOMAIN gl \subseteq DOMAIN fl
    BY <1>1
  <2> QED  BY <1>1, <2>1, <2>2 DEF Leaves
<1>6. \A j : Left(m, fl, j) <=> Left(m, gl, j)
  BY <1>5, LeftMore
<1>7. \A k \in DOMAIN gl : i < gl[k].next
  BY <1>1 DEF Fits, Descends
<1>8. Listed(m, gl, x)
  <2> SUFFICES ASSUME NEW k \in DOMAIN gl
               PROVE  /\ gl[k].next \in DOMAIN clauses[m]
                      /\ Around(Cl(m, gl[k].next), x) /\ ~Left(m, gl, gl[k].next)
                      /\ gl[k].type \in EntryTypes(Cl(m, gl[k].next), x)
    BY DEF Listed
  <2>1. /\ gl[k].next \in DOMAIN clauses[m]
        /\ Around(Cl(m, gl[k].next), o) /\ ~Left(m, fl, gl[k].next)
        /\ gl[k].type \in EntryTypes(Cl(m, gl[k].next), o)
    BY <1>1 DEF Fits, Listed
  <2> QED  BY <1>4, <1>6, <1>7, <2>1, SameIs
<1>9. Descends(gl)
  BY <1>1 DEF Fits, Descends
<1>10. Complete(m, gl, x, i)
  <2> SUFFICES ASSUME NEW j \in DOMAIN clauses[m], Around(Cl(m, j), x), j > i, ~Left(m, gl, j)
               PROVE  \E k \in DOMAIN gl : gl[k].next = j
    BY DEF Complete
  <2>1. Around(Cl(m, j), o) /\ j > 0 /\ ~Left(m, fl, j)
    BY <1>2, <1>4, <1>6, SameIs
  <2>2. PICK k \in DOMAIN fl : fl[k].next = j
    BY <2>1 DEF Fits, Complete
  <2>3. k # Len(fl)
    BY <1>2, <2>2
  <2>4. k \in DOMAIN gl
    BY <1>1, <2>3
  <2> QED  BY <1>1, <2>2, <2>4
<1> QED  BY <1>8, <1>9, <1>10 DEF Fits
-----------------------------------------------------------------------------
(* Leaves *)

LEMMA FirstIs ==
  ASSUME NEW S, S \subseteq Nat, S # {}
  PROVE  First(S) \in S /\ \A j \in S : First(S) <= j
<1>1. PICK i \in S : \A j \in S : ~(<<j, i>> \in OpToRel(<, Nat))
  BY WFMin, NatLessThanWellFounded
<1>2. \A j \in S : i <= j
  <2> SUFFICES ASSUME NEW j \in S, j < i  PROVE FALSE
    OBVIOUS
  <2>1. <<j, i>> \in OpToRel(<, Nat)
    BY DEF OpToRel
  <2> QED  BY <1>1, <2>1
<1> QED  BY <1>2 DEF First

\* e is the entry of a catch that a leave to t leaves.
Gone(m, e, t) == e.type = "Catch" /\ ~InHandler(Cl(m, e.next), t)

\* The p entries that stay when those on top are gone
Stay(m, fl, t, p) ==
  /\ p \in 0 .. Len(fl)
  /\ \A k \in (p + 1) .. Len(fl) : Gone(m, fl[k], t)
  /\ p > 0 => ~Gone(m, fl[p], t)

LEMMA PopIs ==
  ASSUME NEW m \in Methods, imi = m, NEW fl \in Seq(FlowEntry), NEW t
  PROVE  \E p \in Nat : Stay(m, fl, t, p) /\ PopCatchHandlers(fl, t) = SubSeq(fl, 1, p)
<1> DEFINE S == {n \in 0 .. Len(fl) : \A k \in (n + 1) .. Len(fl) : LeftBy(fl[k], t)}
<1>1. \A e : LeftBy(e, t) <=> Gone(m, e, t)
  BY DEF LeftBy, Gone, Cl
<1>2. Len(fl) \in Nat
  OBVIOUS
<1>3. S \subseteq Nat /\ Len(fl) \in S
  BY <1>2
<1>4. PICK p \in S : p = First(S) /\ \A j \in S : p <= j
  <2> HIDE DEF S
  <2> QED  BY <1>3, FirstIs
<1>5. p > 0 => ~Gone(m, fl[p], t)
  <2> SUFFICES ASSUME p > 0, Gone(m, fl[p], t)  PROVE FALSE
    OBVIOUS
  <2>1. \A k \in ((p - 1) + 1) .. Len(fl) : LeftBy(fl[k], t)
    BY <1>1, <1>2
  <2>2. p - 1 \in S
    BY <1>2, <2>1
  <2> QED  BY <1>2, <1>4, <2>2
<1>6. Stay(m, fl, t, p)
  BY <1>1, <1>5 DEF Stay
<1>7. p \in Nat
  BY <1>2
<1>8. PopCatchHandlers(fl, t) = SubSeq(fl, 1, p)
  BY <1>4 DEF PopCatchHandlers
<1> HIDE DEF S
<1> QED  BY <1>6, <1>7, <1>8

LEMMA StayIs ==
  ASSUME NEW m, NEW fl \in Seq(FlowEntry), NEW t, NEW p \in Nat, Stay(m, fl, t, p)
  PROVE  /\ SubSeq(fl, 1, p) \in Seq(FlowEntry) /\ p \in Nat
         /\ Len(fl) \in Nat /\ DOMAIN fl = 1 .. Len(fl) /\ p <= Len(fl)
         /\ Len(SubSeq(fl, 1, p)) = p /\ DOMAIN SubSeq(fl, 1, p) = 1 .. p
         /\ \A k \in 1 .. p : SubSeq(fl, 1, p)[k] = fl[k] /\ k \in DOMAIN fl
         /\ \A k \in DOMAIN fl : k \in 1 .. p \/ Gone(m, fl[k], t)
<1>1. p \in Nat /\ Len(fl) \in Nat /\ DOMAIN fl = 1 .. Len(fl) /\ p <= Len(fl)
  BY DEF Stay
<1>2. \A k \in 1 .. p : fl[k] \in FlowEntry /\ k \in DOMAIN fl
  BY <1>1
<1> DEFINE g == SubSeq(fl, 1, p)
<1>3. g \in Seq(FlowEntry) /\ Len(g) = p /\ \A k \in 1 .. p : g[k] = fl[k]
  BY <1>1, <1>2, SubSeqProperties
<1>4. \A k \in DOMAIN fl : k \in 1 .. p \/ Gone(m, fl[k], t)
  BY <1>1 DEF Stay
<1> QED  BY <1>1, <1>2, <1>3, <1>4

\* The entries that stay are those of the handlers that hold the target, and
\* those that go are of catches the leave leaves.
LEMMA StayHolds ==
  ASSUME NEW m \in Methods, NEW fl \in Seq(FlowEntry), NEW o \in Nat, NEW t \in Nat,
         Fits(m, fl, o, 0), LeavesWell(m, o, t), NEW p \in Nat, Stay(m, fl, t, p)
  PROVE  /\ \A k \in 1 .. p : Same(Cl(m, fl[k].next), o, t)
         /\ \A k \in DOMAIN fl : k \in 1 .. p \/
              (/\ Cl(m, fl[k].next).flags \in Catching
               /\ InHandler(Cl(m, fl[k].next), o) /\ ~InHandler(Cl(m, fl[k].next), t))
<1>1. \A i \in DOMAIN clauses[m] :
        /\ InHandler(Cl(m, i), t) => InHandler(Cl(m, i), o)
        /\ InFilter(Cl(m, i), o) <=> InFilter(Cl(m, i), t)
        /\ (Cl(m, i).flags \in {"Finally", "Fault"} /\ InHandler(Cl(m, i), o)) => InHandler(Cl(m, i), t)
  BY DEF LeavesWell, Cl
<1>2. \A k \in DOMAIN fl :
        /\ fl[k].next \in DOMAIN clauses[m] /\ Around(Cl(m, fl[k].next), o)
        /\ fl[k].type \in EntryTypes(Cl(m, fl[k].next), o)
  BY DEF Fits, Listed
<1>3. ASSUME NEW k \in DOMAIN fl, ~InFilter(Cl(m, fl[k].next), o)
      PROVE  /\ fl[k].type = "Catch" <=> Cl(m, fl[k].next).flags \in Catching
             /\ Cl(m, fl[k].next).flags \in Catching \cup {"Finally", "Fault"}
  <2>1. Cl(m, fl[k].next).flags \in Catching \cup {"Finally", "Fault"}
    BY <1>2, TypesOf DEF Catching, ClauseFlags
  <2> QED  BY <1>2, <1>3, <2>1, TypesOf DEF Catching
<1>4. ASSUME NEW k \in 1 .. p  PROVE Same(Cl(m, fl[k].next), o, t)
  <2> PICK j : j = fl[p].next
    OBVIOUS
  <2> PICK i : i = fl[k].next
    OBVIOUS
  <2>1. p \in DOMAIN fl /\ k \in DOMAIN fl /\ ~Gone(m, fl[p], t) /\ p \in Nat
    BY StayIs DEF Stay
  <2>2. (InHandler(Cl(m, j), o) /\ InHandler(Cl(m, j), t)) \/ (InFilter(Cl(m, j), o) /\ InFilter(Cl(m, j), t))
    <3>1. CASE InFilter(Cl(m, j), o)
      BY <1>1, <1>2, <2>1, <3>1
    <3>2. CASE ~InFilter(Cl(m, j), o)
      BY <1>1, <1>2, <1>3, <2>1, <3>2 DEF Gone, Around
    <3> QED  BY <3>1, <3>2
  <2>3. (InHandler(Cl(m, i), o) => InHandler(Cl(m, i), t))
    <3>1. CASE k = p
      BY <2>2, <2>1, <1>2, <3>1, Apart
    <3>2. CASE k < p
      <4>1. j < i
        BY <2>1, <3>2 DEF Fits, Descends
      <4> QED  BY <1>2, <2>1, <2>2, <4>1, Inside
    <3> QED  BY <2>1, <3>1, <3>2
  <2> QED  BY <1>1, <1>2, <2>1, <2>3 DEF Same
<1>5. ASSUME NEW k \in DOMAIN fl, Gone(m, fl[k], t)
      PROVE  /\ Cl(m, fl[k].next).flags \in Catching
             /\ InHandler(Cl(m, fl[k].next), o) /\ ~InHandler(Cl(m, fl[k].next), t)
  <2>1. ~InFilter(Cl(m, fl[k].next), o)
    BY <1>2, <1>5, TypesOf DEF Gone
  <2> QED  BY <1>2, <1>3, <1>5, <2>1 DEF Gone, Around
<1> QED  BY <1>4, <1>5, StayIs

\* A leave that goes straight to its target
LEMMA FitsLeave ==
  ASSUME NEW m \in Methods, NEW fl \in Seq(FlowEntry), NEW o \in Nat, NEW t \in Nat,
         Fits(m, fl, o, 0), LeavesWell(m, o, t), NEW p \in Nat, Stay(m, fl, t, p)
  PROVE  Fits(m, SubSeq(fl, 1, p), t, 0)
<1>0. SubSeq(fl, 1, p) \in Seq(FlowEntry)
  <2>1. p \in 0 .. Len(fl)
    BY DEF Stay
  <2>2. \A k \in 1 .. p : fl[k] \in FlowEntry
    BY <2>1
  <2> QED  BY <2>1, <2>2, SubSeqProperties
<1> PICK gl \in Seq(FlowEntry) : gl = SubSeq(fl, 1, p)
  BY <1>0
<1>1. /\ DOMAIN gl = 1 .. p /\ \A k \in 1 .. p : gl[k] = fl[k] /\ k \in DOMAIN fl
      /\ \A k \in DOMAIN fl : k \in 1 .. p \/ Gone(m, fl[k], t)
  <2>1. /\ DOMAIN SubSeq(fl, 1, p) = 1 .. p
        /\ \A k \in 1 .. p : SubSeq(fl, 1, p)[k] = fl[k] /\ k \in DOMAIN fl
        /\ \A k \in DOMAIN fl : k \in 1 .. p \/ Gone(m, fl[k], t)
    BY StayIs
  <2> QED  BY <2>1
<1>2. \A k \in 1 .. p : Same(Cl(m, fl[k].next), o, t)
  BY StayHolds
<1>3. Leaves(fl, gl) /\ Leaves(gl, fl)
  <2>1. \A k \in DOMAIN fl : fl[k].type = "Leave" => k \in 1 .. p
    BY <1>1 DEF Gone
  <2> QED  BY <1>1, <2>1 DEF Leaves
<1>4. \A i : Left(m, fl, i) <=> Left(m, gl, i)
  BY <1>3, LeftMore
<1>5. Listed(m, gl, t)
  <2> SUFFICES ASSUME NEW k \in 1 .. p
               PROVE  /\ fl[k].next \in DOMAIN clauses[m]
                      /\ Around(Cl(m, fl[k].next), t) /\ ~Left(m, gl, fl[k].next)
                      /\ fl[k].type \in EntryTypes(Cl(m, fl[k].next), t)
    BY <1>1 DEF Listed
  <2>1. /\ fl[k].next \in DOMAIN clauses[m]
        /\ Around(Cl(m, fl[k].next), o) /\ ~Left(m, fl, fl[k].next)
        /\ fl[k].type \in EntryTypes(Cl(m, fl[k].next), o)
    BY <1>1 DEF Fits, Listed
  <2>2. Same(Cl(m, fl[k].next), o, t)
    BY <1>2
  <2> QED  BY <1>4, <2>1, <2>2, SameIs
<1>6. Descends(gl)
  BY <1>1 DEF Fits, Descends
<1>7. Complete(m, gl, t, 0)
  <2> SUFFICES ASSUME NEW i \in DOMAIN clauses[m], Around(Cl(m, i), t), i > 0, ~Left(m, gl, i)
               PROVE  \E k \in DOMAIN gl : gl[k].next = i
    BY DEF Complete
  <2>1. /\ InHandler(Cl(m, i), t) => InHandler(Cl(m, i), o)
        /\ InFilter(Cl(m, i), o) <=> InFilter(Cl(m, i), t)
    BY DEF LeavesWell, Cl
  <2>2. Around(Cl(m, i), o) /\ ~Left(m, fl, i)
    BY <1>4, <2>1 DEF Around
  <2>3. PICK k \in DOMAIN fl : fl[k].next = i
    BY <2>2 DEF Fits, Complete
  <2>4. k \in 1 .. p
    <3> SUFFICES ASSUME k \notin 1 .. p  PROVE FALSE
      OBVIOUS
    <3>1. InHandler(Cl(m, i), o) /\ ~InHandler(Cl(m, i), t)
      BY <2>3, StayHolds
    <3> QED  BY <2>1, <3>1, Apart DEF Around
  <2> QED  BY <1>1, <2>3, <2>4
<1> QED  BY <1>5, <1>6, <1>7 DEF Fits

\* A leave that runs finally h first; e is its entry.
LEMMA FitsLeaveEx ==
  ASSUME NEW m \in Methods, NEW fl \in Seq(FlowEntry), NEW o \in Nat, NEW t \in Nat,
         Fits(m, fl, o, 0), LeavesWell(m, o, t), NEW p \in Nat, Stay(m, fl, t, p),
         NEW h \in DOMAIN clauses[m], Cl(m, h).flags = "Finally",
         InTry(Cl(m, h), o), ~InTry(Cl(m, h), t),
         NEW b \in Nat, InHandler(Cl(m, h), b), EntersOnly(m, b, h .. Len(clauses[m])),
         NEW gl \in Seq(FlowEntry), Len(gl) = p + 1, \A k \in 1 .. p : gl[k] = fl[k],
         gl[p + 1].type = "Leave", gl[p + 1].next = h,
         gl[p + 1].throwOffset = o, gl[p + 1].target = t
  PROVE  Fits(m, gl, b, 0)
<1>1. /\ p \in Nat /\ DOMAIN gl = 1 .. (p + 1) /\ \A k \in 1 .. p : k \in DOMAIN fl
      /\ \A k \in DOMAIN fl : k \in 1 .. p \/ Gone(m, fl[k], t)
      /\ gl # <<>>
  <2>1. /\ p \in Nat /\ \A k \in 1 .. p : k \in DOMAIN fl
        /\ \A k \in DOMAIN fl : k \in 1 .. p \/ Gone(m, fl[k], t)
    BY StayIs
  <2>2. DOMAIN gl = 1 .. (p + 1)
    BY <2>1
  <2>3. gl # <<>>
    BY <2>1
  <2> QED  BY <2>1, <2>2, <2>3
<1>2. DOMAIN clauses[m] = 1 .. Len(clauses[m]) /\ Len(clauses[m]) \in Nat
  BY ClauseType
<1>3. \A k \in 1 .. p : Same(Cl(m, fl[k].next), o, t)
  BY StayHolds
<1>4. \A k \in DOMAIN fl : k \in 1 .. p \/
              (/\ Cl(m, fl[k].next).flags \in Catching
               /\ InHandler(Cl(m, fl[k].next), o) /\ ~InHandler(Cl(m, fl[k].next), t))
  BY StayHolds
<1>5. \A i \in DOMAIN clauses[m] :
        (Left(m, gl, i) <=> Left(m, fl, i) \/ (/\ Cl(m, i).flags \in Catching
                                               /\ InHandler(Cl(m, i), o) /\ ~InHandler(Cl(m, i), t)))
  <2> SUFFICES ASSUME NEW i \in DOMAIN clauses[m]
               PROVE  (Left(m, gl, i) <=> Left(m, fl, i) \/ (/\ Cl(m, i).flags \in Catching
                                               /\ InHandler(Cl(m, i), o) /\ ~InHandler(Cl(m, i), t)))
    OBVIOUS
  <2>1. \A k \in DOMAIN fl : fl[k].type = "Leave" => k \in 1 .. p
    BY <1>1 DEF Gone
  <2>2. Left(m, fl, i) => Left(m, gl, i)
    <3>1. \A k \in DOMAIN fl : fl[k].type = "Leave" => k \in DOMAIN gl /\ gl[k] = fl[k]
      BY <1>1, <2>1
    <3>2. Leaves(fl, gl)
      BY <3>1 DEF Leaves
    <3> QED  BY <3>2, LeftMore
  <2>3. ASSUME Left(m, gl, i)
        PROVE  Left(m, fl, i) \/ (/\ Cl(m, i).flags \in Catching
                                  /\ InHandler(Cl(m, i), o) /\ ~InHandler(Cl(m, i), t))
    <3>1. PICK k \in 1 .. (p + 1) : /\ gl[k].type = "Leave" /\ InHandler(Cl(m, i), gl[k].throwOffset)
                                    /\ ~InHandler(Cl(m, i), gl[k].target)
      BY <1>1, <2>3 DEF Left
    <3>2. CASE k = p + 1
      BY <2>3, <3>1, <3>2 DEF Left
    <3>3. CASE k \in 1 .. p
      BY <1>1, <2>3, <3>1, <3>3 DEF Left
    <3> QED  BY <1>1, <3>2, <3>3
  <2>4. ASSUME Cl(m, i).flags \in Catching, InHandler(Cl(m, i), o), ~InHandler(Cl(m, i), t)
        PROVE  Left(m, gl, i)
    <3>1. p + 1 \in DOMAIN gl
      BY <1>1
    <3> QED  BY <2>4, <3>1 DEF Left
  <2> QED  BY <2>2, <2>3, <2>4
<1>6. Within(Cl(m, h), o) /\ Around(Cl(m, h), b)
  BY DEF Within, Around
<1>7. gl[p + 1].type \in EntryTypes(Cl(m, h), b)
  BY Apart, TypesOf
<1>8. ~Left(m, gl, h)
  BY DEF Left, Catching
<1>9. ASSUME NEW k \in 1 .. p
      PROVE  /\ gl[k].next \in DOMAIN clauses[m] /\ gl[k].next > h
             /\ Around(Cl(m, gl[k].next), o) /\ gl[k].type \in EntryTypes(Cl(m, gl[k].next), o)
             /\ ~Left(m, gl, gl[k].next)
  <2> PICK i : i = fl[k].next
    OBVIOUS
  <2>1. /\ i \in DOMAIN clauses[m] /\ Around(Cl(m, i), o) /\ ~Left(m, fl, i)
        /\ fl[k].type \in EntryTypes(Cl(m, i), o)
    BY <1>1 DEF Fits, Listed
  <2>2. Same(Cl(m, i), o, t)
    BY <1>3
  <2>3. ~Left(m, gl, i)
    BY <1>5, <2>1, <2>2 DEF Same
  <2>4. i # h
    BY <2>1, Apart
  <2>5. ~(i < h)
    <3> SUFFICES ASSUME i < h  PROVE FALSE
      OBVIOUS
    <3>1. (InHandler(Cl(m, i), o) /\ InHandler(Cl(m, i), t)) \/ (InFilter(Cl(m, i), o) /\ InFilter(Cl(m, i), t))
      BY <2>1, <2>2 DEF Same, Around
    <3> QED  BY <2>1, <3>1, Inside
  <2> QED  BY <1>2, <2>1, <2>3, <2>4, <2>5
<1>10. \A j, k \in 1 .. p : j < k => gl[k].next < gl[j].next
  BY <1>1 DEF Fits, Descends
<1>11. ASSUME NEW j \in DOMAIN clauses[m], j > h, Around(Cl(m, j), o), ~Left(m, gl, j)
       PROVE  \E k \in 1 .. p : gl[k].next = j
  <2>1. ~Left(m, fl, j) /\ j > 0
    BY <1>2, <1>5, <1>11
  <2>2. PICK k \in DOMAIN fl : fl[k].next = j
    BY <1>11, <2>1 DEF Fits, Complete
  <2>3. k \in 1 .. p
    BY <1>4, <1>5, <1>11, <2>2
  <2> QED  BY <2>2, <2>3
<1> QED
  <2>1. Len(gl) = p + 1 /\ Len(gl) - 1 = p
    BY <1>1
  <2>2. /\ h = gl[Len(gl)].next /\ gl[Len(gl)].type \in EntryTypes(Cl(m, h), b)
    BY <1>7, <2>1
  <2>3. \A k \in 1 .. (Len(gl) - 1) :
           /\ gl[k].next \in DOMAIN clauses[m] /\ gl[k].next > h
           /\ Around(Cl(m, gl[k].next), o) /\ gl[k].type \in EntryTypes(Cl(m, gl[k].next), o)
           /\ ~Left(m, gl, gl[k].next)
    BY <1>9, <2>1
  <2>4. \A j, k \in 1 .. (Len(gl) - 1) : j < k => gl[k].next < gl[j].next
    BY <1>10, <2>1
  <2>5. \A j \in DOMAIN clauses[m] : (j > h /\ Around(Cl(m, j), o) /\ ~Left(m, gl, j)) =>
           \E k \in 1 .. (Len(gl) - 1) : gl[k].next = j
    BY <1>11, <2>1
  <2> QED  BY <1>1, <1>6, <1>8, <2>2, <2>3, <2>4, <2>5, FitsEnter

\* e is the top entry of fl, a leave in progress whose finally i ends: the
\* entries below are of outer handlers, and those hold the target.
LEMMA BelowLeave ==
  ASSUME NEW m \in Methods, NEW fl \in Seq(FlowEntry), NEW o \in Nat, Fits(m, fl, o, 0), fl # <<>>,
         NEW i \in DOMAIN clauses[m], i = fl[Len(fl)].next, fl[Len(fl)].type = "Leave",
         NEW x \in Nat, x = fl[Len(fl)].throwOffset, NEW t \in Nat, t = fl[Len(fl)].target,
         InTry(Cl(m, i), x), LeavesWell(m, x, t)
  PROVE  /\ \A k \in 1 .. (Len(fl) - 1) : fl[k].next > i /\ Same(Cl(m, fl[k].next), o, t)
         /\ \A j \in DOMAIN clauses[m] : j > i => Same(Cl(m, j), o, x)
<1>1. DOMAIN fl = 1 .. Len(fl) /\ Len(fl) \in Nat \ {0}
  BY FrontIs
<1>2. DOMAIN clauses[m] = 1 .. Len(clauses[m]) /\ Len(clauses[m]) \in Nat
  BY ClauseType
<1>3. Around(Cl(m, i), o)
  BY <1>1 DEF Fits, Listed
<1>4. ASSUME NEW j \in DOMAIN clauses[m], j > i  PROVE Same(Cl(m, j), o, x)
  <2>1. i < j
    BY <1>2, <1>4
  <2> QED  BY <1>3, <2>1, OutsideSame DEF Within
<1>5. ASSUME NEW k \in 1 .. (Len(fl) - 1)  PROVE fl[k].next > i /\ Same(Cl(m, fl[k].next), o, t)
  <2> PICK j : j = fl[k].next
    OBVIOUS
  <2>1. /\ j \in DOMAIN clauses[m] /\ Around(Cl(m, j), o) /\ ~Left(m, fl, j)
        /\ fl[k].type \in EntryTypes(Cl(m, j), o)
    BY <1>1 DEF Fits, Listed
  <2>2. j > i
    BY <1>1, <1>2, <2>1 DEF Fits, Descends
  <2>3. Same(Cl(m, j), o, x)
    BY <1>4, <2>1, <2>2
  <2>4. /\ InHandler(Cl(m, j), t) => InHandler(Cl(m, j), x)
        /\ InFilter(Cl(m, j), x) <=> InFilter(Cl(m, j), t)
        /\ (Cl(m, j).flags \in {"Finally", "Fault"} /\ InHandler(Cl(m, j), x)) => InHandler(Cl(m, j), t)
    BY <2>1 DEF LeavesWell, Cl
  <2>5. Cl(m, j).flags \in Catching \cup {"Finally", "Fault"}
    BY <2>1, TypesOf DEF Catching, ClauseFlags
  <2>6. ~(Cl(m, j).flags \in Catching /\ InHandler(Cl(m, j), x) /\ ~InHandler(Cl(m, j), t))
    BY <1>1, <2>1 DEF Left
  <2>7. Same(Cl(m, j), x, t)
    BY <2>4, <2>5, <2>6 DEF Same
  <2> QED  BY <2>2, <2>3, <2>7 DEF Same
<1> QED  BY <1>4, <1>5

\* The last finally of a leave ends: control goes to the target.
LEMMA FitsLand ==
  ASSUME NEW m \in Methods, NEW fl \in Seq(FlowEntry), NEW o \in Nat, Fits(m, fl, o, 0), fl # <<>>,
         NEW i \in DOMAIN clauses[m], i = fl[Len(fl)].next, fl[Len(fl)].type = "Leave",
         NEW x \in Nat, x = fl[Len(fl)].throwOffset, NEW t \in Nat, t = fl[Len(fl)].target,
         InTry(Cl(m, i), x), ~InTry(Cl(m, i), t), LeavesWell(m, x, t)
  PROVE  Fits(m, SubSeq(fl, 1, Len(fl) - 1), t, 0)
<1>0. SubSeq(fl, 1, Len(fl) - 1) \in Seq(FlowEntry)
  BY FrontIs
<1> PICK gl \in Seq(FlowEntry) : gl = SubSeq(fl, 1, Len(fl) - 1)
  BY <1>0
<1>1. /\ DOMAIN fl = 1 .. Len(fl) /\ Len(fl) \in Nat \ {0} /\ DOMAIN gl = 1 .. (Len(fl) - 1)
      /\ \A k \in DOMAIN gl : gl[k] = fl[k]
  BY FrontIs
<1>2. DOMAIN clauses[m] = 1 .. Len(clauses[m]) /\ Len(clauses[m]) \in Nat
  BY ClauseType
<1>3. /\ \A k \in 1 .. (Len(fl) - 1) : fl[k].next > i /\ Same(Cl(m, fl[k].next), o, t)
      /\ \A j \in DOMAIN clauses[m] : j > i => Same(Cl(m, j), o, x)
  BY BelowLeave
<1>4. Leaves(gl, fl)
  <2>1. \A k \in DOMAIN gl : k \in DOMAIN fl
    BY <1>1
  <2> QED  BY <1>1, <2>1 DEF Leaves
<1>5. Listed(m, gl, t)
  <2> SUFFICES ASSUME NEW k \in 1 .. (Len(fl) - 1)
               PROVE  /\ fl[k].next \in DOMAIN clauses[m]
                      /\ Around(Cl(m, fl[k].next), t) /\ ~Left(m, gl, fl[k].next)
                      /\ fl[k].type \in EntryTypes(Cl(m, fl[k].next), t)
    BY <1>1 DEF Listed
  <2>1. /\ fl[k].next \in DOMAIN clauses[m]
        /\ Around(Cl(m, fl[k].next), o) /\ ~Left(m, fl, fl[k].next)
        /\ fl[k].type \in EntryTypes(Cl(m, fl[k].next), o)
    BY <1>1 DEF Fits, Listed
  <2>2. Same(Cl(m, fl[k].next), o, t)
    BY <1>3
  <2>3. ~Left(m, gl, fl[k].next)
    BY <1>4, <2>1, LeftMore
  <2> QED  BY <2>1, <2>2, <2>3, SameIs
<1>6. Descends(gl)
  BY <1>1 DEF Fits, Descends
<1>7. Complete(m, gl, t, 0)
  <2> SUFFICES ASSUME NEW j \in DOMAIN clauses[m], Around(Cl(m, j), t), j > 0, ~Left(m, gl, j)
               PROVE  \E k \in DOMAIN gl : gl[k].next = j
    BY DEF Complete
  <2>1. /\ InHandler(Cl(m, j), t) => InHandler(Cl(m, j), x)
        /\ InFilter(Cl(m, j), x) <=> InFilter(Cl(m, j), t)
    BY DEF LeavesWell, Cl
  <2>2. j # i
    BY <2>1, Apart DEF Around
  <2>3. ~(j < i)
    <3> SUFFICES ASSUME j < i  PROVE FALSE
      OBVIOUS
    <3>1. (InHandler(Cl(m, j), x) /\ InHandler(Cl(m, j), t)) \/ (InFilter(Cl(m, j), x) /\ InFilter(Cl(m, j), t))
      BY <2>1 DEF Around
    <3> QED  BY <3>1, Inside
  <2>4. j > i
    BY <1>2, <2>2, <2>3
  <2>5. Around(Cl(m, j), o)
    BY <1>3, <2>1, <2>4 DEF Same, Around
  <2>6. ~Left(m, fl, j)
    <3> SUFFICES ASSUME Left(m, fl, j)  PROVE FALSE
      OBVIOUS
    <3>1. PICK k \in DOMAIN fl : /\ fl[k].type = "Leave" /\ InHandler(Cl(m, j), fl[k].throwOffset)
                                 /\ ~InHandler(Cl(m, j), fl[k].target)
      BY DEF Left
    <3>2. CASE k = Len(fl)
      <4>1. InHandler(Cl(m, j), x) /\ ~InHandler(Cl(m, j), t)
        BY <3>1, <3>2
      <4> QED  BY <2>1, <4>1, Apart DEF Around
    <3>3. CASE k \in DOMAIN gl
      BY <1>1, <3>1, <3>3 DEF Left
    <3> QED  BY <1>1, <3>2, <3>3
  <2>7. PICK k \in DOMAIN fl : fl[k].next = j
    BY <2>5, <2>6 DEF Fits, Complete
  <2>8. k \in DOMAIN gl
    BY <1>1, <2>2, <2>7
  <2> QED  BY <1>1, <2>7, <2>8
<1> QED  BY <1>5, <1>6, <1>7 DEF Fits

\* A finally of a leave ends and the leave's next finally h begins.
LEMMA FitsNext ==
  ASSUME NEW m \in Methods, NEW fl \in Seq(FlowEntry), NEW o \in Nat, Fits(m, fl, o, 0), fl # <<>>,
         NEW i \in DOMAIN clauses[m], i = fl[Len(fl)].next, fl[Len(fl)].type = "Leave",
         NEW x \in Nat, x = fl[Len(fl)].throwOffset, NEW t \in Nat, t = fl[Len(fl)].target,
         InTry(Cl(m, i), x), LeavesWell(m, x, t),
         NEW h \in DOMAIN clauses[m], h > i, Cl(m, h).flags = "Finally",
         InTry(Cl(m, h), x), ~InTry(Cl(m, h), t),
         NEW b \in Nat, InHandler(Cl(m, h), b), EntersOnly(m, b, h .. Len(clauses[m])),
         NEW gl \in Seq(FlowEntry), Len(gl) = Len(fl), \A k \in 1 .. (Len(fl) - 1) : gl[k] = fl[k],
         gl[Len(fl)].next = h, gl[Len(fl)].type = "Leave",
         gl[Len(fl)].throwOffset = x, gl[Len(fl)].target = t
  PROVE  Fits(m, gl, b, 0)
<1>1. /\ DOMAIN fl = 1 .. Len(fl) /\ Len(fl) \in Nat \ {0} /\ DOMAIN gl = 1 .. Len(fl) /\ gl # <<>>
  <2>1. DOMAIN fl = 1 .. Len(fl) /\ Len(fl) \in Nat \ {0}
    BY FrontIs
  <2>2. gl # <<>>
    BY <2>1
  <2> QED  BY <2>1, <2>2
<1>2. DOMAIN clauses[m] = 1 .. Len(clauses[m]) /\ Len(clauses[m]) \in Nat
  BY ClauseType
<1>3. /\ \A k \in 1 .. (Len(fl) - 1) : fl[k].next > i /\ Same(Cl(m, fl[k].next), o, t)
      /\ \A j \in DOMAIN clauses[m] : j > i => Same(Cl(m, j), o, x)
  BY BelowLeave
<1>4. /\ gl[Len(fl)].next = h /\ gl[Len(fl)].type = "Leave"
      /\ gl[Len(fl)].throwOffset = x /\ gl[Len(fl)].target = t
  OBVIOUS
<1>5. Leaves(gl, fl) /\ Leaves(fl, gl)
  <2>1. \A k \in DOMAIN fl : gl[k].type = fl[k].type /\ gl[k].throwOffset = fl[k].throwOffset
                             /\ gl[k].target = fl[k].target
    <3> SUFFICES ASSUME NEW k \in DOMAIN fl
                 PROVE  gl[k].type = fl[k].type /\ gl[k].throwOffset = fl[k].throwOffset
                        /\ gl[k].target = fl[k].target
      OBVIOUS
    <3>1. CASE k = Len(fl)
      BY <1>4, <3>1
    <3>2. CASE k \in 1 .. (Len(fl) - 1)
      BY <3>2
    <3> QED  BY <1>1, <3>1, <3>2
  <2> QED  BY <1>1, <2>1 DEF Leaves
<1>6. \A j : Left(m, fl, j) <=> Left(m, gl, j)
  BY <1>5, LeftMore
<1>7. InTry(Cl(m, h), o)
  <2>1. Around(Cl(m, i), o)
    BY <1>1 DEF Fits, Listed
  <2>2. i < h
    BY <1>2
  <2> QED  BY <2>1, <2>2, Outside DEF Within
<1>8. Within(Cl(m, h), o) /\ Around(Cl(m, h), b)
  BY <1>7 DEF Within, Around
<1>9. gl[Len(fl)].type \in EntryTypes(Cl(m, h), b)
  BY <1>4, Apart, TypesOf
<1>10. ~Left(m, gl, h)
  BY DEF Left, Catching
<1>11. ASSUME NEW k \in 1 .. (Len(fl) - 1)
       PROVE  /\ gl[k].next \in DOMAIN clauses[m] /\ gl[k].next > h
              /\ Around(Cl(m, gl[k].next), o) /\ gl[k].type \in EntryTypes(Cl(m, gl[k].next), o)
              /\ ~Left(m, gl, gl[k].next)
  <2>0. k \in DOMAIN fl /\ gl[k] = fl[k]
    BY <1>1
  <2>5. PICK j : j = fl[k].next
    OBVIOUS
  <2>1. /\ j \in DOMAIN clauses[m] /\ Around(Cl(m, j), o) /\ ~Left(m, fl, j)
        /\ fl[k].type \in EntryTypes(Cl(m, j), o)
    BY <2>0, <2>5 DEF Fits, Listed
  <2>2. Same(Cl(m, j), o, t)
    BY <1>3, <2>5
  <2>3. j # h
    BY <1>7, <2>1, Apart
  <2>4. ~(j < h)
    <3> SUFFICES ASSUME j < h  PROVE FALSE
      OBVIOUS
    <3>1. (InHandler(Cl(m, j), o) /\ InHandler(Cl(m, j), t)) \/ (InFilter(Cl(m, j), o) /\ InFilter(Cl(m, j), t))
      BY <2>1, <2>2 DEF Same, Around
    <3> QED  BY <1>7, <2>1, <3>1, Inside
  <2>6. j > h /\ ~Left(m, gl, j)
    BY <1>2, <1>6, <2>1, <2>3, <2>4
  <2> QED  BY <2>0, <2>1, <2>5, <2>6
<1>12. \A j, k \in 1 .. (Len(fl) - 1) : j < k => gl[k].next < gl[j].next
  <2>1. Descends(fl)
    BY DEF Fits
  <2>2. \A k \in 1 .. (Len(fl) - 1) : k \in DOMAIN fl
    BY <1>1
  <2>3. \A j, k \in 1 .. (Len(fl) - 1) : j < k => fl[k].next < fl[j].next
    BY <2>1, <2>2 DEF Descends
  <2> QED  BY <2>3
<1>13. ASSUME NEW j \in DOMAIN clauses[m], j > h, Around(Cl(m, j), o), ~Left(m, gl, j)
       PROVE  \E k \in 1 .. (Len(fl) - 1) : gl[k].next = j
  <2>1. ~Left(m, fl, j) /\ j > 0 /\ j # i
    BY <1>2, <1>6, <1>13
  <2>2. PICK k \in DOMAIN fl : fl[k].next = j
    BY <1>13, <2>1 DEF Fits, Complete
  <2>3. k \in 1 .. (Len(fl) - 1)
    BY <1>1, <2>1, <2>2
  <2> QED  BY <2>2, <2>3
<1> QED
  <2>2. /\ h = gl[Len(gl)].next /\ gl[Len(gl)].type \in EntryTypes(Cl(m, h), b)
    BY <1>4, <1>9
  <2>3. \A k \in 1 .. (Len(gl) - 1) :
           /\ gl[k].next \in DOMAIN clauses[m] /\ gl[k].next > h
           /\ Around(Cl(m, gl[k].next), o) /\ gl[k].type \in EntryTypes(Cl(m, gl[k].next), o)
           /\ ~Left(m, gl, gl[k].next)
    BY <1>11
  <2>4. \A j, k \in 1 .. (Len(gl) - 1) : j < k => gl[k].next < gl[j].next
    BY <1>12
  <2>5. \A j \in DOMAIN clauses[m] : (j > h /\ Around(Cl(m, j), o) /\ ~Left(m, gl, j)) =>
           \E k \in 1 .. (Len(gl) - 1) : gl[k].next = j
    BY <1>13
  <2> QED  BY <1>1, <1>8, <1>10, <2>2, <2>3, <2>4, <2>5, FitsEnter
-----------------------------------------------------------------------------
(* The search *)

\* The candidate i takes the exception raised at x; its handler or filter
\* begins at b, inside what the entry below the top belongs to.
LEMMA FitsHandler ==
  ASSUME NEW m \in Methods, NEW fl \in Seq(FlowEntry), fl # <<>>,
         NEW x \in Nat, NEW n \in Nat, NEW d, Fits(m, SubSeq(fl, 1, Len(fl) - 1), x, n),
         \A k \in 1 .. (Len(fl) - 1) : Settled(m, fl[k], d),
         NEW i \in DOMAIN clauses[m], i = n + 1, InTry(Cl(m, i), x),
         NEW b \in Nat, Around(Cl(m, i), b), EntersOnly(m, b, i .. Len(clauses[m])),
         Len(fl) >= 2 => Around(Cl(m, fl[Len(fl) - 1].next), b),
         NEW gl \in Seq(FlowEntry), Len(gl) = Len(fl), \A k \in 1 .. (Len(fl) - 1) : gl[k] = fl[k],
         gl[Len(fl)].next = i, gl[Len(fl)].type # "Leave",
         gl[Len(fl)].type \in EntryTypes(Cl(m, i), b)
  PROVE  Fits(m, gl, b, 0)
<1>0. SubSeq(fl, 1, Len(fl) - 1) \in Seq(FlowEntry)
  BY FrontIs
<1> PICK fr \in Seq(FlowEntry) : fr = SubSeq(fl, 1, Len(fl) - 1)
  BY <1>0
<1>1. /\ DOMAIN fl = 1 .. Len(fl) /\ Len(fl) \in Nat \ {0} /\ DOMAIN fr = 1 .. (Len(fl) - 1)
      /\ \A k \in 1 .. (Len(fl) - 1) : fr[k] = fl[k]
  BY FrontIs
<1>2. DOMAIN gl = 1 .. Len(fl) /\ gl # <<>> /\ \A k \in 1 .. (Len(fl) - 1) : gl[k] = fr[k]
  <2>1. gl # <<>>
    BY <1>1
  <2> QED  BY <1>1, <2>1
<1>3. DOMAIN clauses[m] = 1 .. Len(clauses[m]) /\ Len(clauses[m]) \in Nat
  BY ClauseType
<1>4. Leaves(gl, fr) /\ Leaves(fr, gl)
  <2>1. \A k \in DOMAIN gl : gl[k].type = "Leave" => k \in DOMAIN fr
    BY <1>1, <1>2
  <2>2. DOMAIN fr \subseteq DOMAIN gl
    BY <1>1, <1>2
  <2> QED  BY <1>1, <1>2, <2>1, <2>2 DEF Leaves
<1>5. \A j : Left(m, fr, j) <=> Left(m, gl, j)
  BY <1>4, LeftMore
<1>6. \A k \in 1 .. (Len(fl) - 1) :
        /\ gl[k].next \in DOMAIN clauses[m]
        /\ Around(Cl(m, gl[k].next), x) /\ gl[k].type \in EntryTypes(Cl(m, gl[k].next), x)
        /\ ~Left(m, gl, gl[k].next)
  BY <1>1, <1>2, <1>5 DEF Fits, Listed
<1>7. \A j, k \in 1 .. (Len(fl) - 1) : j < k => gl[k].next < gl[j].next
  BY <1>1, <1>2 DEF Fits, Descends
<1>8. ASSUME NEW k \in 1 .. (Len(fl) - 1)  PROVE gl[k].next > i
  <2> PICK l : l = Len(fl) - 1
    OBVIOUS
  <2>1. l \in 1 .. (Len(fl) - 1) /\ Len(fl) >= 2 /\ gl[l] = fl[l]
    BY <1>1
  <2>2. gl[l].next \in i .. Len(clauses[m])
    BY <1>6, <2>1 DEF EntersOnly, Around, Cl
  <2>3. gl[l].next # i
    BY <1>6, <2>1, Apart
  <2>4. gl[l].next > i
    BY <1>3, <2>2, <2>3
  <2>5. k = l \/ gl[l].next < gl[k].next
    BY <1>1, <1>7, <2>1
  <2> QED  BY SMTT(20), <1>3, <1>6, <2>1, <2>4, <2>5
<1>9. ~Left(m, gl, i)
  <2> SUFFICES ASSUME NEW k \in DOMAIN gl, gl[k].type = "Leave", InHandler(Cl(m, i), gl[k].throwOffset)
               PROVE  FALSE
    BY DEF Left
  <2>1. k \in 1 .. (Len(fl) - 1) /\ gl[k] = fl[k]
    BY <1>1, <1>2
  <2>2. PICK y \in Nat : y = gl[k].throwOffset
    <3>1. gl[k] \in FlowEntry
      OBVIOUS
    <3> QED  BY <3>1 DEF FlowEntry
  <2>3. PICK g \in DOMAIN clauses[m] : g = gl[k].next
    BY <1>6, <2>1
  <2>4. InTry(Cl(m, g), y) /\ Around(Cl(m, g), x) /\ "Leave" \in EntryTypes(Cl(m, g), x) /\ i < g
    BY <1>3, <1>6, <1>8, <2>1, <2>2, <2>3 DEF Settled
  <2>5. InHandler(Cl(m, g), x)
    BY <2>4, TypesOf DEF Around
  <2>6. InHandler(Cl(m, g), y)
    BY <2>2, <2>4, <2>5, Outside DEF Within, Around
  <2> QED  BY <2>4, <2>6, Apart DEF Around
<1>10. ASSUME NEW j \in DOMAIN clauses[m], j > i, Around(Cl(m, j), x), ~Left(m, gl, j)
       PROVE  \E k \in 1 .. (Len(fl) - 1) : gl[k].next = j
  <2>1. j > n /\ ~Left(m, fr, j)
    BY <1>3, <1>5, <1>10
  <2>2. PICK k \in DOMAIN fr : fr[k].next = j
    BY <1>10, <2>1 DEF Fits, Complete
  <2> QED  BY <1>1, <1>2, <2>2
<1>11. Within(Cl(m, i), x)
  BY DEF Within
<1> QED
  <2>2. i = gl[Len(gl)].next /\ gl[Len(gl)].type \in EntryTypes(Cl(m, i), b)
    OBVIOUS
  <2>3. \A k \in 1 .. (Len(gl) - 1) :
           /\ gl[k].next \in DOMAIN clauses[m] /\ gl[k].next > i
           /\ Around(Cl(m, gl[k].next), x) /\ gl[k].type \in EntryTypes(Cl(m, gl[k].next), x)
           /\ ~Left(m, gl, gl[k].next)
    BY <1>6, <1>8
  <2>4. \A j, k \in 1 .. (Len(gl) - 1) : j < k => gl[k].next < gl[j].next
    BY <1>7
  <2>5. \A j \in DOMAIN clauses[m] : (j > i /\ Around(Cl(m, j), x) /\ ~Left(m, gl, j)) =>
           \E k \in 1 .. (Len(gl) - 1) : gl[k].next = j
    BY <1>10
  <2> QED  BY <1>2, <1>9, <1>11, <2>2, <2>3, <2>4, <2>5, FitsEnter

\* Filter i, around o, has accepted the exception; its handler begins at b.
LEMMA FitsCaught ==
  ASSUME NEW m \in Methods, NEW fl \in Seq(FlowEntry), fl # <<>>, NEW o \in Nat, NEW d, Fits(m, fl, o, 0),
         \A k \in DOMAIN fl : Settled(m, fl[k], d),
         NEW i \in DOMAIN clauses[m], i = fl[Len(fl)].next, InFilter(Cl(m, i), o),
         fl[Len(fl)].type = "Exception",
         NEW b \in Nat, InHandler(Cl(m, i), b), EntersOnly(m, b, i .. Len(clauses[m])),
         NEW gl \in Seq(FlowEntry), Len(gl) = Len(fl), \A k \in 1 .. (Len(fl) - 1) : gl[k] = fl[k],
         gl[Len(fl)].next = i, gl[Len(fl)].type = "Catch"
  PROVE  Fits(m, gl, b, 0)
<1>1. DOMAIN fl = 1 .. Len(fl) /\ Len(fl) \in Nat \ {0} /\ DOMAIN gl = 1 .. Len(fl) /\ gl # <<>>
  <2>1. DOMAIN fl = 1 .. Len(fl) /\ Len(fl) \in Nat \ {0}
    BY FrontIs
  <2>2. gl # <<>>
    BY <2>1
  <2> QED  BY <2>1, <2>2
<1>2. DOMAIN clauses[m] = 1 .. Len(clauses[m]) /\ Len(clauses[m]) \in Nat
  BY ClauseType
<1>3. Leaves(gl, fl) /\ Leaves(fl, gl)
  <2>1. \A k \in DOMAIN fl : (fl[k].type = "Leave" \/ gl[k].type = "Leave") => k \in 1 .. (Len(fl) - 1)
    BY <1>1
  <2> QED  BY <1>1, <2>1 DEF Leaves
<1>4. \A j : Left(m, fl, j) <=> Left(m, gl, j)
  BY <1>3, LeftMore
<1>5. ~Left(m, gl, i)
  BY <1>4, InnerLeaves DEF Fits
<1>6. \A k \in 1 .. (Len(fl) - 1) :
        /\ gl[k].next \in DOMAIN clauses[m] /\ gl[k].next > i
        /\ Around(Cl(m, gl[k].next), o) /\ gl[k].type \in EntryTypes(Cl(m, gl[k].next), o)
        /\ ~Left(m, gl, gl[k].next)
  <2> SUFFICES ASSUME NEW k \in 1 .. (Len(fl) - 1)
               PROVE  /\ fl[k].next \in DOMAIN clauses[m] /\ fl[k].next > i
                      /\ Around(Cl(m, fl[k].next), o) /\ fl[k].type \in EntryTypes(Cl(m, fl[k].next), o)
                      /\ ~Left(m, gl, fl[k].next)
    OBVIOUS
  <2>1. k \in DOMAIN fl /\ Len(fl) \in DOMAIN fl /\ k < Len(fl)
    BY <1>1
  <2>2. fl[k].next \in DOMAIN clauses[m] /\ i < fl[k].next
    BY <2>1 DEF Fits, Listed, Descends
  <2> QED  BY <1>2, <1>4, <2>1, <2>2 DEF Fits, Listed
<1>7. \A j, k \in 1 .. (Len(fl) - 1) : j < k => gl[k].next < gl[j].next
  <2>1. \A j, k \in DOMAIN fl : j < k => fl[k].next < fl[j].next
    BY DEF Fits, Descends
  <2>2. 1 .. (Len(fl) - 1) \subseteq DOMAIN fl
    BY <1>1
  <2> QED  BY <1>1, <2>1, <2>2
<1>8. ASSUME NEW j \in DOMAIN clauses[m], j > i, Around(Cl(m, j), o), ~Left(m, gl, j)
      PROVE  \E k \in 1 .. (Len(fl) - 1) : gl[k].next = j
  <2>1. ~Left(m, fl, j) /\ j > 0 /\ j # i
    BY <1>2, <1>4, <1>8
  <2>2. PICK k \in DOMAIN fl : fl[k].next = j
    BY <1>8, <2>1 DEF Fits, Complete
  <2>3. k \in 1 .. (Len(fl) - 1)
    BY <1>1, <2>1, <2>2
  <2> QED  BY <2>2, <2>3
<1>9. Within(Cl(m, i), o) /\ Around(Cl(m, i), b)
  BY DEF Within, Around
<1>10. "Catch" \in EntryTypes(Cl(m, i), b)
  BY Apart, TypesOf DEF Catching
<1> QED
  <2>2. i = gl[Len(gl)].next /\ gl[Len(gl)].type \in EntryTypes(Cl(m, i), b)
    BY <1>10
  <2>3. \A k \in 1 .. (Len(gl) - 1) :
           /\ gl[k].next \in DOMAIN clauses[m] /\ gl[k].next > i
           /\ Around(Cl(m, gl[k].next), o) /\ gl[k].type \in EntryTypes(Cl(m, gl[k].next), o)
           /\ ~Left(m, gl, gl[k].next)
    BY <1>6
  <2>4. \A j, k \in 1 .. (Len(gl) - 1) : j < k => gl[k].next < gl[j].next
    BY <1>7
  <2>5. \A j \in DOMAIN clauses[m] : (j > i /\ Around(Cl(m, j), o) /\ ~Left(m, gl, j)) =>
           \E k \in 1 .. (Len(gl) - 1) : gl[k].next = j
    BY <1>8
  <2> QED  BY <1>1, <1>5, <1>9, <2>2, <2>3, <2>4, <2>5, FitsEnter

\* An exception raised in a filter passes the filter's clause: the entry that
\* was evaluating it is dropped.
LEMMA FitsDrop ==
  ASSUME NEW m \in Methods, NEW fl \in Seq(FlowEntry), fl # <<>>, NEW x \in Nat, NEW n \in Nat,
         Fits(m, fl, x, n), fl[Len(fl)].next <= n, ~InHandler(Cl(m, fl[Len(fl)].next), x),
         NEW gl \in Seq(FlowEntry), Len(gl) = Len(fl) - 1, \A k \in 1 .. (Len(fl) - 1) : gl[k] = fl[k]
  PROVE  Fits(m, gl, x, n)
<1>1. DOMAIN fl = 1 .. Len(fl) /\ Len(fl) \in Nat \ {0} /\ DOMAIN gl = 1 .. (Len(fl) - 1)
  BY FrontIs
<1>2. fl[Len(fl)].type # "Leave"
  <2>1. /\ fl[Len(fl)].next \in DOMAIN clauses[m] /\ Around(Cl(m, fl[Len(fl)].next), x)
        /\ fl[Len(fl)].type \in EntryTypes(Cl(m, fl[Len(fl)].next), x)
    BY <1>1 DEF Fits, Listed
  <2> QED  BY <2>1, TypesOf DEF Around
<1>3. Leaves(gl, fl) /\ Leaves(fl, gl)
  <2>1. \A k \in DOMAIN fl : fl[k].type = "Leave" => k \in DOMAIN gl
    BY <1>1, <1>2
  <2>2. DOMAIN gl \subseteq DOMAIN fl
    BY <1>1
  <2> QED  BY <1>1, <2>1, <2>2 DEF Leaves
<1>4. \A j : Left(m, fl, j) <=> Left(m, gl, j)
  BY <1>3, LeftMore
<1>5. Listed(m, gl, x)
  BY <1>1, <1>4 DEF Fits, Listed
<1>6. Descends(gl)
  BY <1>1 DEF Fits, Descends
<1>7. Complete(m, gl, x, n)
  <2> SUFFICES ASSUME NEW j \in DOMAIN clauses[m], Around(Cl(m, j), x), j > n, ~Left(m, gl, j)
               PROVE  \E k \in DOMAIN gl : gl[k].next = j
    BY DEF Complete
  <2>1. PICK k \in DOMAIN fl : fl[k].next = j
    BY <1>4 DEF Fits, Complete
  <2>2. j \in Nat
    BY ClauseType
  <2>3. k \in DOMAIN gl
    BY <1>1, <2>1, <2>2
  <2> QED  BY <1>1, <2>1, <2>3
<1> QED  BY <1>5, <1>6, <1>7 DEF Fits
-----------------------------------------------------------------------------
(* What the steps do to the frames *)

LEMMA WithFlowsIs ==
  ASSUME NEW fs \in Seq(Frame), fs # <<>>, NEW fl \in Seq(FlowEntry), NEW g, g = WithFlows(fs, fl)
  PROVE  /\ g \in Seq(Frame) /\ Len(g) = Len(fs)
         /\ \A i \in 1 .. (Len(fs) - 1) : g[i] = fs[i]
         /\ g[Len(fs)].method = fs[Len(fs)].method /\ g[Len(fs)].ip = fs[Len(fs)].ip
         /\ g[Len(fs)].flows = fl
<1> PICK n : n = Len(fs)
  OBVIOUS
<1>1. n \in 1 .. n /\ n \in Nat /\ DOMAIN fs = 1 .. n /\ fs[n] \in Frame
  BY FrontIs
<1> PICK f : f = [fs[n] EXCEPT !.flows = fl]
  OBVIOUS
<1>2. f \in Frame /\ f.method = fs[n].method /\ f.ip = fs[n].ip /\ f.flows = fl
  BY <1>1 DEF Frame
<1>3. g = [fs EXCEPT ![n] = f]
  BY DEF WithFlows
<1>4. g \in Seq(Frame) /\ Len(g) = n /\ \A i \in 1 .. n : g[i] = IF i = n THEN f ELSE fs[i]
  BY <1>1, <1>2, <1>3, ExceptSeq
<1>5. g[n] = f /\ \A i \in 1 .. (n - 1) : g[i] = fs[i]
  BY <1>1, <1>4
<1> QED  BY <1>2, <1>4, <1>5

\* The entries of a frame with its last entry replaced by e
LEMMA LastReplaced ==
  ASSUME NEW fl \in Seq(FlowEntry), fl # <<>>, NEW e \in FlowEntry,
         NEW g, g = [fl EXCEPT ![Len(fl)] = e]
  PROVE  /\ g \in Seq(FlowEntry) /\ Len(g) = Len(fl) /\ g[Len(fl)] = e
         /\ \A k \in 1 .. (Len(fl) - 1) : g[k] = fl[k]
<1> PICK n : n = Len(fl)
  OBVIOUS
<1>1. n \in 1 .. n /\ n \in Nat
  BY FrontIs
<1>2. g \in Seq(FlowEntry) /\ Len(g) = n /\ \A i \in 1 .. n : g[i] = IF i = n THEN e ELSE fl[i]
  BY <1>1, ExceptSeq
<1>3. g[n] = e /\ \A i \in 1 .. (n - 1) : g[i] = fl[i]
  BY <1>1, <1>2
<1> QED  BY <1>2, <1>3

LEMMA AppendIs ==
  ASSUME NEW S, NEW fl \in Seq(S), NEW e \in S
  PROVE  /\ Append(fl, e) \in Seq(S) /\ Append(fl, e) # <<>>
         /\ Len(Append(fl, e)) = Len(fl) + 1 /\ Len(fl) \in Nat /\ DOMAIN Append(fl, e) = 1 .. (Len(fl) + 1)
         /\ \A k \in 1 .. Len(fl) : Append(fl, e)[k] = fl[k]
         /\ Append(fl, e)[Len(fl) + 1] = e
         /\ SubSeq(Append(fl, e), 1, Len(fl)) = fl
<1>1. /\ Append(fl, e) \in Seq(S) /\ Len(Append(fl, e)) = Len(fl) + 1 /\ Len(fl) \in Nat
      /\ \A k \in 1 .. Len(fl) : Append(fl, e)[k] = fl[k]
      /\ Append(fl, e)[Len(fl) + 1] = e
  BY AppendProperties
<1>2. SubSeq(Append(fl, e), 1, Len(fl)) = fl
  <2> PICK g : g = Append(fl, e)
    OBVIOUS
  <2>1. \A k \in 1 .. Len(fl) : g[k] \in S
    BY <1>1
  <2> PICK s : s = SubSeq(g, 1, Len(fl))
    OBVIOUS
  <2>2. s \in Seq(S) /\ Len(s) = Len(fl) /\ \A k \in 1 .. Len(fl) : s[k] = g[k]
    BY <1>1, <2>1, SubSeqProperties
  <2>3. s = fl
    BY <1>1, <2>2, SeqEqual
  <2> QED  BY <2>3
<1>3. DOMAIN Append(fl, e) = 1 .. (Len(fl) + 1) /\ Append(fl, e) # <<>>
  BY <1>1
<1> QED  BY <1>1, <1>2, <1>3

LEMMA CleanBefore ==
  ASSUME NEW c, NEW d, c \subseteq d, Clean(d)
  PROVE  Clean(c)
BY DEF Clean

LEMMA TopIs ==
  ASSUME Shape, frames # <<>>
  PROVE  /\ frames \in Seq(Frame) /\ Len(frames) \in Nat \ {0} /\ DOMAIN frames = 1 .. Len(frames)
         /\ Top = frames[Len(frames)] /\ Top.method \in Methods /\ Flows = Top.flows
         /\ Flows \in Seq(FlowEntry) /\ Top.ip \in DOMAIN code[Top.method]
         /\ imi = Top.method /\ ipBase = Top.method
         /\ ip \in DOMAIN code[Top.method] /\ ip \in Nat /\ DOMAIN code[Top.method] \subseteq Nat
         /\ Instr = code[Top.method][ip] /\ WellFormed(Top.method, ip)
<1>1. frames \in Seq(Frame)
  BY DEF Shape
<1>2. Len(frames) \in Nat \ {0} /\ DOMAIN frames = 1 .. Len(frames) /\ frames[Len(frames)] \in Frame
  BY <1>1, FrontIs
<1>3. Top = frames[Len(frames)] /\ Flows = Top.flows /\ Instr = code[ipBase][ip]
  BY DEF Top, Flows, Instr
<1>4. Top.method \in Methods /\ Flows \in Seq(FlowEntry)
  BY <1>2, <1>3 DEF Frame
<1>5. /\ imi = Top.method /\ ipBase = Top.method
      /\ ip \in DOMAIN code[Top.method] /\ Top.ip \in DOMAIN code[Top.method]
  BY DEF Shape, Locals
<1>6. DOMAIN code[Top.method] \subseteq Nat /\ WellFormed(Top.method, ip)
  BY <1>4, <1>5, CodeAssumption
<1> QED  BY <1>1, <1>2, <1>3, <1>4, <1>5, <1>6

\* A step that changes the top frame only
LEMMA TopStep ==
  ASSUME Shape, frames # <<>>, departures \subseteq departures',
         frames' \in Seq(Frame), Len(frames') = Len(frames),
         \A i \in 1 .. (Len(frames) - 1) : frames'[i] = frames[i],
         NEW m, m = Top.method, NEW fl, NEW f, f = frames'[Len(frames)],
         f.method = m, f.ip \in DOMAIN code[m], f.flows = fl,
         imi' = m, ipBase' = m, ip' \in DOMAIN code[m],
         \/ phase' = "run" /\ origin' = ip' /\ AtRest(m, fl, ip', departures')
         \/ phase' = "aborted" /\ (AtRest(m, fl, ip', departures') \/ InSearch(m, fl, departures'))
         \/ phase' = "search" /\ InSearch(m, fl, departures')
  PROVE  Shape'
<1>1. Len(frames) \in Nat \ {0} /\ DOMAIN code[m] \subseteq Nat
  BY TopIs
<1>2. Top' = f /\ Flows' = fl /\ frames' # <<>>
  BY <1>1 DEF Top, Flows
<1>3. \A i \in 1 .. (Len(frames') - 1) : Waiting(frames'[i], departures')
  <2> SUFFICES ASSUME NEW i \in 1 .. (Len(frames) - 1)
               PROVE  Waiting(frames[i], departures')
    OBVIOUS
  <2>1. Waiting(frames[i], departures)
    BY DEF Shape
  <2>2. Clean(departures') => Clean(departures)
    BY CleanBefore
  <2> QED  BY <2>1, <2>2 DEF Waiting, AtRest, Settled
<1>4. phase' # "idle"
  OBVIOUS
<1>5. Locals'
  BY <1>2 DEF Locals
<1>6. ip' \in Nat
  BY <1>1
<1> QED  BY <1>2, <1>3, <1>4, <1>5, <1>6 DEF Shape

\* PREPARE_EXCEPTION in a frame at rest
LEMMA Prepared ==
  ASSUME NEW m \in Methods, NEW fl \in Seq(FlowEntry), NEW d,
         \A k \in DOMAIN fl : Known(m, fl[k]) /\ Settled(m, fl[k], d),
         NEW e \in FlowEntry, e.type = "Exception", e.target \in DOMAIN code[m], e.next <= Len(clauses[m]),
         Clean(d) => Fits(m, fl, e.throwOffset, e.next)
  PROVE  Append(fl, e) \in Seq(FlowEntry) /\ InSearch(m, Append(fl, e), d)
<1> PICK gl : gl = Append(fl, e)
  OBVIOUS
<1>1. /\ gl \in Seq(FlowEntry) /\ gl # <<>> /\ DOMAIN gl = 1 .. (Len(fl) + 1) /\ Len(gl) = Len(fl) + 1
      /\ Len(fl) \in Nat /\ \A k \in 1 .. Len(fl) : gl[k] = fl[k]
      /\ gl[Len(fl) + 1] = e /\ SubSeq(gl, 1, Len(fl)) = fl
  BY AppendIs
<1>2. Len(gl) - 1 = Len(fl) /\ gl[Len(gl)] = e /\ SubSeq(gl, 1, Len(gl) - 1) = fl
  BY <1>1
<1>3. \A k \in DOMAIN gl : Known(m, gl[k])
  <2>1. \A k \in 1 .. Len(fl) : Known(m, gl[k])
    BY <1>1
  <2>2. Known(m, e)
    BY DEF Known
  <2> QED  BY <1>1, <2>1, <2>2
<1>4. \A k \in 1 .. (Len(gl) - 1) : Settled(m, gl[k], d)
  BY <1>1, <1>2
<1> QED  BY <1>1, <1>2, <1>3, <1>4 DEF InSearch

LEMMA EndShape ==
  ASSUME EndExecute
  PROVE  Shape'
<1>1. /\ frames' = <<>> /\ phase' = "idle" /\ ip' = 1
      /\ imi' = NoMethod /\ ipBase' = NoMethod
  BY DEF EndExecute
<1>2. frames' \in Seq(Frame) /\ Len(frames') = 0
  BY <1>1
<1> QED  BY <1>1, <1>2 DEF Shape
-----------------------------------------------------------------------------
(* Steps of running code *)

LEMMA StaysSame ==
  ASSUME NEW m, NEW o, NEW p, StaysIn(m, o, p)
  PROVE  /\ p \in DOMAIN code[m]
         /\ \A i \in DOMAIN clauses[m] :
              Same(Cl(m, i), o, p) /\ (InTry(Cl(m, i), o) => InTry(Cl(m, i), p))
BY DEF StaysIn, Same, Cl

LEMMA AtRestMoves ==
  ASSUME NEW m \in Methods, NEW fl, NEW o, NEW p, NEW c, NEW d, AtRest(m, fl, o, c), c \subseteq d,
         \A i \in DOMAIN clauses[m] : Same(Cl(m, i), o, p)
  PROVE  AtRest(m, fl, p, d)
<1>1. Clean(d) => Clean(c)
  BY CleanBefore
<1>2. Clean(d) => Fits(m, fl, p, 0)
  BY <1>1, FitsMoves DEF AtRest
<1> QED  BY <1>1, <1>2 DEF AtRest, Settled

LEMMA AtStart ==
  ASSUME NEW m \in Methods, NEW d
  PROVE  AtRest(m, <<>>, 1, d) /\ 1 \in DOMAIN code[m]
<1>1. EntersOnly(m, 1, {}) /\ 1 \in DOMAIN code[m]
  BY CodeAssumption
<1>2. DOMAIN <<>> = {}
  OBVIOUS
<1>3. \A i \in DOMAIN clauses[m] : ~Around(Cl(m, i), 1)
  BY <1>1 DEF EntersOnly, Around, Cl
<1>4. Listed(m, <<>>, 1) /\ Descends(<<>>) /\ Complete(m, <<>>, 1, 0)
  BY <1>2, <1>3 DEF Listed, Descends, Complete
<1> QED  BY <1>1, <1>2, <1>4 DEF AtRest, Fits

LEMMA EntryIs ==
  ASSUME NEW o \in Nat, NEW at \in Nat, NEW first \in Nat, NEW ex \in Exceptions \cup {NoEx},
         NEW e, e = [Entry("Exception", o, ex, first, 1) EXCEPT !.at = at]
  PROVE  /\ e \in FlowEntry /\ e.type = "Exception" /\ e.throwOffset = o /\ e.next = first
         /\ e.at = at
BY DEF Entry, FlowEntry

LEMMA RaiseStep ==
  ASSUME Shape, frames # <<>>, phase = "run", departures \subseteq departures',
         NEW m, m = Top.method, NEW ex \in Exceptions \cup {NoEx}, NEW first \in 0 .. Len(clauses[m]),
         NEW fs \in Seq(Frame), Len(fs) = Len(frames), \A i \in 1 .. (Len(frames) - 1) : fs[i] = frames[i],
         fs[Len(frames)].method = m, fs[Len(frames)].ip \in DOMAIN code[m],
         fs[Len(frames)].flows = Flows,
         frames' = PrepareFrom(fs, ip, ip, ex, first),
         phase' = "search", imi' = m, ipBase' = m, ip' = ip
  PROVE  Shape'
<1>1. /\ Len(frames) \in Nat \ {0} /\ m \in Methods /\ Flows \in Seq(FlowEntry)
      /\ ip \in DOMAIN code[m] /\ ip \in Nat
  BY TopIs
<1>2. fs # <<>>
  BY <1>1
<1>3. Len(clauses[m]) \in Nat
  BY <1>1, ClauseAssumption
<1>11. PICK e : e = [Entry("Exception", ip, ex, first, 1) EXCEPT !.at = ip]
  OBVIOUS
<1>4. first \in Nat /\ first <= Len(clauses[m])
  BY <1>3
<1>5. /\ e \in FlowEntry /\ e.type = "Exception" /\ e.throwOffset = ip /\ e.next = first
      /\ e.target \in DOMAIN code[m]
  BY <1>1, <1>4, <1>11, CodeAssumption DEF Entry, FlowEntry
<1>12. PICK fl : fl = Append(Flows, e)
  OBVIOUS
<1>6. AtRest(m, Flows, ip, departures)
  BY DEF Shape, Locals
<1>7. Clean(departures') => Fits(m, Flows, e.throwOffset, e.next)
  <2>1. SUFFICES ASSUME Clean(departures')  PROVE Fits(m, Flows, ip, first)
    BY <1>5
  <2>2. Fits(m, Flows, ip, 0)
    BY <1>6, <2>1, CleanBefore DEF AtRest
  <2>3. 0 <= first
    BY <1>4
  <2> QED  BY <1>1, <1>4, <2>2, <2>3, FitsLater
<1>8. fl \in Seq(FlowEntry) /\ InSearch(m, fl, departures')
  <2>1. \A k \in DOMAIN Flows : Known(m, Flows[k]) /\ Settled(m, Flows[k], departures')
    BY <1>6, CleanBefore DEF AtRest, Settled
  <2>2. e.next <= Len(clauses[m])
    BY <1>4, <1>5
  <2>3. Append(Flows, e) \in Seq(FlowEntry) /\ InSearch(m, Append(Flows, e), departures')
    BY <1>1, <1>5, <1>7, <2>1, <2>2, Prepared
  <2> QED  BY <1>12, <2>3
<1>13. PICK g : g = frames'
  OBVIOUS
<1>9. g = WithFlows(fs, fl)
  <2>1. fs[Len(fs)].flows = Flows
    OBVIOUS
  <2> QED  BY <2>1, <1>11, <1>12, <1>13 DEF PrepareFrom
<1>10. /\ g \in Seq(Frame) /\ Len(g) = Len(fs)
       /\ \A i \in 1 .. (Len(fs) - 1) : g[i] = fs[i]
       /\ g[Len(fs)].method = fs[Len(fs)].method /\ g[Len(fs)].ip = fs[Len(fs)].ip
       /\ g[Len(fs)].flows = fl
  BY <1>2, <1>8, <1>9, WithFlowsIs
<1> QED  BY <1>1, <1>8, <1>10, <1>13, TopStep

LEMMA ExecuteStep ==
  ASSUME Shape, NEW m \in Methods, Execute(m)
  PROVE  Shape'
<1> PICK f : f = [method |-> m, ip |-> 1, flows |-> <<>>]
  OBVIOUS
<1>1. f \in Frame /\ f.method = m /\ f.ip = 1 /\ f.flows = <<>>
  BY DEF Frame
<1>2. /\ frames' = <<f>> /\ imi' = m /\ ipBase' = m /\ ip' = 1 /\ phase' = "run" /\ origin' = 1
      /\ departures' = departures
  BY DEF Execute, GoTo
<1>3. frames' \in Seq(Frame) /\ Len(frames') = 1 /\ frames'[1] = f /\ frames' # <<>>
  BY <1>1, <1>2
<1>4. Top' = f /\ Flows' = <<>>
  BY <1>1, <1>3 DEF Top, Flows
<1>5. AtRest(m, <<>>, 1, departures') /\ 1 \in DOMAIN code[m]
  BY AtStart
<1>6. Locals'
  BY <1>1, <1>2, <1>4, <1>5 DEF Locals
<1>7. 1 .. (Len(frames') - 1) = {}
  BY <1>3
<1>8. phase' # "idle" /\ ip' \in Nat
  BY <1>2
<1> QED  BY <1>3, <1>6, <1>7, <1>8 DEF Shape

\* Control moves and the entries stay.
LEMMA GoStep ==
  ASSUME Shape, phase = "run", frames # <<>>, UNCHANGED <<frames, imi, ipBase, departures>>,
         NEW p, GoTo(p), StaysIn(Top.method, ip, p)
  PROVE  Shape'
<1> PICK m : m = Top.method
  OBVIOUS
<1> PICK fl : fl = Flows
  OBVIOUS
<1>1. /\ Len(frames) \in Nat \ {0} /\ m \in Methods /\ frames \in Seq(Frame)
      /\ frames[Len(frames)].method = m /\ frames[Len(frames)].flows = fl
      /\ frames[Len(frames)].ip \in DOMAIN code[m] /\ imi = m /\ ipBase = m
  BY TopIs
<1>2. AtRest(m, fl, ip, departures)
  BY DEF Shape, Locals
<1>3. AtRest(m, fl, p, departures') /\ p \in DOMAIN code[m]
  BY <1>1, <1>2, AtRestMoves, StaysSame
<1>4. ip' = p /\ phase' = "run" /\ origin' = ip'
  BY DEF GoTo
<1> QED  BY <1>1, <1>3, <1>4, TopStep

LEMMA RunIs ==
  ASSUME Shape, phase = "run"
  PROVE  frames # <<>> /\ origin = ip /\ AtRest(Top.method, Flows, ip, departures)
BY DEF Shape, Locals

LEMMA OpStep ==
  ASSUME Shape, Op
  PROVE  Shape'
<1>1. Instr.op = "op" /\ phase = "run"
  BY DEF Op, Running
<1>2. frames # <<>>
  BY <1>1, RunIs
<1>3. StaysIn(Top.method, ip, ip + 1) /\ Instr.raises \subseteq Exceptions
  BY <1>1, <1>2, TopIs DEF WellFormed
<1>4. CASE GoTo(ip + 1) /\ UNCHANGED <<frames, departures>>
  BY <1>1, <1>2, <1>3, <1>4, GoStep DEF Op
<1>5. ASSUME NEW ex \in Instr.raises, RaiseIn(frames, ex) /\ UNCHANGED <<ip, departures>>
      PROVE  Shape'
  <2>1. ex \in Exceptions \cup {NoEx}
    BY <1>3
  <2>2. /\ frames \in Seq(Frame) /\ frames[Len(frames)].method = Top.method
        /\ frames[Len(frames)].ip \in DOMAIN code[Top.method] /\ frames[Len(frames)].flows = Flows
        /\ imi = Top.method /\ ipBase = Top.method /\ Top.method \in Methods
    BY <1>2, TopIs
  <2>3. /\ frames' = PrepareFrom(frames, ip, ip, ex, 0) /\ phase' = "search"
        /\ imi' = imi /\ ipBase' = ipBase /\ ip' = ip /\ departures' = departures
    BY <1>5 DEF RaiseIn, Prepare, Op
  <2>4. 0 \in 0 .. Len(clauses[Top.method])
    BY <2>2, ClauseAssumption
  <2> QED  BY <1>1, <1>2, <2>1, <2>2, <2>3, <2>4, RaiseStep
<1> QED  BY <1>4, <1>5 DEF Op

LEMMA BranchStep ==
  ASSUME Shape, Branch
  PROVE  Shape'
<1>1. Instr.op = "br" /\ phase = "run"
  BY DEF Branch, Running
<1>2. frames # <<>>
  BY <1>1, RunIs
<1>3. StaysIn(Top.method, ip, ip + 1) /\ StaysIn(Top.method, ip, Instr.target)
  BY <1>1, <1>2, TopIs DEF WellFormed
<1>4. PICK o \in {ip + 1, Instr.target} : GoTo(o)
  BY DEF Branch
<1> QED  BY <1>1, <1>2, <1>3, <1>4, GoStep DEF Branch

LEMMA ThrowStep ==
  ASSUME Shape, Throw, departures \subseteq departures'
  PROVE  Shape'
<1>1. Instr.op = "throw" /\ phase = "run"
  BY DEF Throw, Running
<1>2. frames # <<>>
  BY <1>1, RunIs
<1>3. /\ frames \in Seq(Frame) /\ frames[Len(frames)].method = Top.method
      /\ frames[Len(frames)].ip \in DOMAIN code[Top.method] /\ frames[Len(frames)].flows = Flows
      /\ imi = Top.method /\ ipBase = Top.method /\ Top.method \in Methods
      /\ Instr.ex \in Exceptions
  BY <1>1, <1>2, TopIs DEF WellFormed
<1> PICK m : m = Top.method
  OBVIOUS
<1> PICK first : first = FirstThrowHandlerIndex(clauses[m], ip)
  OBVIOUS
<1>4. first \in 0 .. Len(clauses[m])
  <2> DEFINE S == {i \in DOMAIN clauses[m] : clauses[m][i].flags # "Fault" /\ InTry(clauses[m][i], ip)}
  <2>1. clauses[m] \in Seq(EhClause)
    BY <1>3, ClauseAssumption
  <2>2. DOMAIN clauses[m] = 1 .. Len(clauses[m]) /\ Len(clauses[m]) \in Nat
    BY <2>1
  <2>3. S \subseteq 1 .. Len(clauses[m])
    BY <2>2
  <2>4. first = IF S = {} THEN Len(clauses[m]) ELSE First(S) - 1
    BY DEF FirstThrowHandlerIndex
  <2>6. S \subseteq Nat
    BY <2>2
  <2> HIDE DEF S
  <2>5. S # {} => First(S) \in S
    BY <2>6, FirstIs
  <2>7. CASE S = {}
    BY <2>2, <2>4, <2>7
  <2>8. CASE S # {}
    <3>1. First(S) \in 1 .. Len(clauses[m]) /\ first = First(S) - 1
      BY <2>3, <2>4, <2>5, <2>8
    <3> QED  BY <2>2, <3>1
  <2> QED  BY <2>7, <2>8
<1>5. /\ frames' = PrepareFrom(frames, ip, ip, Instr.ex, first) /\ phase' = "search"
      /\ imi' = imi /\ ipBase' = ipBase /\ ip' = ip
  BY <1>3 DEF Throw, Prepare
<1> QED  BY <1>1, <1>2, <1>3, <1>4, <1>5, RaiseStep

LEMMA AbortStep ==
  ASSUME Shape, phase \in {"run", "search"}, Abort
  PROVE  Shape'
<1>1. frames # <<>> /\ (AtRest(Top.method, Flows, ip, departures) \/ InSearch(Top.method, Flows, departures))
  BY DEF Shape, Locals
<1>2. /\ phase' = "aborted" /\ frames' = frames /\ imi' = imi /\ ipBase' = ipBase /\ ip' = ip
      /\ departures' = departures
  BY DEF Abort
<1> PICK m : m = Top.method
  OBVIOUS
<1> PICK fl : fl = Flows
  OBVIOUS
<1>3. /\ Len(frames) \in Nat \ {0} /\ m \in Methods /\ frames \in Seq(Frame)
      /\ frames[Len(frames)].method = m /\ frames[Len(frames)].flows = fl
      /\ frames[Len(frames)].ip \in DOMAIN code[m] /\ imi = m /\ ipBase = m /\ ip \in DOMAIN code[m]
  BY <1>1, TopIs
<1>4. AtRest(m, fl, ip', departures') \/ InSearch(m, fl, departures')
  BY <1>1, <1>2
<1> QED  BY <1>1, <1>2, <1>3, <1>4, TopStep

LEMMA RethrowStep ==
  ASSUME Shape, Rethrow
  PROVE  Shape'
<1>1. phase = "run"
  BY DEF Rethrow, Running
<1>2. frames # <<>>
  BY <1>1, RunIs
<1>3. CASE HasCur /\ Efi.ex # NoEx
  <2>1. /\ frames \in Seq(Frame) /\ frames[Len(frames)].method = Top.method
        /\ frames[Len(frames)].ip \in DOMAIN code[Top.method] /\ frames[Len(frames)].flows = Flows
        /\ imi = Top.method /\ ipBase = Top.method /\ Top.method \in Methods
        /\ Flows \in Seq(FlowEntry)
    BY <1>2, TopIs
  <2>2. Efi \in FlowEntry
    BY <1>3, <2>1 DEF HasCur, Efi
  <2>3. Efi.ex \in Exceptions \cup {NoEx}
    BY <2>2 DEF FlowEntry
  <2>4. /\ frames' = PrepareFrom(frames, ip, ip, Efi.ex, 0) /\ phase' = "search"
        /\ imi' = imi /\ ipBase' = ipBase /\ ip' = ip /\ departures' = departures
    BY <1>3 DEF RaiseIn, Prepare, Rethrow
  <2>5. 0 \in 0 .. Len(clauses[Top.method])
    BY <2>1, ClauseAssumption
  <2> QED  BY <1>1, <1>2, <2>1, <2>3, <2>4, <2>5, RaiseStep
<1>4. CASE ~(HasCur /\ Efi.ex # NoEx)
  BY <1>1, <1>4, AbortStep DEF Rethrow
<1> QED  BY <1>3, <1>4

LEMMA FlowsStep ==
  ASSUME Shape, frames # <<>>, departures \subseteq departures', UNCHANGED <<imi, ipBase>>,
         NEW m, m = Top.method, NEW fl \in Seq(FlowEntry),
         frames' = WithFlows(frames, fl) \/ (frames' = frames /\ fl = Flows),
         ip' \in DOMAIN code[m],
         \/ phase' = "run" /\ origin' = ip' /\ AtRest(m, fl, ip', departures')
         \/ phase' = "search" /\ InSearch(m, fl, departures')
  PROVE  Shape'
<1>1. /\ Len(frames) \in Nat \ {0} /\ m \in Methods /\ frames \in Seq(Frame)
      /\ frames[Len(frames)].method = m /\ frames[Len(frames)].flows = Flows
      /\ frames[Len(frames)].ip \in DOMAIN code[m] /\ imi = m /\ ipBase = m
  BY TopIs
<1>2. PICK g : g = frames'
  OBVIOUS
<1>3. /\ g \in Seq(Frame) /\ Len(g) = Len(frames)
      /\ \A i \in 1 .. (Len(frames) - 1) : g[i] = frames[i]
      /\ g[Len(frames)].method = m /\ g[Len(frames)].ip \in DOMAIN code[m]
      /\ g[Len(frames)].flows = fl
  <2>1. CASE g = WithFlows(frames, fl)
    BY <1>1, <2>1, WithFlowsIs
  <2>2. CASE g = frames /\ fl = Flows
    BY <1>1, <2>2
  <2> QED  BY <1>2, <2>1, <2>2
<1> QED  BY <1>1, <1>2, <1>3, TopStep

\* The frames with r as the return address of the top one
Saved(r) == [frames EXCEPT ![Len(frames)].ip = r]

LEMMA SavedIs ==
  ASSUME Shape, frames # <<>>, NEW r \in DOMAIN code[Top.method], NEW g, g = Saved(r)
  PROVE  /\ g \in Seq(Frame) /\ Len(g) = Len(frames)
         /\ \A i \in 1 .. (Len(frames) - 1) : g[i] = frames[i]
         /\ g[Len(frames)].method = Top.method /\ g[Len(frames)].ip = r
         /\ g[Len(frames)].flows = Flows
<1>1. PICK n : n = Len(frames)
  OBVIOUS
<1>2. /\ n \in 1 .. n /\ n \in Nat /\ DOMAIN frames = 1 .. n /\ frames[n] \in Frame
      /\ frames \in Seq(Frame) /\ frames[n].method = Top.method /\ frames[n].flows = Flows /\ r \in Nat
  BY <1>1, TopIs
<1>3. PICK f : f = [frames[n] EXCEPT !.ip = r]
  OBVIOUS
<1>4. f \in Frame /\ f.method = frames[n].method /\ f.ip = r /\ f.flows = frames[n].flows
  BY <1>2, <1>3 DEF Frame
<1>5. g = [frames EXCEPT ![n] = f]
  BY <1>1, <1>3 DEF Saved
<1>6. g \in Seq(Frame) /\ Len(g) = n /\ \A i \in 1 .. n : g[i] = IF i = n THEN f ELSE frames[i]
  BY <1>1, <1>2, <1>4, <1>5, ExceptSeq
<1>7. g[n] = f /\ \A i \in 1 .. (n - 1) : g[i] = frames[i]
  BY <1>2, <1>6
<1> QED  BY <1>1, <1>2, <1>4, <1>6, <1>7

LEMMA CallStep ==
  ASSUME Shape, Call, departures \subseteq departures', "foreign" \notin departures'
  PROVE  Shape'
<1>1. Instr.op = "call" /\ phase = "run"
  BY DEF Call, Running
<1>2. frames # <<>> /\ AtRest(Top.method, Flows, ip, departures)
  BY <1>1, RunIs
<1>3. PICK m : m = Top.method
  OBVIOUS
<1>4. PICK n : n = Len(frames)
  OBVIOUS
<1>5. /\ n \in Nat \ {0} /\ m \in Methods /\ frames \in Seq(Frame) /\ imi = m /\ ipBase = m
      /\ ip \in DOMAIN code[m] /\ ip \in Nat /\ Instr = code[m][ip]
      /\ StaysIn(m, ip, ip + 1) /\ Instr.method \in Methods
  BY <1>1, <1>2, <1>3, <1>4, TopIs DEF WellFormed
<1>6. ip + 1 \in DOMAIN code[m]
  BY <1>5, StaysSame
<1>11. PICK r : r = ip + 1
  OBVIOUS
<1>7. PICK g : g = Saved(r)
  OBVIOUS
<1>8. /\ g \in Seq(Frame) /\ Len(g) = n /\ \A i \in 1 .. (n - 1) : g[i] = frames[i]
      /\ g[n].method = m /\ g[n].ip = ip + 1 /\ g[n].flows = Flows
  <2>1. r \in DOMAIN code[Top.method]
    BY <1>3, <1>6, <1>11
  <2>2. /\ g \in Seq(Frame) /\ Len(g) = Len(frames)
        /\ \A i \in 1 .. (Len(frames) - 1) : g[i] = frames[i]
        /\ g[Len(frames)].method = Top.method /\ g[Len(frames)].ip = r
        /\ g[Len(frames)].flows = Flows
    BY <1>2, <1>7, <2>1, SavedIs
  <2> QED  BY <1>3, <1>4, <1>11, <2>2
<1>9. ASSUME frames' = Append(g, [method |-> Instr.method, ip |-> 1, flows |-> <<>>]),
             imi' = Instr.method, ipBase' = Instr.method, GoTo(1), UNCHANGED departures
      PROVE  Shape'
  <2>1. PICK f : f = [method |-> Instr.method, ip |-> 1, flows |-> <<>>]
    OBVIOUS
  <2>2. f \in Frame /\ f.method = Instr.method /\ f.ip = 1 /\ f.flows = <<>>
    BY <1>5, <2>1 DEF Frame
  <2>3. PICK fs : fs = frames'
    OBVIOUS
  <2>4. fs = Append(g, f)
    BY <1>9, <2>1, <2>3
  <2>5. /\ fs \in Seq(Frame) /\ fs # <<>> /\ Len(fs) = n + 1
        /\ \A i \in 1 .. n : fs[i] = g[i]
        /\ fs[n + 1] = f
    BY <1>8, <2>2, <2>4, AppendIs
  <2>6. Waiting(g[n], departures)
    <3>1. (ip + 1) - 1 = ip
      BY <1>5
    <3> QED  BY <1>1, <1>2, <1>3, <1>5, <1>6, <1>8, <3>1 DEF Waiting
  <2>7. \A i \in 1 .. (n - 1) : Waiting(g[i], departures)
    BY <1>4, <1>8 DEF Shape
  <2>8. \A i \in 1 .. n : i = n \/ i \in 1 .. (n - 1)
    BY <1>5
  <2>9. \A i \in 1 .. n : Waiting(fs[i], departures)
    BY <2>5, <2>6, <2>7, <2>8
  <2>10. (n + 1) - 1 = n
    BY <1>5
  <2>11. \A i \in 1 .. (Len(frames') - 1) : Waiting(frames'[i], departures')
    BY <1>9, <2>3, <2>5, <2>9, <2>10
  <2>12. Top' = f /\ Flows' = <<>>
    BY <2>2, <2>3, <2>5 DEF Top, Flows
  <2>13. ip' = 1 /\ phase' = "run" /\ origin' = 1
    BY <1>9 DEF GoTo
  <2>14. AtRest(Instr.method, <<>>, 1, departures') /\ 1 \in DOMAIN code[Instr.method]
    BY <1>5, AtStart
  <2>15. Locals'
    BY <1>9, <2>2, <2>12, <2>13, <2>14 DEF Locals
  <2>16. frames' \in Seq(Frame) /\ frames' # <<>> /\ ip' \in Nat /\ phase' # "idle"
    BY <2>3, <2>5, <2>13
  <2> QED  BY <2>11, <2>15, <2>16 DEF Shape
<1>10. ASSUME RaiseIn(g, EntryEx), UNCHANGED <<ip, ipBase>>, imi' = Instr.method,
              Depart(IF Instr.method # Top.method THEN {"foreign"} ELSE {})
       PROVE  Shape'
  <2>1. Instr.method = m
    BY <1>3, <1>10 DEF Depart
  <2>2. /\ frames' = PrepareFrom(g, ip, ip, EntryEx, 0) /\ phase' = "search"
        /\ imi' = m /\ ipBase' = m /\ ip' = ip
    BY <1>5, <1>10, <2>1 DEF RaiseIn, Prepare
  <2>3. EntryEx \in Exceptions \cup {NoEx}
    BY CodeAssumption
  <2>4. 0 \in 0 .. Len(clauses[m])
    BY <1>5, ClauseAssumption
  <2> QED  BY <1>1, <1>2, <1>3, <1>4, <1>6, <1>8, <2>2, <2>3, <2>4, RaiseStep
<1> QED  BY <1>7, <1>9, <1>10, <1>11 DEF Call, Saved

LEMMA CallerIs ==
  ASSUME Shape, frames # <<>>, NEW n, n = Len(frames), n # 1, NEW f, f = frames[n - 1]
  PROVE  /\ n \in Nat /\ n - 1 \in Nat \ {0} /\ frames \in Seq(Frame)
         /\ f \in Frame /\ Waiting(f, departures)
         /\ f.method \in Methods /\ f.flows \in Seq(FlowEntry) /\ f.ip \in Nat /\ f.ip - 1 \in Nat
         /\ StaysIn(f.method, f.ip - 1, f.ip)
<1>1. n \in Nat \ {0} /\ frames \in Seq(Frame) /\ DOMAIN frames = 1 .. n
  BY TopIs
<1>2. n - 1 \in 1 .. (n - 1) /\ n - 1 \in DOMAIN frames /\ n - 1 \in Nat \ {0}
  BY <1>1
<1>3. f \in Frame /\ Waiting(f, departures)
  BY <1>1, <1>2 DEF Shape
<1>4. f.method \in Methods /\ f.flows \in Seq(FlowEntry) /\ f.ip \in Nat
  BY <1>3 DEF Frame
<1>5. WellFormed(f.method, f.ip - 1) /\ f.ip - 1 \in Nat
  BY <1>3, <1>4, CodeAssumption DEF Waiting
<1>6. StaysIn(f.method, f.ip - 1, f.ip)
  <2>1. (f.ip - 1) + 1 = f.ip
    BY <1>4
  <2> QED  BY <1>3, <1>5, <2>1 DEF Waiting, WellFormed
<1> QED  BY <1>1, <1>2, <1>3, <1>4, <1>5, <1>6

\* The top frame is left; fl are the entries its caller goes on with.
LEMMA CallerStep ==
  ASSUME Shape, frames # <<>>, NEW n, n = Len(frames), n # 1, NEW f, f = frames[n - 1],
         departures \subseteq departures',
         NEW fs \in Seq(Frame), fs = frames', Len(fs) = n - 1, \A i \in 1 .. (n - 2) : fs[i] = frames[i],
         NEW fl, fs[n - 1].method = f.method, fs[n - 1].ip = f.ip, fs[n - 1].flows = fl,
         imi' = f.method, ipBase' = f.method, ip' = f.ip,
         \/ phase' = "run" /\ origin' = ip' /\ AtRest(f.method, fl, f.ip, departures')
         \/ phase' = "search" /\ InSearch(f.method, fl, departures')
  PROVE  Shape'
<1>1. n \in Nat /\ n - 1 \in Nat \ {0} /\ Waiting(f, departures) /\ f.ip \in Nat
  BY CallerIs
<1>2. \A i \in 1 .. (Len(frames') - 1) : Waiting(frames'[i], departures')
  <2> SUFFICES ASSUME NEW i \in 1 .. ((n - 1) - 1)
               PROVE  Waiting(frames[i], departures')
    BY <1>1
  <2>1. i \in 1 .. (n - 1)
    BY <1>1
  <2>2. Waiting(frames[i], departures)
    BY <2>1 DEF Shape
  <2>3. Clean(departures') => Clean(departures)
    BY CleanBefore
  <2> QED  BY <2>2, <2>3 DEF Waiting, AtRest, Settled
<1>3. frames' \in Seq(Frame) /\ frames' # <<>> /\ Len(frames') = n - 1
  BY <1>1
<1>4. Top'.method = f.method /\ Top'.ip = f.ip /\ Flows' = fl
  BY <1>3 DEF Top, Flows
<1>5. Locals'
  BY <1>1, <1>4 DEF Locals, Waiting
<1>6. ip' \in Nat /\ phase' # "idle"
  BY <1>1
<1> QED  BY <1>2, <1>3, <1>5, <1>6 DEF Shape

LEMMA RetStep ==
  ASSUME Shape, Ret
  PROVE  Shape'
<1>1. Instr.op = "ret" /\ phase = "run"
  BY DEF Ret, Running
<1>2. frames # <<>>
  BY <1>1, RunIs
<1>3. CASE Len(frames) = 1
  BY <1>3, EndShape DEF Ret
<1>4. CASE Len(frames) # 1
  <2>1. PICK n : n = Len(frames)
    OBVIOUS
  <2>2. PICK f : f = frames[n - 1]
    OBVIOUS
  <2>3. /\ n \in Nat /\ n - 1 \in Nat \ {0} /\ frames \in Seq(Frame)
        /\ f \in Frame /\ Waiting(f, departures) /\ f.method \in Methods
        /\ StaysIn(f.method, f.ip - 1, f.ip)
    BY <1>2, <1>4, <2>1, <2>2, CallerIs
  <2>4. AtRest(f.method, f.flows, f.ip, departures)
    BY <2>3, StaysSame, AtRestMoves DEF Waiting
  <2>5. /\ frames' = Front(frames) /\ imi' = f.method /\ ipBase' = f.method
        /\ ip' = f.ip /\ phase' = "run" /\ origin' = ip' /\ departures' = departures
    BY <1>4, <2>1, <2>2 DEF Ret, GoTo
  <2>6. PICK fs : fs = frames'
    OBVIOUS
  <2>7. /\ fs \in Seq(Frame) /\ Len(fs) = n - 1 /\ \A i \in 1 .. (n - 1) : fs[i] = frames[i]
    BY <1>2, <2>1, <2>3, <2>5, <2>6, FrontIs
  <2>8. fs[n - 1] = f /\ \A i \in 1 .. (n - 2) : fs[i] = frames[i]
    BY <2>2, <2>3, <2>7
  <2> QED  BY <1>2, <1>4, <2>1, <2>2, <2>4, <2>5, <2>6, <2>7, <2>8, CallerStep
<1> QED  BY <1>3, <1>4

LEMMA HandlerIs ==
  ASSUME NEW m \in Methods, NEW i \in DOMAIN clauses[m]
  PROVE  /\ Cl(m, i).handlerBegin \in DOMAIN code[m] /\ Cl(m, i).handlerBegin \in Nat
         /\ InHandler(Cl(m, i), Cl(m, i).handlerBegin)
         /\ EntersOnly(m, Cl(m, i).handlerBegin, i .. Len(clauses[m]))
         /\ Cl(m, i).flags = "Filter" =>
              /\ Cl(m, i).filterBegin \in DOMAIN code[m] /\ Cl(m, i).filterBegin \in Nat
              /\ InFilter(Cl(m, i), Cl(m, i).filterBegin)
              /\ EntersOnly(m, Cl(m, i).filterBegin, i .. Len(clauses[m]))
<1>1. Cl(m, i).handlerBegin \in Nat /\ Cl(m, i).handlerEnd \in Nat /\ Cl(m, i).filterBegin \in Nat
  BY ClauseType DEF EhClause
<1>2. /\ Cl(m, i).handlerBegin < Cl(m, i).handlerEnd
      /\ Cl(m, i).flags = "Filter" => Cl(m, i).filterBegin < Cl(m, i).handlerBegin
  BY ClauseAssumption DEF Cl
<1>3. /\ Cl(m, i).handlerBegin \in DOMAIN code[m]
      /\ EntersOnly(m, Cl(m, i).handlerBegin, i .. Len(clauses[m]))
      /\ Cl(m, i).flags = "Filter" =>
           Cl(m, i).filterBegin \in DOMAIN code[m] /\ EntersOnly(m, Cl(m, i).filterBegin, i .. Len(clauses[m]))
  BY CodeAssumption DEF Cl
<1>4. InHandler(Cl(m, i), Cl(m, i).handlerBegin)
  BY <1>1, <1>2 DEF InHandler
<1>5. Cl(m, i).flags = "Filter" => InFilter(Cl(m, i), Cl(m, i).filterBegin)
  BY <1>1, <1>2 DEF InFilter
<1> QED  BY <1>1, <1>3, <1>4, <1>5

\* h is the finally that a leave from o to t runs first.
LeavesBy(m, o, t, h) ==
  LeaveHandlers(clauses[m], o, t) # {} /\ h = First(LeaveHandlers(clauses[m], o, t))

LEMMA LeaveHandlersIs ==
  ASSUME NEW m \in Methods, NEW o, NEW t, NEW h, LeavesBy(m, o, t, h)
  PROVE  /\ h \in DOMAIN clauses[m] /\ Cl(m, h).flags = "Finally"
         /\ InTry(Cl(m, h), o) /\ ~InTry(Cl(m, h), t)
         /\ \A i \in DOMAIN clauses[m] :
              (Cl(m, i).flags = "Finally" /\ InTry(Cl(m, i), o)) => h <= i
<1> DEFINE A == {i \in DOMAIN clauses[m] : clauses[m][i].flags = "Finally" /\ InTry(clauses[m][i], o)}
           H == {i \in A : i = First(A) /\ ~InTry(clauses[m][i], t)}
<1>1. H # {} /\ h = First(H)
  BY DEF LeaveHandlers, LeavesBy
<1>2. DOMAIN clauses[m] \subseteq Nat
  BY ClauseType
<1>3. A \subseteq Nat /\ H \subseteq Nat
  BY <1>2
<1>4. h \in H
  <2> HIDE DEF H
  <2> QED  BY <1>1, <1>3, FirstIs
<1>5. h = First(A) /\ h \in A /\ ~InTry(clauses[m][h], t)
  BY <1>4
<1>6. \A i \in A : h <= i
  <2> HIDE DEF A
  <2> QED  BY <1>3, <1>5, FirstIs
<1> QED  BY <1>5, <1>6 DEF Cl

\* A leave without a finally to run: the first finally around it holds the
\* target.
LEMMA NoLeaveHandlers ==
  ASSUME NEW m \in Methods, NEW o, NEW t, LeaveHandlers(clauses[m], o, t) = {},
         NEW i \in DOMAIN clauses[m], Cl(m, i).flags = "Finally", InTry(Cl(m, i), o)
  PROVE  \E h \in DOMAIN clauses[m] :
           h <= i /\ Cl(m, h).flags = "Finally" /\ InTry(Cl(m, h), o) /\ InTry(Cl(m, h), t)
<1> DEFINE A == {j \in DOMAIN clauses[m] : clauses[m][j].flags = "Finally" /\ InTry(clauses[m][j], o)}
           H == {j \in A : j = First(A) /\ ~InTry(clauses[m][j], t)}
<1>1. H = {}
  BY DEF LeaveHandlers
<1>2. DOMAIN clauses[m] \subseteq Nat
  BY ClauseType
<1>3. A \subseteq Nat /\ i \in A
  BY <1>2 DEF Cl
<1>4. First(A) \in A /\ First(A) <= i
  <2> HIDE DEF A
  <2> QED  BY <1>3, FirstIs
<1>5. First(A) \notin H
  BY <1>1
<1>6. InTry(clauses[m][First(A)], t)
  BY <1>4, <1>5
<1> QED  BY <1>4, <1>6 DEF Cl

\* The new list of a leave that runs finally h
LEMMA LeaveExRests ==
  ASSUME NEW m \in Methods, imi = m, NEW fl \in Seq(FlowEntry), NEW o \in DOMAIN code[m], NEW d,
         AtRest(m, fl, o, d), WellFormed(m, o), code[m][o].op = "leave", NEW t, t = code[m][o].target,
         NEW h, LeavesBy(m, o, t, h)
  PROVE  \E gl \in Seq(FlowEntry) :
           /\ gl = Append(PopCatchHandlers(fl, t), Entry("Leave", o, NoEx, h, t))
           /\ AtRest(m, gl, Cl(m, h).handlerBegin, d)
<1>1. /\ h \in DOMAIN clauses[m] /\ Cl(m, h).flags = "Finally"
      /\ InTry(Cl(m, h), o) /\ ~InTry(Cl(m, h), t)
  BY LeaveHandlersIs
<1>2. LeavesWell(m, o, t) /\ o \in Nat /\ t \in Nat /\ h \in Nat
  <2>1. DOMAIN code[m] \subseteq Nat
    BY CodeAssumption
  <2>2. LeavesWell(m, o, t)
    BY DEF WellFormed
  <2> QED  BY <1>1, <2>1, <2>2, ClauseType DEF LeavesWell
<1>3. PICK p \in Nat : Stay(m, fl, t, p) /\ PopCatchHandlers(fl, t) = SubSeq(fl, 1, p)
  BY PopIs
<1>4. PICK left : left = SubSeq(fl, 1, p)
  OBVIOUS
<1>5. /\ left \in Seq(FlowEntry) /\ Len(left) = p
      /\ \A k \in 1 .. p : left[k] = fl[k] /\ k \in DOMAIN fl
  <2>1. /\ SubSeq(fl, 1, p) \in Seq(FlowEntry) /\ Len(SubSeq(fl, 1, p)) = p
        /\ \A k \in 1 .. p : SubSeq(fl, 1, p)[k] = fl[k] /\ k \in DOMAIN fl
    BY <1>3, StayIs
  <2> QED  BY <1>4, <2>1
<1>6. PICK e : e = Entry("Leave", o, NoEx, h, t)
  OBVIOUS
<1>7. /\ e \in FlowEntry /\ e.type = "Leave" /\ e.throwOffset = o /\ e.next = h /\ e.target = t
  BY <1>2, <1>6 DEF Entry, FlowEntry
<1>8. PICK gl : gl = Append(left, e)
  OBVIOUS
<1>9. /\ gl \in Seq(FlowEntry) /\ Len(gl) = p + 1 /\ \A k \in 1 .. p : gl[k] = fl[k]
      /\ gl[p + 1] = e /\ DOMAIN gl = 1 .. (p + 1)
  BY <1>5, <1>7, <1>8, AppendIs
<1>10. Known(m, e) /\ Settled(m, e, d)
  BY <1>1, <1>2, <1>7 DEF Known, Settled, LeavesWell
<1>11. \A k \in DOMAIN gl : Known(m, gl[k]) /\ Settled(m, gl[k], d)
  <2>1. \A k \in 1 .. p : Known(m, gl[k]) /\ Settled(m, gl[k], d)
    BY <1>5, <1>9 DEF AtRest
  <2> QED  BY <1>3, <1>9, <1>10, <2>1
<1>12. /\ Cl(m, h).handlerBegin \in Nat /\ InHandler(Cl(m, h), Cl(m, h).handlerBegin)
       /\ EntersOnly(m, Cl(m, h).handlerBegin, h .. Len(clauses[m]))
  BY <1>1, HandlerIs
<1>13. Clean(d) => Fits(m, gl, Cl(m, h).handlerBegin, 0)
  <2>1. SUFFICES ASSUME Clean(d)  PROVE Fits(m, gl, Cl(m, h).handlerBegin, 0)
    OBVIOUS
  <2>2. Fits(m, fl, o, 0)
    BY <2>1 DEF AtRest
  <2>3. PICK b : b = Cl(m, h).handlerBegin
    OBVIOUS
  <2>4. b \in Nat /\ InHandler(Cl(m, h), b) /\ EntersOnly(m, b, h .. Len(clauses[m]))
    BY <1>12, <2>3
  <2>5. gl[p + 1].type = "Leave" /\ gl[p + 1].next = h /\ gl[p + 1].throwOffset = o /\ gl[p + 1].target = t
    BY <1>7, <1>9
  <2>6. /\ m \in Methods /\ fl \in Seq(FlowEntry) /\ o \in Nat /\ t \in Nat
        /\ Fits(m, fl, o, 0) /\ LeavesWell(m, o, t) /\ p \in Nat /\ Stay(m, fl, t, p)
        /\ h \in DOMAIN clauses[m] /\ Cl(m, h).flags = "Finally"
        /\ InTry(Cl(m, h), o) /\ ~InTry(Cl(m, h), t)
        /\ b \in Nat /\ InHandler(Cl(m, h), b) /\ EntersOnly(m, b, h .. Len(clauses[m]))
        /\ gl \in Seq(FlowEntry) /\ Len(gl) = p + 1 /\ \A k \in 1 .. p : gl[k] = fl[k]
        /\ gl[p + 1].type = "Leave" /\ gl[p + 1].next = h
        /\ gl[p + 1].throwOffset = o /\ gl[p + 1].target = t
    BY <1>1, <1>2, <1>3, <1>9, <2>2, <2>4, <2>5
  <2>7. Fits(m, gl, b, 0)
    BY ONLY <2>6, FitsLeaveEx
  <2> QED  BY <2>3, <2>7
<1>14. gl = Append(PopCatchHandlers(fl, t), Entry("Leave", o, NoEx, h, t))
  BY <1>3, <1>4, <1>6, <1>8
<1> QED  BY <1>9, <1>11, <1>13, <1>14 DEF AtRest

\* The new list of a leave that goes to its target
LEMMA LeaveRests ==
  ASSUME NEW m \in Methods, imi = m, NEW fl \in Seq(FlowEntry), NEW o \in DOMAIN code[m], NEW d,
         AtRest(m, fl, o, d), WellFormed(m, o), code[m][o].op = "leave", NEW t, t = code[m][o].target
  PROVE  PopCatchHandlers(fl, t) \in Seq(FlowEntry) /\ AtRest(m, PopCatchHandlers(fl, t), t, d)
<1>2. LeavesWell(m, o, t) /\ o \in Nat /\ t \in Nat
  <2>1. DOMAIN code[m] \subseteq Nat
    BY CodeAssumption
  <2>2. LeavesWell(m, o, t)
    BY DEF WellFormed
  <2> QED  BY <2>1, <2>2 DEF LeavesWell
<1>3. PICK p \in Nat : Stay(m, fl, t, p) /\ PopCatchHandlers(fl, t) = SubSeq(fl, 1, p)
  BY PopIs
<1>4. PICK left : left = SubSeq(fl, 1, p)
  OBVIOUS
<1>5. /\ left \in Seq(FlowEntry) /\ DOMAIN left = 1 .. p
      /\ \A k \in 1 .. p : left[k] = fl[k] /\ k \in DOMAIN fl
  <2>1. /\ SubSeq(fl, 1, p) \in Seq(FlowEntry) /\ Len(SubSeq(fl, 1, p)) = p
        /\ \A k \in 1 .. p : SubSeq(fl, 1, p)[k] = fl[k] /\ k \in DOMAIN fl
    BY <1>3, StayIs
  <2>2. left \in Seq(FlowEntry) /\ Len(left) = p
    BY <1>4, <2>1
  <2>3. DOMAIN left = 1 .. p
    BY <2>2
  <2> QED  BY <1>4, <2>1, <2>2, <2>3
<1>6. \A k \in DOMAIN left : Known(m, left[k]) /\ Settled(m, left[k], d)
  BY <1>5 DEF AtRest
<1>7. Clean(d) => Fits(m, left, t, 0)
  BY <1>2, <1>3, <1>4, FitsLeave DEF AtRest
<1> QED  BY <1>3, <1>4, <1>5, <1>6, <1>7 DEF AtRest

LEMMA LeaveStep ==
  ASSUME Shape, Leave, departures \subseteq departures'
  PROVE  Shape'
<1>1. Instr.op = "leave" /\ phase = "run"
  BY DEF Leave, Running
<1>2. frames # <<>> /\ AtRest(Top.method, Flows, ip, departures)
  BY <1>1, RunIs
<1>3. PICK m : m = Top.method
  OBVIOUS
<1>4. PICK t : t = Instr.target
  OBVIOUS
<1>5. PICK fl \in Seq(FlowEntry) : fl = Flows
  BY <1>2, TopIs
<1>6. /\ m \in Methods /\ imi = m /\ ipBase = m /\ ip \in DOMAIN code[m] /\ Instr = code[m][ip]
      /\ WellFormed(m, ip) /\ t \in DOMAIN code[m] /\ ip \in Nat /\ t \in Nat /\ LeavesWell(m, ip, t)
  BY <1>1, <1>2, <1>3, <1>4, TopIs DEF WellFormed, LeavesWell
<1>7. AtRest(m, fl, ip, departures')
  BY <1>2, <1>3, <1>5, CleanBefore DEF AtRest, Settled
<1>8. UNCHANGED <<imi, ipBase>>
  BY DEF Leave
<1>9. LeaveHandlersHere = LeaveHandlers(clauses[m], ip, t)
  BY <1>4, <1>6 DEF LeaveHandlersHere
<1>10. ASSUME LeaveHandlers(clauses[m], ip, t) # {}, LeaveEx(First(LeaveHandlers(clauses[m], ip, t)))
       PROVE  Shape'
  <2>1. PICK h : h = First(LeaveHandlers(clauses[m], ip, t))
    OBVIOUS
  <2>9. LeavesBy(m, ip, t, h)
    BY <1>10, <2>1 DEF LeavesBy
  <2>2. PICK gl \in Seq(FlowEntry) :
          /\ gl = Append(PopCatchHandlers(fl, t), Entry("Leave", ip, NoEx, h, t))
          /\ AtRest(m, gl, Cl(m, h).handlerBegin, departures')
    BY <1>1, <1>4, <1>6, <1>7, <2>9, LeaveExRests
  <2>3. gl \in Seq(FlowEntry) /\ AtRest(m, gl, Cl(m, h).handlerBegin, departures')
    BY <2>2
  <2>4. h \in DOMAIN clauses[m]
    BY <1>6, <2>9, LeaveHandlersIs
  <2>5. Cl(m, h).handlerBegin \in DOMAIN code[m]
    BY <1>6, <2>4, HandlerIs
  <2>6. LeaveEx(h)
    BY <1>10, <2>1
  <2>7. frames' = WithFlows(frames, gl)
    BY <1>4, <1>5, <2>2, <2>6 DEF LeaveEx
  <2>8. ip' = Cl(m, h).handlerBegin /\ phase' = "run" /\ origin' = ip'
    BY <1>6, <2>6 DEF LeaveEx, GoTo, Cl
  <2> QED  BY <1>2, <1>3, <1>8, <2>3, <2>5, <2>7, <2>8, FlowsStep
<1>11. PICK left : left = PopCatchHandlers(fl, t)
  OBVIOUS
<1>12. left \in Seq(FlowEntry) /\ AtRest(m, left, t, departures')
  BY <1>1, <1>4, <1>6, <1>7, <1>11, LeaveRests
<1>13. CASE LeaveEx_Directly
  <2>1. frames' = WithFlows(frames, left)
    BY <1>4, <1>5, <1>11, <1>13 DEF LeaveEx_Directly
  <2>2. ip' = t /\ phase' = "run" /\ origin' = ip'
    BY <1>4, <1>13 DEF LeaveEx_Directly, GoTo
  <2> QED  BY <1>2, <1>3, <1>6, <1>8, <1>12, <2>1, <2>2, FlowsStep
<1>14. CASE LeaveByBranch
  <2>1. frames' = frames /\ ip' = t /\ phase' = "run" /\ origin' = ip'
    BY <1>4, <1>14 DEF LeaveByBranch, GoTo
  <2>2. ASSUME Clean(departures')
        PROVE  Fits(m, fl, t, 0)
    <3>1. ~(HasCur /\ LeftBy(Efi, t))
      BY <1>4, <1>14, <2>2 DEF LeaveByBranch, Depart, Clean
    <3>2. PICK n : n = Len(fl)
      OBVIOUS
    <3>3. n \in Nat /\ (n > 0 => ~Gone(m, fl[n], t))
      BY <1>5, <1>6, <3>1, <3>2 DEF HasCur, Efi, LeftBy, Gone, Cl
    <3>4. Stay(m, fl, t, n)
      BY <3>2, <3>3 DEF Stay
    <3>5. Fits(m, fl, ip, 0)
      BY <1>7, <2>2 DEF AtRest
    <3>6. Fits(m, SubSeq(fl, 1, n), t, 0)
      BY <1>6, <3>3, <3>4, <3>5, FitsLeave
    <3>7. SubSeq(fl, 1, n) = fl
      BY <3>2, SubSeqFull
    <3> QED  BY <3>6, <3>7
  <2>3. AtRest(m, fl, t, departures')
    BY <1>7, <2>2 DEF AtRest
  <2> QED  BY <1>2, <1>3, <1>5, <1>6, <1>8, <2>1, <2>3, FlowsStep
<1> QED  BY <1>9, <1>10, <1>13, <1>14 DEF Leave
-----------------------------------------------------------------------------
(* The ends of handlers and filters *)

\* A finally or a filter that gives the exception back to the search
LEMMA ResumeIs ==
  ASSUME NEW m \in Methods, NEW fl \in Seq(FlowEntry), NEW o \in Nat, NEW d, AtRest(m, fl, o, d),
         fl # <<>>, Clean(d) => fl[Len(fl)].type = "Exception"
  PROVE  InSearch(m, fl, d)
<1>1. Len(fl) \in Nat \ {0} /\ DOMAIN fl = 1 .. Len(fl) /\ fl[Len(fl)] \in FlowEntry
  BY FrontIs
<1>2. Len(fl) \in DOMAIN fl
  BY <1>1
<1>3. PICK e \in FlowEntry : e = fl[Len(fl)]
  BY <1>1
<1>4. PICK i : i = e.next
  OBVIOUS
<1>5. i \in DOMAIN clauses[m] /\ InTry(Cl(m, i), e.throwOffset)
  BY <1>2, <1>3, <1>4 DEF AtRest, Settled
<1>6. PICK x \in Nat : x = e.throwOffset
  BY DEF FlowEntry
<1>7. DOMAIN clauses[m] = 1 .. Len(clauses[m]) /\ Len(clauses[m]) \in Nat
  BY <1>5, ClauseType
<1>8. i \in Nat /\ i <= Len(clauses[m])
  BY <1>5, <1>7
<1>9. Clean(d) => Fits(m, SubSeq(fl, 1, Len(fl) - 1), x, i)
  <2>1. Clean(d) => Fits(m, fl, o, 0)
    BY DEF AtRest
  <2>2. i = fl[Len(fl)].next /\ InTry(Cl(m, i), x)
    BY <1>3, <1>4, <1>5, <1>6
  <2> QED  BY <1>5, <2>1, <2>2, FitsResume
<1>10. \A k \in 1 .. (Len(fl) - 1) : k \in DOMAIN fl
  BY <1>1
<1> QED  BY <1>3, <1>4, <1>6, <1>8, <1>9, <1>10 DEF InSearch, AtRest

\* The entry of a leave in progress: its offsets are those of a leave
LEMMA LeaveKnown ==
  ASSUME NEW m \in Methods, NEW e, Known(m, e), e.type = "Leave"
  PROVE  /\ e.throwOffset \in Nat /\ e.target \in Nat /\ e.target \in DOMAIN code[m]
         /\ LeavesWell(m, e.throwOffset, e.target)
<1>1. DOMAIN code[m] \subseteq Nat /\ WellFormed(m, e.throwOffset)
  BY CodeAssumption DEF Known
<1>2. LeavesWell(m, e.throwOffset, e.target)
  BY <1>1 DEF WellFormed, Known
<1> QED  BY <1>1, <1>2 DEF Known, LeavesWell

LEMMA NextRests ==
  ASSUME NEW m \in Methods, NEW fl \in Seq(FlowEntry), NEW o \in Nat, NEW d, AtRest(m, fl, o, d),
         fl # <<>>, Clean(d) => fl[Len(fl)].type = "Leave",
         NEW h \in DOMAIN clauses[m], h > fl[Len(fl)].next, Cl(m, h).flags = "Finally",
         InTry(Cl(m, h), fl[Len(fl)].throwOffset), ~InTry(Cl(m, h), fl[Len(fl)].target),
         NEW gl \in Seq(FlowEntry), Len(gl) = Len(fl), \A k \in 1 .. (Len(fl) - 1) : gl[k] = fl[k],
         gl[Len(fl)].next = h, gl[Len(fl)].type = fl[Len(fl)].type,
         gl[Len(fl)].throwOffset = fl[Len(fl)].throwOffset, gl[Len(fl)].target = fl[Len(fl)].target
  PROVE  AtRest(m, gl, Cl(m, h).handlerBegin, d)
<1>1. Len(fl) \in Nat \ {0} /\ DOMAIN fl = 1 .. Len(fl) /\ fl[Len(fl)] \in FlowEntry
  BY FrontIs
<1>2. Len(fl) \in DOMAIN fl
  BY <1>1
<1>3. PICK e \in FlowEntry : e = fl[Len(fl)]
  BY <1>1
<1>4. PICK i : i = e.next
  OBVIOUS
<1>5. /\ i \in DOMAIN clauses[m] /\ InTry(Cl(m, i), e.throwOffset) /\ Known(m, e)
      /\ Clean(d) => e.type = "Leave"
  BY <1>2, <1>3, <1>4 DEF AtRest, Settled
<1>6. PICK x \in Nat : x = e.throwOffset
  BY DEF FlowEntry
<1>7. PICK t \in Nat : t = e.target
  BY DEF FlowEntry
<1>8. Clean(d) => LeavesWell(m, x, t)
  BY <1>5, <1>6, <1>7, LeaveKnown
<1>9. /\ gl[Len(fl)].type = e.type /\ gl[Len(fl)].next = h
      /\ gl[Len(fl)].throwOffset = x /\ gl[Len(fl)].target = t
  BY <1>3, <1>5, <1>6, <1>7 DEF FlowEntry
<1>10. InTry(Cl(m, h), x) /\ ~InTry(Cl(m, h), t)
  BY <1>3, <1>6, <1>7
<1>11. \A k \in DOMAIN gl : Known(m, gl[k]) /\ Settled(m, gl[k], d)
  <2>1. DOMAIN gl = 1 .. Len(fl)
    BY <1>1
  <2>2. \A k \in 1 .. (Len(fl) - 1) : Known(m, gl[k]) /\ Settled(m, gl[k], d)
    BY <1>1 DEF AtRest
  <2>3. Known(m, gl[Len(fl)])
    BY <1>5, <1>6, <1>7, <1>9 DEF Known
  <2>4. Settled(m, gl[Len(fl)], d)
    BY <1>9, <1>10 DEF Settled
  <2> QED  BY <1>1, <2>1, <2>2, <2>3, <2>4
<1>12. PICK b : b = Cl(m, h).handlerBegin
  OBVIOUS
<1>13. b \in Nat /\ InHandler(Cl(m, h), b) /\ EntersOnly(m, b, h .. Len(clauses[m]))
  BY <1>12, HandlerIs
<1>14. Clean(d) => Fits(m, gl, b, 0)
  <2>1. SUFFICES ASSUME Clean(d)  PROVE Fits(m, gl, b, 0)
    OBVIOUS
  <2>2. Fits(m, fl, o, 0)
    BY <2>1 DEF AtRest
  <2>3. i = fl[Len(fl)].next /\ x = fl[Len(fl)].throwOffset /\ t = fl[Len(fl)].target
    BY <1>3, <1>4, <1>6, <1>7
  <2>4. h > i /\ InTry(Cl(m, i), x)
    BY <1>3, <1>4, <1>5, <1>6
  <2> QED  BY ZenonT(40), <1>5, <1>8, <1>9, <1>10, <1>13, <2>1, <2>2, <2>3, <2>4, FitsNext
<1> QED  BY <1>11, <1>12, <1>14 DEF AtRest

LEMMA LandRests ==
  ASSUME NEW m \in Methods, NEW fl \in Seq(FlowEntry), NEW o \in Nat, NEW d, AtRest(m, fl, o, d),
         fl # <<>>, Clean(d) => fl[Len(fl)].type = "Leave"
  PROVE  /\ Front(fl) \in Seq(FlowEntry) /\ AtRest(m, Front(fl), fl[Len(fl)].target, d)
         /\ fl[Len(fl)].target \in DOMAIN code[m]
<1>1. /\ Len(fl) \in Nat \ {0} /\ DOMAIN fl = 1 .. Len(fl) /\ fl[Len(fl)] \in FlowEntry
      /\ SubSeq(fl, 1, Len(fl) - 1) \in Seq(FlowEntry) /\ Front(fl) = SubSeq(fl, 1, Len(fl) - 1)
      /\ DOMAIN SubSeq(fl, 1, Len(fl) - 1) = 1 .. (Len(fl) - 1)
      /\ \A k \in 1 .. (Len(fl) - 1) : SubSeq(fl, 1, Len(fl) - 1)[k] = fl[k]
  BY FrontIs
<1>2. Len(fl) \in DOMAIN fl
  BY <1>1
<1>3. PICK e \in FlowEntry : e = fl[Len(fl)]
  BY <1>1
<1>4. PICK i : i = e.next
  OBVIOUS
<1>6. PICK x \in Nat : x = e.throwOffset
  BY DEF FlowEntry
<1>7. PICK t \in Nat : t = e.target
  BY DEF FlowEntry
<1>5. /\ i \in DOMAIN clauses[m] /\ InTry(Cl(m, i), x) /\ Known(m, e)
      /\ Clean(d) => e.type = "Leave" /\ ~InTry(Cl(m, i), t)
  BY <1>2, <1>3, <1>4, <1>6, <1>7 DEF AtRest, Settled
<1>8. t \in DOMAIN code[m] /\ (Clean(d) => LeavesWell(m, x, t))
  BY <1>5, <1>6, <1>7, LeaveKnown DEF Known
<1>9. Clean(d) => Fits(m, SubSeq(fl, 1, Len(fl) - 1), t, 0)
  <2>1. SUFFICES ASSUME Clean(d)  PROVE Fits(m, SubSeq(fl, 1, Len(fl) - 1), t, 0)
    OBVIOUS
  <2>2. Fits(m, fl, o, 0)
    BY <2>1 DEF AtRest
  <2>3. i = fl[Len(fl)].next /\ x = fl[Len(fl)].throwOffset /\ t = fl[Len(fl)].target
    BY <1>3, <1>4, <1>6, <1>7
  <2> QED  BY <1>5, <1>8, <2>1, <2>2, <2>3, FitsLand
<1>10. \A k \in DOMAIN SubSeq(fl, 1, Len(fl) - 1) :
         Known(m, SubSeq(fl, 1, Len(fl) - 1)[k]) /\ Settled(m, SubSeq(fl, 1, Len(fl) - 1)[k], d)
  BY <1>1 DEF AtRest
<1> QED  BY <1>1, <1>3, <1>7, <1>8, <1>9, <1>10 DEF AtRest

\* Filter i accepts: its handler runs.
LEMMA CaughtRests ==
  ASSUME NEW m \in Methods, NEW fl \in Seq(FlowEntry), NEW o \in DOMAIN code[m], NEW d, AtRest(m, fl, o, d),
         WellFormed(m, o), code[m][o].op = "endfilter",
         fl # <<>>, Clean(d) => fl[Len(fl)].type = "Exception",
         NEW gl \in Seq(FlowEntry), Len(gl) = Len(fl), \A k \in 1 .. (Len(fl) - 1) : gl[k] = fl[k],
         gl[Len(fl)].type = "Catch", gl[Len(fl)].next = fl[Len(fl)].next,
         gl[Len(fl)].throwOffset = fl[Len(fl)].throwOffset, gl[Len(fl)].target = fl[Len(fl)].target
  PROVE  o + 1 \in DOMAIN code[m] /\ AtRest(m, gl, o + 1, d)
<1>1. Len(fl) \in Nat \ {0} /\ DOMAIN fl = 1 .. Len(fl) /\ fl[Len(fl)] \in FlowEntry
  BY FrontIs
<1>2. Len(fl) \in DOMAIN fl
  BY <1>1
<1>3. PICK e \in FlowEntry : e = fl[Len(fl)]
  BY <1>1
<1>4. PICK i \in DOMAIN clauses[m] :
        Innermost(m, i, o) /\ InFilter(Cl(m, i), o) /\ o + 1 = Cl(m, i).handlerBegin
  BY DEF WellFormed, Cl
<1>5. PICK b : b = o + 1
  OBVIOUS
<1>6. b \in DOMAIN code[m] /\ b \in Nat /\ InHandler(Cl(m, i), b) /\ EntersOnly(m, b, i .. Len(clauses[m]))
  BY <1>4, <1>5, HandlerIs
<1>7. o \in Nat
  BY CodeAssumption
<1>8. /\ gl[Len(fl)].type = "Catch" /\ gl[Len(fl)].next = e.next /\ gl[Len(fl)].throwOffset = e.throwOffset
      /\ gl[Len(fl)].target = e.target
  BY <1>3 DEF FlowEntry
<1>9. \A k \in DOMAIN gl : Known(m, gl[k]) /\ Settled(m, gl[k], d)
  <2>1. DOMAIN gl = 1 .. Len(fl)
    BY <1>1
  <2>2. \A k \in 1 .. (Len(fl) - 1) : Known(m, gl[k]) /\ Settled(m, gl[k], d)
    BY <1>1 DEF AtRest
  <2>4. Known(m, e) /\ Settled(m, e, d)
    BY <1>2, <1>3 DEF AtRest
  <2>3. Known(m, gl[Len(fl)])
    BY <1>8, <2>4 DEF Known
  <2>5. Settled(m, gl[Len(fl)], d)
    BY <1>8, <2>4 DEF Settled
  <2> QED  BY <1>1, <2>1, <2>2, <2>3, <2>5
<1>10. Clean(d) => Fits(m, gl, b, 0)
  <2>1. SUFFICES ASSUME Clean(d)  PROVE Fits(m, gl, b, 0)
    OBVIOUS
  <2>2. Fits(m, fl, o, 0) /\ \A k \in DOMAIN fl : Settled(m, fl[k], d)
    BY <2>1 DEF AtRest
  <2>3. ~Left(m, fl, i)
    BY <1>4, <1>7, <2>2, InnerLeaves DEF Fits
  <2>4. fl[Len(fl)].next = i
    BY <1>4, <1>7, <2>2, <2>3, LastIsInnermost
  <2>5. gl[Len(fl)].next = i
    BY <1>3, <1>8, <2>4
  <2> QED  BY <1>4, <1>6, <1>7, <1>8, <2>1, <2>2, <2>4, <2>5, FitsCaught
<1> QED  BY <1>5, <1>6, <1>9, <1>10 DEF AtRest

\* A field of the top entry changes.
NextSet(fs, k, h) == [fs EXCEPT ![Len(fs)].flows[k].next = h]
TypeSet(fs, k, v) == [fs EXCEPT ![Len(fs)].flows[k].type = v]

LEMMA NextSetIs ==
  ASSUME NEW fs, NEW k, NEW h, NEW fl, fl = fs[Len(fs)].flows,
         NEW e, e = [fl[k] EXCEPT !.next = h], NEW gl, gl = [fl EXCEPT ![k] = e]
  PROVE  NextSet(fs, k, h) = WithFlows(fs, gl)
BY DEF WithFlows, NextSet

LEMMA TypeSetIs ==
  ASSUME NEW fs, NEW k, NEW v, NEW fl, fl = fs[Len(fs)].flows,
         NEW e, e = [fl[k] EXCEPT !.type = v], NEW gl, gl = [fl EXCEPT ![k] = e]
  PROVE  TypeSet(fs, k, v) = WithFlows(fs, gl)
BY DEF WithFlows, TypeSet

LEMMA TopEntryIs ==
  ASSUME Shape, HasCur, frames # <<>>, NEW e \in FlowEntry, NEW g, g = [Flows EXCEPT ![Len(Flows)] = e]
  PROVE  /\ Flows # <<>> /\ Efi = Flows[Len(Flows)] /\ Efi \in FlowEntry
         /\ g \in Seq(FlowEntry) /\ Len(g) = Len(Flows) /\ g[Len(Flows)] = e
         /\ \A k \in 1 .. (Len(Flows) - 1) : g[k] = Flows[k]
<1>1. Flows \in Seq(FlowEntry)
  BY TopIs
<1>2. Flows # <<>> /\ Efi = Flows[Len(Flows)]
  BY <1>1 DEF HasCur, Efi
<1>3. Efi \in FlowEntry
  BY <1>1, <1>2, FrontIs
<1> QED  BY <1>1, <1>2, <1>3, LastReplaced

LEMMA CurIs ==
  ASSUME Shape, HasCur, frames # <<>>
  PROVE  Flows # <<>> /\ Efi = Flows[Len(Flows)] /\ Efi \in FlowEntry
<1>1. Flows \in Seq(FlowEntry)
  BY TopIs
<1>2. Flows # <<>> /\ Efi = Flows[Len(Flows)]
  BY <1>1 DEF HasCur, Efi
<1> QED  BY <1>1, <1>2, FrontIs

LEMMA ResumeStep ==
  ASSUME Shape, phase = "run", HasCur, Clean(departures) => Efi.type = "Exception",
         phase' = "search", UNCHANGED <<frames, imi, ipBase, ip, departures>>
  PROVE  Shape'
<1>1. frames # <<>> /\ AtRest(Top.method, Flows, ip, departures)
  BY RunIs
<1>2. PICK m : m = Top.method
  OBVIOUS
<1>3. PICK fl \in Seq(FlowEntry) : fl = Flows
  BY <1>1, TopIs
<1>4. m \in Methods /\ ip \in Nat /\ ip \in DOMAIN code[m]
  BY <1>1, <1>2, TopIs
<1>5. fl # <<>> /\ (Clean(departures) => fl[Len(fl)].type = "Exception")
  BY <1>1, <1>3, CurIs
<1>6. InSearch(m, fl, departures')
  BY <1>1, <1>2, <1>3, <1>4, <1>5, ResumeIs
<1> QED  BY <1>1, <1>2, <1>3, <1>4, <1>6, FlowsStep

\* What CONTINUE_NEXT_FINALLY does: h is the next finally around the leave,
\* with entries gl,
RunsNext(m, h, gl) ==
  /\ h \in DOMAIN clauses[m] /\ h > Efi.next /\ Cl(m, h).flags = "Finally"
  /\ InTry(Cl(m, h), Efi.throwOffset) /\ ~InTry(Cl(m, h), Efi.target)
  /\ \A j \in DOMAIN clauses[m] :
       (j > Efi.next /\ InTry(Cl(m, j), Efi.throwOffset) /\ Cl(m, j).flags = "Finally") => h <= j
  /\ gl \in Seq(FlowEntry) /\ Len(gl) = Len(Flows) /\ \A k \in 1 .. (Len(Flows) - 1) : gl[k] = Flows[k]
  /\ gl[Len(Flows)].next = h /\ gl[Len(Flows)].type = Efi.type
  /\ gl[Len(Flows)].throwOffset = Efi.throwOffset /\ gl[Len(Flows)].target = Efi.target
  /\ gl[Len(Flows)].at = Efi.at
  /\ frames' = WithFlows(frames, gl) /\ GoTo(Cl(m, h).handlerBegin)

\* or no finally is left that does not hold the target.
Lands(m) ==
  /\ \A j \in DOMAIN clauses[m] :
       (j > Efi.next /\ InTry(Cl(m, j), Efi.throwOffset) /\ Cl(m, j).flags = "Finally") =>
         \E h \in DOMAIN clauses[m] :
           h <= j /\ InTry(Cl(m, h), Efi.throwOffset) /\ InTry(Cl(m, h), Efi.target)
  /\ frames' = WithFlows(frames, Front(Flows)) /\ GoTo(Efi.target)

LEMMA NextFinallyIs ==
  ASSUME Shape, frames # <<>>, HasCur, NextFinally, NEW m, m = Top.method
  PROVE  Lands(m) \/ \E h, gl : RunsNext(m, h, gl)
<1>1. m \in Methods /\ imi = m
  BY TopIs
<1>2. Efi = Flows[Len(Flows)] /\ Efi \in FlowEntry
  BY CurIs
<1> DEFINE stops == {i \in DOMAIN clauses[imi] :
                /\ i > Efi.next
                /\ InTry(clauses[imi][i], Efi.throwOffset)
                /\ clauses[imi][i].flags = "Finally" \/ InTry(clauses[imi][i], Efi.target)}
<1>3. stops \subseteq Nat
  BY <1>1, ClauseType
<1>4. PICK h : h = First(stops)
  OBVIOUS
<1>5. stops # {} => h \in stops /\ \A j \in stops : h <= j
  <2> HIDE DEF stops
  <2> QED  BY <1>3, <1>4, FirstIs
<1>6. \A j \in DOMAIN clauses[m] :
        (j > Efi.next /\ InTry(Cl(m, j), Efi.throwOffset) /\ Cl(m, j).flags = "Finally") => j \in stops
  BY <1>1 DEF Cl
<1>7. CASE stops # {} /\ ~InTry(clauses[imi][First(stops)], Efi.target)
  <2>1. h \in stops /\ \A j \in stops : h <= j
    BY <1>5, <1>7
  <2>2. /\ h \in DOMAIN clauses[m] /\ h > Efi.next /\ InTry(Cl(m, h), Efi.throwOffset)
        /\ Cl(m, h).flags = "Finally" /\ ~InTry(Cl(m, h), Efi.target)
    BY <1>1, <1>4, <1>7, <2>1 DEF Cl
  <2>3. /\ frames' = [frames EXCEPT ![Len(frames)].flows[Len(Flows)].next = h]
        /\ GoTo(Cl(m, h).handlerBegin)
    BY <1>1, <1>4, <1>7 DEF NextFinally, Cl
  <2>4. PICK e : e = [Efi EXCEPT !.next = h]
    OBVIOUS
  <2>5. /\ e \in FlowEntry /\ e.next = h /\ e.type = Efi.type /\ e.throwOffset = Efi.throwOffset
        /\ e.target = Efi.target /\ e.at = Efi.at
    BY <1>1, <1>2, <2>2, <2>4, ClauseType DEF FlowEntry
  <2>6. PICK gl : gl = [Flows EXCEPT ![Len(Flows)] = e]
    OBVIOUS
  <2>7. /\ gl \in Seq(FlowEntry) /\ Len(gl) = Len(Flows) /\ gl[Len(Flows)] = e
        /\ \A k \in 1 .. (Len(Flows) - 1) : gl[k] = Flows[k]
    BY <2>5, <2>6, TopEntryIs
  <2>8. frames' = WithFlows(frames, gl)
    <3>1. frames' = NextSet(frames, Len(Flows), h)
      BY <2>3 DEF NextSet
    <3>2. Flows = frames[Len(frames)].flows
      BY DEF Flows, Top
    <3>3. e = [Flows[Len(Flows)] EXCEPT !.next = h]
      BY <2>4 DEF Efi
    <3>4. NextSet(frames, Len(Flows), h) = WithFlows(frames, gl)
      BY <2>6, <3>2, <3>3, NextSetIs
    <3> QED  BY <3>1, <3>4
  <2>9. RunsNext(m, h, gl)
    <3>1. \A j \in DOMAIN clauses[m] :
            (j > Efi.next /\ InTry(Cl(m, j), Efi.throwOffset) /\ Cl(m, j).flags = "Finally") => h <= j
      BY <1>6, <2>1
    <3> QED  BY <2>2, <2>3, <2>5, <2>7, <2>8, <3>1 DEF RunsNext
  <2> QED  BY <2>9
<1>8. CASE ~(stops # {} /\ ~InTry(clauses[imi][First(stops)], Efi.target))
  <2>1. frames' = WithFlows(frames, Front(Flows)) /\ GoTo(Efi.target)
    BY <1>8 DEF NextFinally
  <2>2. ASSUME NEW j \in stops
        PROVE  \E g \in DOMAIN clauses[m] :
                 g <= j /\ InTry(Cl(m, g), Efi.throwOffset) /\ InTry(Cl(m, g), Efi.target)
    <3>1. h \in stops /\ h <= j
      BY <1>5, <2>2
    <3>2. InTry(Cl(m, h), Efi.target) /\ h \in DOMAIN clauses[m] /\ InTry(Cl(m, h), Efi.throwOffset)
      BY <1>1, <1>4, <1>8, <3>1 DEF Cl
    <3> QED  BY <3>1, <3>2
  <2>3. \A j \in DOMAIN clauses[m] :
          (j > Efi.next /\ InTry(Cl(m, j), Efi.throwOffset) /\ Cl(m, j).flags = "Finally") =>
            \E g \in DOMAIN clauses[m] :
              g <= j /\ InTry(Cl(m, g), Efi.throwOffset) /\ InTry(Cl(m, g), Efi.target)
    BY <1>6, <2>2
  <2> QED  BY <2>1, <2>3 DEF Lands
<1> QED  BY <1>7, <1>8

\* The handler or filter that control is in, when its code ends, is that of the
\* last entry.
LEMMA EndIsLast ==
  ASSUME NEW m \in Methods, NEW fl \in Seq(FlowEntry), NEW o \in DOMAIN code[m], NEW d,
         AtRest(m, fl, o, d), Clean(d), WellFormed(m, o), code[m][o].op \in {"endfinally", "endfilter"}
  PROVE  \E i \in DOMAIN clauses[m] :
           /\ Innermost(m, i, o) /\ fl # <<>> /\ fl[Len(fl)].next = i /\ o \in Nat
           /\ code[m][o].op = "endfinally" => Cl(m, i).flags \in {"Finally", "Fault"}
           /\ code[m][o].op = "endfilter" => InFilter(Cl(m, i), o)
<1>1. Fits(m, fl, o, 0) /\ Listed(m, fl, o) /\ \A k \in DOMAIN fl : Settled(m, fl[k], d)
  BY DEF AtRest, Fits
<1>2. o \in Nat
  BY CodeAssumption
<1>3. CASE code[m][o].op = "endfinally"
  <2>1. PICK i \in DOMAIN clauses[m] : Innermost(m, i, o) /\ Cl(m, i).flags \in {"Finally", "Fault"}
    BY <1>3 DEF WellFormed, Cl
  <2>2. ~Left(m, fl, i)
    BY <2>1 DEF Left, Catching
  <2>3. fl # <<>> /\ fl[Len(fl)].next = i
    BY <1>1, <1>2, <2>1, <2>2, LastIsInnermost
  <2>4. code[m][o].op # "endfilter"
    BY <1>3
  <2> QED  BY <1>2, <2>1, <2>3, <2>4
<1>4. CASE code[m][o].op = "endfilter"
  <2>1. PICK i \in DOMAIN clauses[m] : Innermost(m, i, o) /\ InFilter(Cl(m, i), o)
    BY <1>4 DEF WellFormed, Cl
  <2>2. ~Left(m, fl, i)
    BY <1>1, <1>2, <2>1, InnerLeaves
  <2>3. fl # <<>> /\ fl[Len(fl)].next = i
    BY <1>1, <1>2, <2>1, <2>2, LastIsInnermost
  <2>4. code[m][o].op # "endfinally"
    BY <1>4
  <2> QED  BY <1>2, <2>1, <2>3, <2>4
<1> QED  BY <1>3, <1>4

\* Until a departure, that entry has a type that its handler or filter uses.
LEMMA EndTypes ==
  ASSUME Shape, phase = "run", Instr.op \in {"endfinally", "endfilter"}, Clean(departures)
  PROVE  /\ HasCur
         /\ Instr.op = "endfinally" => Efi.type \in {"Exception", "Leave"}
         /\ Instr.op = "endfilter" => Efi.type = "Exception"
<1>1. frames # <<>> /\ AtRest(Top.method, Flows, ip, departures)
  BY RunIs
<1>2. PICK m : m = Top.method
  OBVIOUS
<1>3. PICK fl \in Seq(FlowEntry) : fl = Flows
  BY <1>1, TopIs
<1>4. /\ m \in Methods /\ ip \in DOMAIN code[m] /\ Instr = code[m][ip] /\ WellFormed(m, ip)
      /\ AtRest(m, fl, ip, departures)
  BY <1>1, <1>2, <1>3, TopIs
<1>5. PICK i \in DOMAIN clauses[m] :
        /\ Innermost(m, i, ip) /\ fl # <<>> /\ fl[Len(fl)].next = i
        /\ Instr.op = "endfinally" => Cl(m, i).flags \in {"Finally", "Fault"}
        /\ Instr.op = "endfilter" => InFilter(Cl(m, i), ip)
  BY <1>4, EndIsLast
<1>6. Len(fl) \in Nat \ {0} /\ Len(fl) \in DOMAIN fl
  BY <1>5, FrontIs
<1>7. fl[Len(fl)].type \in EntryTypes(Cl(m, i), ip)
  BY <1>4, <1>5, <1>6 DEF AtRest, Fits, Listed
<1>8. HasCur /\ Efi = fl[Len(fl)]
  BY <1>3, <1>6 DEF HasCur, Efi
<1> QED  BY <1>4, <1>5, <1>7, <1>8, TypesOf

LEMMA EndFinallyStep ==
  ASSUME Shape, EndFinally
  PROVE  Shape'
<1>1. Instr.op = "endfinally" /\ phase = "run"
  BY DEF EndFinally, Running
<1>2. frames # <<>> /\ AtRest(Top.method, Flows, ip, departures)
  BY <1>1, RunIs
<1>3. CASE HasCur /\ Efi.type = "Exception"
  <2>1. phase' = "search" /\ UNCHANGED <<frames, imi, ipBase, ip, departures>>
    BY <1>3 DEF EndFinally
  <2> QED  BY <1>1, <1>3, <2>1, ResumeStep
<1>4. ASSUME HasCur, Efi.type # "Exception", NextFinally, UNCHANGED <<imi, ipBase, departures>>
      PROVE  Shape'
  <2>1. PICK m : m = Top.method
    OBVIOUS
  <2>2. PICK fl \in Seq(FlowEntry) : fl = Flows
    BY <1>2, TopIs
  <2>3. m \in Methods /\ ip \in Nat /\ ip \in DOMAIN code[m]
    BY <1>2, <2>1, TopIs
  <2>4. fl # <<>> /\ Efi = fl[Len(fl)] /\ (Clean(departures') => fl[Len(fl)].type = "Leave")
    BY <1>1, <1>2, <1>4, <2>2, CurIs, EndTypes
  <2>5. AtRest(m, fl, ip, departures')
    BY <1>2, <1>4, <2>1, <2>2
  <2>6. ASSUME NEW h, NEW gl, RunsNext(m, h, gl)
        PROVE  Shape'
    <3>1. h \in DOMAIN clauses[m]
      BY <2>6 DEF RunsNext
    <3>2. AtRest(m, gl, Cl(m, h).handlerBegin, departures') /\ gl \in Seq(FlowEntry)
      BY <2>2, <2>3, <2>4, <2>5, <2>6, NextRests DEF RunsNext
    <3>3. /\ ip' = Cl(m, h).handlerBegin /\ phase' = "run" /\ origin' = ip'
          /\ frames' = WithFlows(frames, gl)
      BY <2>6 DEF RunsNext, GoTo
    <3>4. Cl(m, h).handlerBegin \in DOMAIN code[m]
      BY <2>3, <3>1, HandlerIs
    <3> QED  BY <1>2, <1>4, <2>1, <3>2, <3>3, <3>4, FlowsStep
  <2>7. CASE Lands(m)
    <3>1. frames' = WithFlows(frames, Front(fl)) /\ GoTo(Efi.target)
      BY <2>2, <2>7 DEF Lands
    <3>2. /\ Front(fl) \in Seq(FlowEntry) /\ AtRest(m, Front(fl), Efi.target, departures')
          /\ Efi.target \in DOMAIN code[m]
      BY <2>3, <2>4, <2>5, LandRests
    <3>3. PICK gl \in Seq(FlowEntry) : gl = Front(fl)
      BY <3>2
    <3>4. ip' = Efi.target /\ phase' = "run" /\ origin' = ip'
      BY <3>1 DEF GoTo
    <3>5. AtRest(m, gl, ip', departures') /\ ip' \in DOMAIN code[m] /\ frames' = WithFlows(frames, gl)
      BY <3>1, <3>2, <3>3, <3>4
    <3> QED  BY <1>2, <1>4, <2>1, <3>4, <3>5, FlowsStep
  <2> QED  BY <1>2, <1>4, <2>1, <2>6, <2>7, NextFinallyIs
<1>5. CASE ~HasCur
  <2>1. Abort
    BY <1>5 DEF EndFinally
  <2> QED  BY <1>1, <2>1, AbortStep
<1> QED  BY <1>3, <1>4, <1>5 DEF EndFinally

\* The filter takes the exception, with entries gl.
Accepts(gl) ==
  /\ gl \in Seq(FlowEntry) /\ Len(gl) = Len(Flows) /\ \A k \in 1 .. (Len(Flows) - 1) : gl[k] = Flows[k]
  /\ gl[Len(Flows)].next = Efi.next /\ gl[Len(Flows)].type = "Catch"
  /\ gl[Len(Flows)].throwOffset = Efi.throwOffset /\ gl[Len(Flows)].at = Efi.at
  /\ gl[Len(Flows)].target = Efi.target
  /\ frames' = WithFlows(frames, gl) /\ GoTo(ip + 1) /\ UNCHANGED <<imi, ipBase, departures>>

Resumes ==
  phase' = "search" /\ origin' = ip /\ UNCHANGED <<frames, imi, ipBase, ip, departures>>

LEMMA EndFilterIs ==
  ASSUME Shape, EndFilter
  PROVE  Abort \/ (HasCur /\ (Resumes \/ \E gl : Accepts(gl)))
<1>1. Instr.op = "endfilter" /\ phase = "run"
  BY DEF EndFilter, Running
<1>2. frames # <<>>
  BY <1>1, RunIs
<1>3. ASSUME HasCur, GoTo(ip + 1), UNCHANGED <<imi, ipBase, departures>>,
             frames' = [frames EXCEPT ![Len(frames)].flows[Len(Flows)].type = "Catch"]
      PROVE  \E gl : Accepts(gl)
  <2>1. PICK e : e = [Efi EXCEPT !.type = "Catch"]
    OBVIOUS
  <2>2. /\ e \in FlowEntry /\ e.next = Efi.next /\ e.type = "Catch"
        /\ e.throwOffset = Efi.throwOffset /\ e.at = Efi.at /\ e.target = Efi.target
    BY <1>2, <1>3, <2>1, CurIs DEF FlowEntry
  <2>3. PICK gl : gl = [Flows EXCEPT ![Len(Flows)] = e]
    OBVIOUS
  <2>4. gl \in Seq(FlowEntry) /\ Len(gl) = Len(Flows) /\ gl[Len(Flows)] = e
        /\ \A k \in 1 .. (Len(Flows) - 1) : gl[k] = Flows[k]
    BY <1>2, <1>3, <2>2, <2>3, TopEntryIs
  <2>5. frames' = WithFlows(frames, gl)
    <3>1. frames' = TypeSet(frames, Len(Flows), "Catch")
      BY <1>3 DEF TypeSet
    <3>2. Flows = frames[Len(frames)].flows
      BY DEF Flows, Top
    <3>3. e = [Flows[Len(Flows)] EXCEPT !.type = "Catch"]
      BY <2>1 DEF Efi
    <3>4. TypeSet(frames, Len(Flows), "Catch") = WithFlows(frames, gl)
      BY <2>3, <3>2, <3>3, TypeSetIs
    <3> QED  BY <3>1, <3>4
  <2>6. Accepts(gl)
    BY <1>3, <2>2, <2>4, <2>5 DEF Accepts
  <2> QED  BY <2>6
<1> QED  BY <1>3 DEF EndFilter, Resumes

LEMMA EndFilterStep ==
  ASSUME Shape, EndFilter
  PROVE  Shape'
<1>1. Instr.op = "endfilter" /\ phase = "run"
  BY DEF EndFilter, Running
<1>2. frames # <<>> /\ AtRest(Top.method, Flows, ip, departures)
  BY <1>1, RunIs
<1>3. CASE HasCur /\ Resumes
  BY <1>1, <1>3, EndTypes, ResumeStep DEF Resumes
<1>4. ASSUME HasCur, NEW gl, Accepts(gl)
      PROVE  Shape'
  <2>1. PICK m : m = Top.method
    OBVIOUS
  <2>2. PICK fl \in Seq(FlowEntry) : fl = Flows
    BY <1>2, TopIs
  <2>3. /\ m \in Methods /\ ip \in Nat /\ ip \in DOMAIN code[m]
        /\ WellFormed(m, ip) /\ code[m][ip].op = "endfilter"
    BY <1>1, <1>2, <2>1, TopIs
  <2>4. fl # <<>> /\ Efi = fl[Len(fl)] /\ (Clean(departures') => fl[Len(fl)].type = "Exception")
    BY <1>1, <1>2, <1>4, <2>2, CurIs, EndTypes DEF Accepts
  <2>5. AtRest(m, fl, ip, departures')
    BY <1>2, <1>4, <2>1, <2>2 DEF Accepts
  <2>6. ip + 1 \in DOMAIN code[m] /\ AtRest(m, gl, ip + 1, departures')
    BY <1>4, <2>2, <2>3, <2>4, <2>5, CaughtRests DEF Accepts
  <2>7. ip' = ip + 1 /\ phase' = "run" /\ origin' = ip' /\ gl \in Seq(FlowEntry)
    BY <1>4 DEF Accepts, GoTo
  <2> QED  BY <1>2, <1>4, <2>1, <2>6, <2>7, FlowsStep DEF Accepts
<1>5. CASE Abort
  BY <1>1, <1>5, AbortStep
<1> QED  BY <1>3, <1>4, <1>5, EndFilterIs
-----------------------------------------------------------------------------
(* Steps of the search *)

\* The list below the top entry does not depend on the top entry.
LEMMA BelowIs ==
  ASSUME NEW fl \in Seq(FlowEntry), fl # <<>>, NEW gl \in Seq(FlowEntry), Len(gl) = Len(fl),
         \A k \in 1 .. (Len(fl) - 1) : gl[k] = fl[k]
  PROVE  SubSeq(gl, 1, Len(gl) - 1) = SubSeq(fl, 1, Len(fl) - 1) /\ gl # <<>>
<1>1. /\ Len(fl) \in Nat \ {0}
      /\ SubSeq(fl, 1, Len(fl) - 1) \in Seq(FlowEntry) /\ Len(SubSeq(fl, 1, Len(fl) - 1)) = Len(fl) - 1
      /\ \A k \in 1 .. (Len(fl) - 1) : SubSeq(fl, 1, Len(fl) - 1)[k] = fl[k]
  BY FrontIs
<1>2. gl # <<>>
  BY <1>1
<1>3. /\ SubSeq(gl, 1, Len(gl) - 1) \in Seq(FlowEntry) /\ Len(SubSeq(gl, 1, Len(gl) - 1)) = Len(gl) - 1
      /\ \A k \in 1 .. (Len(gl) - 1) : SubSeq(gl, 1, Len(gl) - 1)[k] = gl[k]
  BY <1>2, FrontIs
<1>4. PICK a : a = SubSeq(fl, 1, Len(fl) - 1)
  OBVIOUS
<1>5. PICK b : b = SubSeq(gl, 1, Len(gl) - 1)
  OBVIOUS
<1>6. /\ a \in Seq(FlowEntry) /\ b \in Seq(FlowEntry) /\ Len(a) = Len(b) /\ Len(a) = Len(fl) - 1
      /\ \A k \in 1 .. (Len(fl) - 1) : a[k] = b[k]
  BY <1>1, <1>3, <1>4, <1>5
<1>7. a = b
  BY <1>6, SeqEqual
<1> QED  BY <1>2, <1>4, <1>5, <1>7

\* The clause does not take the exception.
LEMMA InSearchPass ==
  ASSUME NEW m \in Methods, NEW fl \in Seq(FlowEntry), NEW d, InSearch(m, fl, d),
         fl[Len(fl)].next < Len(clauses[m]),
         NEW gl \in Seq(FlowEntry), Len(gl) = Len(fl), \A k \in 1 .. (Len(fl) - 1) : gl[k] = fl[k],
         gl[Len(fl)].next = fl[Len(fl)].next + 1, gl[Len(fl)].type = fl[Len(fl)].type,
         gl[Len(fl)].throwOffset = fl[Len(fl)].throwOffset, gl[Len(fl)].target = fl[Len(fl)].target
  PROVE  InSearch(m, gl, d)
<1>1. /\ Len(fl) \in Nat \ {0} /\ DOMAIN fl = 1 .. Len(fl) /\ fl[Len(fl)] \in FlowEntry
      /\ fl # <<>> /\ Known(m, fl[Len(fl)]) /\ (Clean(d) => fl[Len(fl)].type = "Exception")
  BY FrontIs DEF InSearch
<1>2. PICK n \in Nat : n = fl[Len(fl)].next
  BY <1>1 DEF FlowEntry
<1>3. PICK x : x = fl[Len(fl)].throwOffset
  OBVIOUS
<1>4. Len(clauses[m]) \in Nat
  BY ClauseAssumption
<1>5. n + 1 \in Nat /\ n <= n + 1 /\ n + 1 <= Len(clauses[m])
  BY <1>2, <1>4
<1>6. SubSeq(gl, 1, Len(gl) - 1) = SubSeq(fl, 1, Len(fl) - 1) /\ gl # <<>>
  BY <1>1, BelowIs
<1>7. Clean(d) => Fits(m, SubSeq(gl, 1, Len(gl) - 1), x, n + 1)
  <2>1. SUFFICES ASSUME Clean(d)  PROVE Fits(m, SubSeq(fl, 1, Len(fl) - 1), x, n + 1)
    BY <1>6
  <2>2. Fits(m, SubSeq(fl, 1, Len(fl) - 1), x, n)
    BY <1>2, <1>3, <2>1 DEF InSearch
  <2> QED  BY <1>5, <2>2, FitsLater
<1>8. DOMAIN gl = 1 .. Len(fl)
  BY <1>1
<1>9. \A k \in DOMAIN gl : Known(m, gl[k])
  <2>1. \A k \in 1 .. (Len(fl) - 1) : Known(m, gl[k])
    BY <1>1 DEF InSearch
  <2>2. Known(m, gl[Len(fl)])
    BY <1>1 DEF Known
  <2> QED  BY <1>1, <1>8, <2>1, <2>2
<1>10. \A k \in 1 .. (Len(gl) - 1) : Settled(m, gl[k], d)
  BY DEF InSearch
<1>11. /\ (Clean(d) => gl[Len(gl)].type = "Exception") /\ gl[Len(gl)].next = n + 1
       /\ gl[Len(gl)].throwOffset = x
  BY <1>1, <1>2, <1>3
<1> QED  BY <1>5, <1>6, <1>7, <1>9, <1>10, <1>11 DEF InSearch

\* The entry below the top is superseded by the one on top.
LEMMA InSearchDrop ==
  ASSUME NEW m \in Methods, NEW fl \in Seq(FlowEntry), NEW d, InSearch(m, fl, d), Len(fl) >= 2,
         fl[Len(fl)].next >= fl[Len(fl) - 1].next,
         ~InHandler(Cl(m, fl[Len(fl) - 1].next), fl[Len(fl)].throwOffset),
         NEW gl \in Seq(FlowEntry), Len(gl) = Len(fl) - 1, \A k \in 1 .. (Len(fl) - 2) : gl[k] = fl[k],
         gl[Len(fl) - 1] = fl[Len(fl)]
  PROVE  InSearch(m, gl, d)
<1>1. /\ Len(fl) \in Nat \ {0} /\ DOMAIN fl = 1 .. Len(fl) /\ fl[Len(fl)] \in FlowEntry
      /\ fl # <<>> /\ fl[Len(fl)].next <= Len(clauses[m]) /\ (Clean(d) => fl[Len(fl)].type = "Exception")
      /\ SubSeq(fl, 1, Len(fl) - 1) \in Seq(FlowEntry) /\ Len(SubSeq(fl, 1, Len(fl) - 1)) = Len(fl) - 1
      /\ \A k \in 1 .. (Len(fl) - 1) : SubSeq(fl, 1, Len(fl) - 1)[k] = fl[k]
  BY FrontIs DEF InSearch
<1>2. gl # <<>> /\ DOMAIN gl = 1 .. (Len(fl) - 1)
  BY <1>1
<1>3. /\ SubSeq(gl, 1, Len(gl) - 1) \in Seq(FlowEntry) /\ Len(SubSeq(gl, 1, Len(gl) - 1)) = Len(gl) - 1
      /\ \A k \in 1 .. (Len(gl) - 1) : SubSeq(gl, 1, Len(gl) - 1)[k] = gl[k]
  BY <1>2, FrontIs
<1>4. PICK a \in Seq(FlowEntry) : a = SubSeq(fl, 1, Len(fl) - 1)
  BY <1>1
<1>5. PICK b \in Seq(FlowEntry) : b = SubSeq(gl, 1, Len(gl) - 1)
  BY <1>3
<1>6. /\ Len(a) = Len(fl) - 1 /\ Len(b) = Len(a) - 1 /\ a # <<>> /\ a[Len(a)] = fl[Len(fl) - 1]
      /\ \A k \in 1 .. (Len(a) - 1) : b[k] = a[k]
  <2>1. Len(a) = Len(fl) - 1 /\ \A k \in 1 .. (Len(fl) - 1) : a[k] = fl[k]
    BY <1>1, <1>4
  <2>2. Len(b) = Len(fl) - 2 /\ \A k \in 1 .. (Len(fl) - 2) : b[k] = gl[k]
    BY <1>1, <1>3, <1>5
  <2>3. \A k \in 1 .. (Len(fl) - 2) : k \in 1 .. (Len(fl) - 1)
    BY <1>1
  <2>4. Len(fl) - 1 \in 1 .. (Len(fl) - 1) /\ Len(fl) - 1 # 0 /\ (Len(fl) - 1) - 1 = Len(fl) - 2
    BY <1>1
  <2> QED  BY <2>1, <2>2, <2>3, <2>4
<1>7. PICK n \in Nat : n = fl[Len(fl)].next
  BY <1>1 DEF FlowEntry
<1>8. PICK x \in Nat : x = fl[Len(fl)].throwOffset
  BY <1>1 DEF FlowEntry
<1>9. fl[Len(fl) - 1] \in FlowEntry
  BY <1>1
<1>10. a[Len(a)].next <= n /\ ~InHandler(Cl(m, a[Len(a)].next), x)
  BY <1>6, <1>7, <1>8, <1>9 DEF FlowEntry
<1>11. Clean(d) => Fits(m, b, x, n)
  <2>1. SUFFICES ASSUME Clean(d)  PROVE Fits(m, b, x, n)
    OBVIOUS
  <2>2. Fits(m, a, x, n)
    BY <1>4, <1>7, <1>8, <2>1 DEF InSearch
  <2> QED  BY <1>6, <1>10, <2>2, FitsDrop
<1>12. \A k \in DOMAIN gl : Known(m, gl[k])
  <2> SUFFICES ASSUME NEW k \in 1 .. (Len(fl) - 1)  PROVE Known(m, gl[k])
    BY <1>2
  <2>1. CASE k = Len(fl) - 1
    BY <1>1, <2>1 DEF InSearch
  <2>2. CASE k # Len(fl) - 1
    <3>1. k \in 1 .. (Len(fl) - 2) /\ k \in DOMAIN fl
      BY <1>1, <2>2
    <3> QED  BY <3>1 DEF InSearch
  <2> QED  BY <2>1, <2>2
<1>13. \A k \in 1 .. (Len(gl) - 1) : Settled(m, gl[k], d)
  <2>1. \A k \in 1 .. (Len(fl) - 2) : k \in 1 .. (Len(fl) - 1)
    BY <1>1
  <2>2. Len(gl) - 1 = Len(fl) - 2
    BY <1>1
  <2> QED  BY <2>1, <2>2 DEF InSearch
<1>14. gl[Len(gl)] = fl[Len(fl)]
  OBVIOUS
<1> QED  BY <1>1, <1>2, <1>5, <1>7, <1>8, <1>11, <1>12, <1>13, <1>14 DEF InSearch

\* A handler or a filter of the next clause runs, from b.
LEMMA HandlerRests ==
  ASSUME NEW m \in Methods, NEW fl \in Seq(FlowEntry), NEW c, NEW d, InSearch(m, fl, c), c \subseteq d,
         NEW i \in DOMAIN clauses[m], i = fl[Len(fl)].next + 1, InTry(Cl(m, i), fl[Len(fl)].throwOffset),
         NEW b \in Nat, Around(Cl(m, i), b), EntersOnly(m, b, i .. Len(clauses[m])),
         (Clean(d) /\ Len(fl) >= 2) => Around(Cl(m, fl[Len(fl) - 1].next), b),
         NEW gl \in Seq(FlowEntry), Len(gl) = Len(fl), \A k \in 1 .. (Len(fl) - 1) : gl[k] = fl[k],
         gl[Len(fl)].next = i, gl[Len(fl)].type \in {fl[Len(fl)].type, "Catch"},
         Clean(d) => gl[Len(fl)].type # "Leave" /\ gl[Len(fl)].type \in EntryTypes(Cl(m, i), b),
         gl[Len(fl)].throwOffset = fl[Len(fl)].throwOffset, gl[Len(fl)].target = fl[Len(fl)].target
  PROVE  AtRest(m, gl, b, d)
<1>1. /\ Len(fl) \in Nat \ {0} /\ DOMAIN fl = 1 .. Len(fl) /\ fl[Len(fl)] \in FlowEntry /\ fl # <<>>
      /\ Known(m, fl[Len(fl)])
  BY FrontIs DEF InSearch
<1>2. PICK n \in Nat : n = fl[Len(fl)].next
  BY <1>1 DEF FlowEntry
<1>3. PICK x \in Nat : x = fl[Len(fl)].throwOffset
  BY <1>1 DEF FlowEntry
<1>4. i = n + 1 /\ InTry(Cl(m, i), x)
  BY <1>2, <1>3
<1>5. Clean(d) => Fits(m, gl, b, 0)
  <2>1. SUFFICES ASSUME Clean(d)  PROVE Fits(m, gl, b, 0)
    OBVIOUS
  <2>2. Fits(m, SubSeq(fl, 1, Len(fl) - 1), x, n)
    BY <1>2, <1>3, <2>1, CleanBefore DEF InSearch
  <2>3. \A k \in 1 .. (Len(fl) - 1) : Settled(m, fl[k], c)
    BY DEF InSearch
  <2>4. Len(fl) >= 2 => Around(Cl(m, fl[Len(fl) - 1].next), b)
    BY <2>1
  <2> QED  BY <1>1, <1>4, <2>1, <2>2, <2>3, <2>4, FitsHandler
<1>6. DOMAIN gl = 1 .. Len(fl)
  BY <1>1
<1>7. \A k \in DOMAIN gl : Known(m, gl[k]) /\ Settled(m, gl[k], d)
  <2>1. \A k \in 1 .. (Len(fl) - 1) : Known(m, gl[k]) /\ Settled(m, gl[k], d)
    BY <1>1, CleanBefore DEF InSearch, Settled
  <2>2. Known(m, gl[Len(fl)])
    BY <1>1 DEF Known
  <2>3. Settled(m, gl[Len(fl)], d)
    BY <1>3, <1>4 DEF Settled
  <2> QED  BY <1>1, <1>6, <2>1, <2>2, <2>3
<1> QED  BY <1>5, <1>7 DEF AtRest

LEMMA SearchIs ==
  ASSUME Shape, phase = "search"
  PROVE  /\ frames # <<>> /\ HasCur /\ InSearch(Top.method, Flows, departures)
         /\ Flows \in Seq(FlowEntry) /\ Len(Flows) \in Nat \ {0}
         /\ Flows # <<>> /\ Efi = Flows[Len(Flows)] /\ Efi \in FlowEntry /\ Efi.next \in Nat
<1>1. frames # <<>> /\ InSearch(Top.method, Flows, departures)
  BY DEF Shape, Locals
<1>2. Flows \in Seq(FlowEntry) /\ Flows # <<>>
  BY <1>1, TopIs DEF InSearch
<1>3. Len(Flows) \in Nat \ {0}
  BY <1>2, FrontIs
<1>4. HasCur
  BY <1>3 DEF HasCur
<1>5. Efi = Flows[Len(Flows)] /\ Efi \in FlowEntry
  BY <1>1, <1>4, CurIs
<1> QED  BY <1>1, <1>2, <1>3, <1>4, <1>5 DEF FlowEntry

\* The top entry with its clause one further
AtNext == [Efi EXCEPT !.next = Efi.next + 1]

LEMMA AdvancedIs ==
  ASSUME Shape, phase = "search", NEW gl, gl = Advanced
  PROVE  /\ gl \in Seq(FlowEntry) /\ Len(gl) = Len(Flows)
         /\ \A k \in 1 .. (Len(Flows) - 1) : gl[k] = Flows[k]
         /\ gl[Len(Flows)] = AtNext /\ AtNext \in FlowEntry
         /\ AtNext.next = Efi.next + 1 /\ AtNext.type = Efi.type
         /\ AtNext.throwOffset = Efi.throwOffset /\ AtNext.at = Efi.at /\ AtNext.target = Efi.target
<1>1. frames # <<>> /\ HasCur /\ Efi \in FlowEntry /\ Efi.next \in Nat /\ Efi = Flows[Len(Flows)]
  BY SearchIs
<1>2. PICK e : e = AtNext
  OBVIOUS
<1>3. /\ e \in FlowEntry /\ e.next = Efi.next + 1 /\ e.type = Efi.type
      /\ e.throwOffset = Efi.throwOffset /\ e.at = Efi.at /\ e.target = Efi.target
  BY <1>1, <1>2 DEF AtNext, FlowEntry
<1>4. gl = [Flows EXCEPT ![Len(Flows)] = e]
  BY <1>1, <1>2 DEF AtNext, Advanced
<1>5. /\ gl \in Seq(FlowEntry) /\ Len(gl) = Len(Flows) /\ gl[Len(Flows)] = e
      /\ \A k \in 1 .. (Len(Flows) - 1) : gl[k] = Flows[k]
  BY ZenonT(40), <1>1, <1>3, <1>4, TopEntryIs
<1> QED  BY <1>2, <1>3, <1>5

\* The top entry once its clause has caught the exception
AtCatch == [AtNext EXCEPT !.type = "Catch"]

LEMMA CaughtIs ==
  ASSUME Shape, phase = "search", NEW gl, gl = Caught
  PROVE  /\ gl \in Seq(FlowEntry) /\ Len(gl) = Len(Flows)
         /\ \A k \in 1 .. (Len(Flows) - 1) : gl[k] = Flows[k]
         /\ gl[Len(Flows)] = AtCatch /\ AtCatch \in FlowEntry
         /\ AtCatch.next = Efi.next + 1 /\ AtCatch.type = "Catch"
         /\ AtCatch.throwOffset = Efi.throwOffset /\ AtCatch.at = Efi.at /\ AtCatch.target = Efi.target
<1>1. PICK al : al = Advanced
  OBVIOUS
<1>2. PICK n : n = Len(Flows)
  OBVIOUS
<1>3. /\ al \in Seq(FlowEntry) /\ Len(al) = n
      /\ \A k \in 1 .. (n - 1) : al[k] = Flows[k]
      /\ al[n] = AtNext /\ AtNext \in FlowEntry
      /\ AtNext.next = Efi.next + 1 /\ AtNext.type = Efi.type
      /\ AtNext.throwOffset = Efi.throwOffset /\ AtNext.at = Efi.at /\ AtNext.target = Efi.target /\ n \in Nat \ {0}
  BY <1>1, <1>2, AdvancedIs, SearchIs
<1>4. PICK e : e = AtCatch
  OBVIOUS
<1>5. /\ e \in FlowEntry /\ e.next = AtNext.next /\ e.type = "Catch"
      /\ e.throwOffset = AtNext.throwOffset /\ e.at = AtNext.at /\ e.target = AtNext.target
  BY <1>3, <1>4 DEF AtCatch, FlowEntry
<1>6. gl = [al EXCEPT ![n] = e]
  BY <1>1, <1>2, <1>3, <1>4 DEF AtCatch, Caught
<1>7. al # <<>>
  BY <1>3
<1>8. /\ gl \in Seq(FlowEntry) /\ Len(gl) = n /\ gl[n] = e
      /\ \A k \in 1 .. (n - 1) : gl[k] = al[k]
  BY <1>3, <1>5, <1>6, <1>7, LastReplaced
<1> QED  BY <1>2, <1>3, <1>4, <1>5, <1>8

LEMMA SearchPassStep ==
  ASSUME Shape, SearchPass
  PROVE  Shape'
<1>1. phase = "search" /\ Efi.next < Len(clauses[imi])
  BY DEF SearchPass, Searching, ClausesLeft
<1>2. PICK gl : gl = Advanced
  OBVIOUS
<1>3. PICK m : m = Top.method
  OBVIOUS
<1>4. PICK fl \in Seq(FlowEntry) : fl = Flows
  BY <1>1, SearchIs
<1>5. /\ m \in Methods /\ imi = m /\ frames # <<>> /\ InSearch(m, fl, departures)
      /\ Efi = fl[Len(fl)] /\ ip \in DOMAIN code[m]
  BY <1>1, <1>3, <1>4, SearchIs, TopIs
<1>6. /\ gl \in Seq(FlowEntry) /\ Len(gl) = Len(fl) /\ \A k \in 1 .. (Len(fl) - 1) : gl[k] = fl[k]
      /\ gl[Len(fl)].next = fl[Len(fl)].next + 1 /\ gl[Len(fl)].type = fl[Len(fl)].type
      /\ gl[Len(fl)].throwOffset = fl[Len(fl)].throwOffset /\ gl[Len(fl)].target = fl[Len(fl)].target
  BY <1>1, <1>2, <1>4, <1>5, AdvancedIs
<1>7. /\ frames' = WithFlows(frames, gl) /\ phase' = "search" /\ ip' = ip /\ departures' = departures
      /\ UNCHANGED <<imi, ipBase>>
  BY <1>1, <1>2 DEF SearchPass
<1>8. InSearch(m, gl, departures)
  BY <1>1, <1>5, <1>6, InSearchPass
<1>9. InSearch(m, gl, departures') /\ ip' \in DOMAIN code[m] /\ departures \subseteq departures'
  BY <1>5, <1>7, <1>8
<1> QED  BY <1>3, <1>5, <1>6, <1>7, <1>9, FlowsStep

LEMMA PopPrevIs ==
  ASSUME NEW fl \in Seq(FlowEntry), Len(fl) >= 2, NEW gl, gl = PopPrev(fl)
  PROVE  /\ gl \in Seq(FlowEntry) /\ Len(gl) = Len(fl) - 1
         /\ \A k \in 1 .. (Len(fl) - 2) : gl[k] = fl[k]
         /\ gl[Len(fl) - 1] = fl[Len(fl)]
<1>1. Len(fl) \in Nat /\ DOMAIN fl = 1 .. Len(fl) /\ fl[Len(fl)] \in FlowEntry
  OBVIOUS
<1>2. PICK n : n = Len(fl) - 2
  OBVIOUS
<1>3. n \in Nat /\ \A k \in 1 .. n : k \in 1 .. Len(fl) /\ fl[k] \in FlowEntry
  BY <1>1, <1>2
<1>4. /\ SubSeq(fl, 1, n) \in Seq(FlowEntry) /\ Len(SubSeq(fl, 1, n)) = n
      /\ \A k \in 1 .. n : SubSeq(fl, 1, n)[k] = fl[k]
  BY <1>1, <1>2, <1>3, SubSeqProperties
<1>5. PICK a : a = SubSeq(fl, 1, n)
  OBVIOUS
<1>6. a \in Seq(FlowEntry) /\ Len(a) = n /\ \A k \in 1 .. n : a[k] = fl[k]
  BY <1>4, <1>5
<1>7. PICK e \in FlowEntry : e = fl[Len(fl)]
  BY <1>1
<1>8. /\ Append(a, e) \in Seq(FlowEntry) /\ Len(Append(a, e)) = n + 1
      /\ \A k \in 1 .. n : Append(a, e)[k] = a[k]
      /\ Append(a, e)[n + 1] = e
  BY <1>6, <1>7, AppendIs
<1>9. gl = Append(a, e)
  BY <1>2, <1>5, <1>7 DEF PopPrev
<1>10. n + 1 = Len(fl) - 1
  BY <1>1, <1>2
<1>11. Len(gl) = Len(fl) - 1 /\ gl[Len(fl) - 1] = fl[Len(fl)] /\ gl \in Seq(FlowEntry)
  BY <1>7, <1>8, <1>9, <1>10
<1>12. \A k \in 1 .. n : gl[k] = fl[k]
  BY <1>6, <1>8, <1>9
<1> QED  BY <1>2, <1>11, <1>12

LEMMA SearchPopPrevStep ==
  ASSUME Shape, SearchPopPrev
  PROVE  Shape'
<1>1. /\ phase = "search" /\ Len(Flows) >= 2 /\ Efi.next >= PrevEfi.next
      /\ ~InHandler(clauses[imi][PrevEfi.next], Efi.throwOffset)
  BY DEF SearchPopPrev, Searching, Superseded, HasPrev
<1>3. PICK m : m = Top.method
  OBVIOUS
<1>4. PICK fl \in Seq(FlowEntry) : fl = Flows
  BY <1>1, SearchIs
<1>2. PICK gl : gl = PopPrev(fl)
  OBVIOUS
<1>5. /\ m \in Methods /\ imi = m /\ frames # <<>> /\ InSearch(m, fl, departures)
      /\ Efi = fl[Len(fl)] /\ ip \in DOMAIN code[m] /\ PrevEfi = fl[Len(fl) - 1]
  BY <1>1, <1>3, <1>4, SearchIs, TopIs DEF PrevEfi
<1>6. /\ gl \in Seq(FlowEntry) /\ Len(gl) = Len(fl) - 1 /\ \A k \in 1 .. (Len(fl) - 2) : gl[k] = fl[k]
      /\ gl[Len(fl) - 1] = fl[Len(fl)]
  BY <1>1, <1>2, <1>4, PopPrevIs
<1>7. /\ frames' = WithFlows(frames, gl) /\ phase' = "search" /\ ip' = ip /\ departures' = departures
      /\ UNCHANGED <<imi, ipBase>>
  BY <1>1, <1>2, <1>4 DEF SearchPopPrev
<1>10. ~InHandler(Cl(m, fl[Len(fl) - 1].next), fl[Len(fl)].throwOffset)
  BY <1>1, <1>5 DEF Cl
<1>11. Len(fl) >= 2 /\ fl[Len(fl)].next >= fl[Len(fl) - 1].next
  BY <1>1, <1>4, <1>5
<1>8. InSearch(m, gl, departures)
  BY <1>5, <1>6, <1>10, <1>11, InSearchDrop
<1>9. InSearch(m, gl, departures') /\ ip' \in DOMAIN code[m] /\ departures \subseteq departures'
  BY <1>5, <1>7, <1>8
<1> QED  BY <1>3, <1>5, <1>6, <1>7, <1>9, FlowsStep

\* Where the search may enter clause i, with an entry of type y
Begins(m, i, b, y) ==
  /\ b \in DOMAIN code[m] /\ b \in Nat /\ Around(Cl(m, i), b)
  /\ EntersOnly(m, b, i .. Len(clauses[m]))
  /\ Clean(departures) => y # "Leave" /\ y \in EntryTypes(Cl(m, i), b)

\* The protecting clause takes the exception, with entries gl.
TakenBy(gl, y) ==
  /\ gl \in Seq(FlowEntry) /\ Len(gl) = Len(Flows) /\ \A k \in 1 .. (Len(Flows) - 1) : gl[k] = Flows[k]
  /\ gl[Len(Flows)].next = Efi.next + 1 /\ gl[Len(Flows)].type = y /\ y \in {Efi.type, "Catch"}
  /\ gl[Len(Flows)].throwOffset = Efi.throwOffset /\ gl[Len(Flows)].target = Efi.target

LEMMA TakeStep ==
  ASSUME Shape, CandidateProtects, NEW m, m = Top.method, NEW i, i = Efi.next + 1,
         NEW b, NEW y, Begins(m, i, b, y), NEW gl, TakenBy(gl, y),
         frames' = WithFlows(frames, gl), GoTo(b), Depart(Abandons(Flows, b)), UNCHANGED <<imi, ipBase>>
  PROVE  Shape'
<1>1. /\ phase = "search" /\ Efi.next < Len(clauses[imi]) /\ InTry(Candidate, Efi.throwOffset)
  BY DEF CandidateProtects, Searching, ClausesLeft
<1>2. PICK fl \in Seq(FlowEntry) : fl = Flows
  BY <1>1, SearchIs
<1>3. /\ m \in Methods /\ imi = m /\ frames # <<>> /\ InSearch(m, fl, departures)
      /\ Efi = fl[Len(fl)] /\ Efi.next \in Nat
  BY <1>1, <1>2, SearchIs, TopIs
<1>4. DOMAIN clauses[m] = 1 .. Len(clauses[m]) /\ Len(clauses[m]) \in Nat
  BY <1>3, ClauseAssumption
<1>5. i \in DOMAIN clauses[m] /\ InTry(Cl(m, i), fl[Len(fl)].throwOffset)
  BY <1>1, <1>3, <1>4 DEF Candidate, Cl
<1>6. departures \subseteq departures'
  BY DEF Depart
<1>7. (Clean(departures') /\ Len(fl) >= 2) => Around(Cl(m, fl[Len(fl) - 1].next), b)
  BY <1>2 DEF Depart, Abandons, Clean, Around, Cl
<1>8. /\ gl \in Seq(FlowEntry) /\ Len(gl) = Len(fl) /\ \A k \in 1 .. (Len(fl) - 1) : gl[k] = fl[k]
      /\ gl[Len(fl)].next = i /\ gl[Len(fl)].type \in {fl[Len(fl)].type, "Catch"}
      /\ Clean(departures') => gl[Len(fl)].type # "Leave" /\ gl[Len(fl)].type \in EntryTypes(Cl(m, i), b)
      /\ gl[Len(fl)].throwOffset = fl[Len(fl)].throwOffset /\ gl[Len(fl)].target = fl[Len(fl)].target
  BY <1>2, <1>3, <1>6, CleanBefore DEF Begins, TakenBy
<1>9. b \in Nat /\ b \in DOMAIN code[m] /\ Around(Cl(m, i), b) /\ EntersOnly(m, b, i .. Len(clauses[m]))
  BY DEF Begins
<1>10. i = fl[Len(fl)].next + 1
  BY <1>3
<1>11. AtRest(m, gl, b, departures')
  BY <1>3, <1>5, <1>6, <1>7, <1>8, <1>9, <1>10, HandlerRests
<1>12. ip' = b /\ phase' = "run" /\ origin' = ip'
  BY DEF GoTo
<1>13. AtRest(m, gl, ip', departures') /\ ip' \in DOMAIN code[m]
  BY <1>9, <1>11, <1>12
<1> QED  BY <1>3, <1>6, <1>8, <1>12, <1>13, FlowsStep

LEMMA CandidateIs ==
  ASSUME Shape, CandidateProtects, NEW m, m = Top.method, NEW i, i = Efi.next + 1
  PROVE  /\ phase = "search" /\ m \in Methods /\ i \in DOMAIN clauses[m] /\ Candidate = Cl(m, i)
         /\ InTry(Cl(m, i), Efi.throwOffset)
<1>1. /\ phase = "search" /\ Efi.next < Len(clauses[imi]) /\ InTry(Candidate, Efi.throwOffset)
  BY DEF CandidateProtects, Searching, ClausesLeft
<1>2. m \in Methods /\ imi = m /\ Efi.next \in Nat
  BY <1>1, SearchIs, TopIs
<1>3. DOMAIN clauses[m] = 1 .. Len(clauses[m]) /\ Len(clauses[m]) \in Nat
  BY <1>2, ClauseAssumption
<1> QED  BY <1>1, <1>2, <1>3 DEF Candidate, Cl

LEMMA SearchCatchStep ==
  ASSUME Shape, SearchCatch
  PROVE  Shape'
<1>1. /\ CandidateProtects /\ Candidate.flags = "Exception" /\ UNCHANGED <<imi, ipBase>>
      /\ frames' = WithFlows(frames, Caught) /\ GoTo(Candidate.handlerBegin)
      /\ Depart(Abandons(Flows, Candidate.handlerBegin))
  BY DEF SearchCatch
<1>2. PICK m : m = Top.method
  OBVIOUS
<1>3. PICK i : i = Efi.next + 1
  OBVIOUS
<1>4. phase = "search" /\ m \in Methods /\ i \in DOMAIN clauses[m] /\ Candidate = Cl(m, i)
  BY <1>1, <1>2, <1>3, CandidateIs
<1>5. PICK b : b = Candidate.handlerBegin
  OBVIOUS
<1>6. PICK gl : gl = Caught
  OBVIOUS
<1>7. TakenBy(gl, "Catch")
  BY <1>4, <1>6, CaughtIs DEF TakenBy
<1>8. Begins(m, i, b, "Catch")
  <2>1. /\ b \in DOMAIN code[m] /\ b \in Nat /\ InHandler(Cl(m, i), b)
        /\ EntersOnly(m, b, i .. Len(clauses[m]))
    BY <1>4, <1>5, HandlerIs
  <2>2. "Catch" \in EntryTypes(Cl(m, i), b)
    BY <1>1, <1>4, TypesOf DEF Catching
  <2> QED  BY <2>1, <2>2 DEF Begins, Around
<1>9. frames' = WithFlows(frames, gl) /\ GoTo(b) /\ Depart(Abandons(Flows, b))
  BY <1>1, <1>5, <1>6
<1> QED  BY <1>1, <1>2, <1>3, <1>7, <1>8, <1>9, TakeStep

LEMMA SearchRunStep ==
  ASSUME Shape, SearchRun
  PROVE  Shape'
<1>1. PICK b : b = IF Candidate.flags = "Filter" THEN Candidate.filterBegin ELSE Candidate.handlerBegin
  OBVIOUS
<1>2. /\ CandidateProtects /\ Candidate.flags # "Exception" /\ UNCHANGED <<imi, ipBase>>
      /\ frames' = WithFlows(frames, Advanced) /\ GoTo(b) /\ Depart(Abandons(Flows, b))
  BY <1>1 DEF SearchRun
<1>3. PICK m : m = Top.method
  OBVIOUS
<1>4. PICK i : i = Efi.next + 1
  OBVIOUS
<1>5. phase = "search" /\ m \in Methods /\ i \in DOMAIN clauses[m] /\ Candidate = Cl(m, i)
  BY <1>2, <1>3, <1>4, CandidateIs
<1>6. PICK gl : gl = Advanced
  OBVIOUS
<1>7. Clean(departures) => Efi.type = "Exception"
  BY <1>5, SearchIs DEF InSearch
<1>8. TakenBy(gl, Efi.type)
  BY <1>5, <1>6, AdvancedIs DEF TakenBy
<1>9. Begins(m, i, b, Efi.type)
  <2>1. CASE Cl(m, i).flags = "Filter"
    <3>1. /\ b \in DOMAIN code[m] /\ b \in Nat /\ InFilter(Cl(m, i), b)
          /\ EntersOnly(m, b, i .. Len(clauses[m]))
      BY <1>1, <1>5, <2>1, HandlerIs
    <3>2. "Exception" \in EntryTypes(Cl(m, i), b)
      BY <1>5, <3>1, TypesOf
    <3> QED  BY <1>7, <3>1, <3>2 DEF Begins, Around
  <2>2. CASE Cl(m, i).flags # "Filter"
    <3>1. /\ b \in DOMAIN code[m] /\ b \in Nat /\ InHandler(Cl(m, i), b)
          /\ EntersOnly(m, b, i .. Len(clauses[m]))
      BY <1>1, <1>5, <2>2, HandlerIs
    <3>2. "Exception" \in EntryTypes(Cl(m, i), b)
      BY <1>2, <1>5, <2>2, TypesOf DEF ClauseFlags
    <3> QED  BY <1>7, <3>1, <3>2 DEF Begins, Around
  <2> QED  BY <2>1, <2>2
<1>10. frames' = WithFlows(frames, gl)
  BY <1>2, <1>6
<1> QED  BY <1>2, <1>3, <1>4, <1>8, <1>9, <1>10, TakeStep

LEMMA SearchNullStep ==
  ASSUME Shape, SearchNull
  PROVE  Shape'
BY AbortStep DEF SearchNull, CandidateProtects, Searching

\* The exception is prepared in the caller, at its return address.
LEMMA SearchUnwindStep ==
  ASSUME Shape, SearchUnwind, departures \subseteq departures'
  PROVE  Shape'
<1>1. phase = "search"
  BY DEF SearchUnwind, Searching
<1>2. frames # <<>> /\ Efi \in FlowEntry
  BY <1>1, SearchIs
<1>3. CASE Len(frames) = 1
  <2>1. CASE Efi.ex = NoEx
    BY <1>1, <1>3, <2>1, AbortStep DEF SearchUnwind
  <2> QED  BY <1>3, <2>1, EndShape DEF SearchUnwind
<1>4. CASE Len(frames) # 1
  <2>1. PICK n : n = Len(frames)
    OBVIOUS
  <2>2. PICK f : f = frames[n - 1]
    OBVIOUS
  <2>3. /\ n \in Nat /\ n - 1 \in Nat \ {0} /\ frames \in Seq(Frame)
        /\ f \in Frame /\ Waiting(f, departures) /\ f.method \in Methods
        /\ f.flows \in Seq(FlowEntry) /\ f.ip \in Nat /\ f.ip - 1 \in Nat
        /\ StaysIn(f.method, f.ip - 1, f.ip)
    BY <1>2, <1>4, <2>1, <2>2, CallerIs
  <2>4. AtRest(f.method, f.flows, f.ip, departures')
    BY <2>3, StaysSame, AtRestMoves DEF Waiting
  <2>5. PICK x \in Exceptions \cup {NoEx} : x = Efi.ex
    BY <1>2 DEF FlowEntry
  <2>6. PICK e : e = [Entry("Exception", f.ip, x, 0, 1) EXCEPT !.at = f.ip - 1]
    OBVIOUS
  <2>7. /\ e \in FlowEntry /\ e.type = "Exception" /\ e.throwOffset = f.ip /\ e.next = 0
        /\ e.target \in DOMAIN code[f.method]
    BY <2>3, <2>6, CodeAssumption DEF Entry, FlowEntry
  <2>8. PICK fl : fl = Append(f.flows, e)
    OBVIOUS
  <2>9. Len(clauses[f.method]) \in Nat
    BY <2>3, ClauseAssumption
  <2>10. fl \in Seq(FlowEntry) /\ InSearch(f.method, fl, departures')
    <3>1. /\ \A k \in DOMAIN f.flows : Known(f.method, f.flows[k]) /\ Settled(f.method, f.flows[k], departures')
          /\ Clean(departures') => Fits(f.method, f.flows, e.throwOffset, e.next)
      BY <2>4, <2>7 DEF AtRest
    <3>2. e.next <= Len(clauses[f.method])
      BY <2>7, <2>9
    <3>3. Append(f.flows, e) \in Seq(FlowEntry) /\ InSearch(f.method, Append(f.flows, e), departures')
      BY <2>3, <2>7, <3>1, <3>2, Prepared
    <3> QED  BY <2>8, <3>3
  <2>11. PICK fr : fr = Front(frames)
    OBVIOUS
  <2>12. /\ fr \in Seq(Frame) /\ Len(fr) = n - 1 /\ \A i \in 1 .. (n - 1) : fr[i] = frames[i]
    BY <1>2, <2>1, <2>3, <2>11, FrontIs
  <2>13. fr # <<>> /\ fr[n - 1] = f /\ \A i \in 1 .. (n - 2) : fr[i] = frames[i]
    BY <2>2, <2>3, <2>12
  <2>14. /\ imi' = f.method /\ ipBase' = f.method /\ ip' = f.ip /\ phase' = "search"
         /\ frames' = PrepareFrom(fr, f.ip - 1, f.ip, x, 0)
    BY <1>1, <1>4, <2>1, <2>2, <2>5, <2>11 DEF SearchUnwind
  <2>15. PICK fs : fs = frames'
    OBVIOUS
  <2>16. fs = WithFlows(fr, fl)
    BY <2>6, <2>8, <2>12, <2>13, <2>14, <2>15 DEF PrepareFrom
  <2>17. /\ fs \in Seq(Frame) /\ Len(fs) = Len(fr)
         /\ \A i \in 1 .. (Len(fr) - 1) : fs[i] = fr[i]
         /\ fs[Len(fr)].method = fr[Len(fr)].method /\ fs[Len(fr)].ip = fr[Len(fr)].ip
         /\ fs[Len(fr)].flows = fl
    BY <2>10, <2>12, <2>13, <2>16, WithFlowsIs
  <2>18. Len(fr) - 1 = n - 2
    BY <2>3, <2>12
  <2>19. /\ Len(fs) = n - 1 /\ \A i \in 1 .. (n - 2) : fs[i] = frames[i]
         /\ fs[n - 1].method = f.method /\ fs[n - 1].ip = f.ip /\ fs[n - 1].flows = fl
    BY <2>12, <2>13, <2>17, <2>18
  <2> QED  BY <1>2, <1>4, <2>1, <2>2, <2>10, <2>14, <2>15, <2>17, <2>19, CallerStep
<1> QED  BY <1>3, <1>4

-----------------------------------------------------------------------------
(* The invariant *)

\* A departure is forgotten only with Execute.
LEMMA DepartsMore ==
  ASSUME Types, Next
  PROVE  Types' /\ (departures \subseteq departures' \/ EndExecute)
<1> USE DEF Types, Depart, Departures, GoTo
<1>1. ASSUME NEW m \in Methods, Execute(m)
      PROVE  Types' /\ departures \subseteq departures'
  BY <1>1 DEF Execute
<1>2. CASE Op
  BY <1>2 DEF Op, RaiseIn
<1>3. CASE Branch
  BY <1>3 DEF Branch
<1>4. CASE Call
  BY <1>4 DEF Call, RaiseIn
<1>5. CASE Ret
  BY <1>5 DEF Ret, EndExecute
<1>6. CASE Throw
  BY <1>6 DEF Throw
<1>7. CASE Rethrow
  BY <1>7 DEF Rethrow, RaiseIn, Abort
<1>8. CASE Leave
  BY <1>8 DEF Leave, LeaveEx, LeaveEx_Directly, LeaveByBranch
<1>9. CASE EndFinally
  BY <1>9 DEF EndFinally, NextFinally, Abort
<1>10. CASE EndFilter
  BY <1>10 DEF EndFilter, Abort
<1>11. CASE SearchPopPrev
  BY <1>11 DEF SearchPopPrev
<1>12. CASE SearchPass
  BY <1>12 DEF SearchPass
<1>13. CASE SearchCatch
  BY <1>13 DEF SearchCatch, Abandons
<1>14. CASE SearchRun
  BY <1>14 DEF SearchRun, Abandons
<1>15. CASE SearchUnwind
  BY <1>15 DEF SearchUnwind, EndExecute, Abort
<1>16. CASE OutOfFlows
  BY <1>16 DEF OutOfFlows, EndExecute
<1>17. CASE Aborted
  BY <1>17 DEF Aborted, vars
<1>18. CASE SearchNull
  BY <1>18 DEF SearchNull, Abort
<1> QED  BY <1>1, <1>2, <1>3, <1>4, <1>5, <1>6, <1>7, <1>8, <1>9, <1>10, <1>11, <1>12, <1>13, <1>14,
            <1>15, <1>16, <1>17, <1>18 DEF Next

LEMMA ShapeSame ==
  ASSUME Shape, UNCHANGED <<frames, imi, ipBase, ip, phase, origin, departures>>
  PROVE  Shape'
<1>1. Top' = Top /\ Flows' = Flows
  BY DEF Top, Flows
<1>2. Locals => Locals'
  BY <1>1 DEF Locals
<1> QED  BY <1>2 DEF Shape

LEMMA ShapeStep ==
  ASSUME Shape, Next, departures \subseteq departures', "foreign" \notin departures'
  PROVE  Shape'
<1>1. CASE \E m \in Methods : Execute(m)
  BY <1>1, ExecuteStep
<1>2. CASE Op \/ Branch \/ Call \/ Ret
  BY <1>2, OpStep, BranchStep, CallStep, RetStep
<1>3. CASE Throw \/ Rethrow \/ Leave
  BY <1>3, ThrowStep, RethrowStep, LeaveStep
<1>4. CASE EndFinally \/ EndFilter
  BY <1>4, EndFinallyStep, EndFilterStep
<1>5. CASE SearchPopPrev \/ SearchPass \/ SearchCatch \/ SearchRun \/ SearchNull \/ SearchUnwind
  BY <1>5, SearchPopPrevStep, SearchPassStep, SearchCatchStep, SearchRunStep,
            SearchNullStep, SearchUnwindStep
<1>6. CASE OutOfFlows
  BY <1>6, EndShape DEF OutOfFlows
<1>7. CASE Aborted
  BY <1>7, ShapeSame DEF Aborted, vars
<1> QED  BY <1>1, <1>2, <1>3, <1>4, <1>5, <1>6, <1>7 DEF Next

LEMMA IInvStep ==
  ASSUME IInv, [Next]_vars
  PROVE  IInv'
<1>1. CASE UNCHANGED vars
  BY <1>1, ShapeSame DEF IInv, Types, vars
<1>2. CASE Next
  <2>1. Types' /\ (departures \subseteq departures' \/ EndExecute)
    BY <1>2, DepartsMore DEF IInv
  <2>2. CASE EndExecute
    BY <2>1, <2>2, EndShape DEF IInv
  <2>3. CASE departures \subseteq departures'
    <3>1. SUFFICES ASSUME "foreign" \notin departures'  PROVE Shape'
      BY <2>1 DEF IInv
    <3>2. Shape
      BY <2>3, <3>1 DEF IInv
    <3> QED  BY <1>2, <2>3, <3>1, <3>2, ShapeStep
  <2> QED  BY <2>1, <2>2, <2>3
<1> QED  BY <1>1, <1>2

LEMMA IInvInit ==
  ASSUME Init
  PROVE  IInv
<1>1. /\ frames = <<>> /\ phase = "idle" /\ ip = 1 /\ departures = {}
      /\ imi = NoMethod /\ ipBase = NoMethod
  BY DEF Init
<1>2. frames \in Seq(Frame) /\ Len(frames) = 0
  BY <1>1
<1>3. Shape
  BY <1>1, <1>2 DEF Shape
<1> QED  BY <1>1, <1>3 DEF IInv, Types

\* In every program of verifiable IL, until the code departs from the CLI in
\* one of the known ways, each frame's entries stand for the handlers its
\* control is in, and an entry under search for those around its throw offset
\* that the search has not passed (Interpreter::Execute's exception flow).
THEOREM FlowsCorrect == Spec => []IInv
<1>1. Init => IInv
  BY IInvInit
<1>2. IInv /\ [Next]_vars => IInv'
  BY IInvStep
<1> QED  BY <1>1, <1>2, PTL DEF Spec
-----------------------------------------------------------------------------
(* What follows from the invariant *)

LEMMA FitsMatches ==
  ASSUME NEW f \in Frame, NEW o, Fits(f.method, f.flows, o, 0)
  PROVE  Matches(f, o)
<1>1. PICK m : m = f.method
  OBVIOUS
<1>2. PICK fl : fl = f.flows
  OBVIOUS
<1>3. m \in Methods /\ fl \in Seq(FlowEntry) /\ DOMAIN fl = 1 .. Len(fl) /\ Len(fl) \in Nat
  BY <1>1, <1>2 DEF Frame
<1>4. Listed(m, fl, o) /\ Descends(fl) /\ Complete(m, fl, o, 0)
  BY <1>1, <1>2 DEF Fits
<1>5. \A i : AlreadyLeft(f, i) <=> Left(m, fl, i)
  BY <1>1, <1>2 DEF AlreadyLeft, Left, Catching, Cl
<1>6. \A i \in DOMAIN clauses[m] : i > 0
  BY <1>3, ClauseType
<1>7. \A i : i \in Enclosing(m, o) <=> (i \in DOMAIN clauses[m] /\ Around(Cl(m, i), o))
  BY DEF Enclosing, Around, Cl
<1>8. {fl[k].next : k \in DOMAIN fl} = {i \in Enclosing(m, o) : ~AlreadyLeft(f, i)}
  <2>1. ASSUME NEW k \in DOMAIN fl
        PROVE  fl[k].next \in Enclosing(m, o) /\ ~AlreadyLeft(f, fl[k].next)
    BY <1>4, <1>5, <1>7 DEF Listed
  <2>2. ASSUME NEW i \in Enclosing(m, o), ~AlreadyLeft(f, i)
        PROVE  \E k \in DOMAIN fl : fl[k].next = i
    BY <1>4, <1>5, <1>6, <1>7, <2>2 DEF Complete
  <2> QED  BY <2>1, <2>2
<1>9. \A k \in DOMAIN fl : fl[k].type \in EntryTypes(clauses[m][fl[k].next], o)
  BY <1>4 DEF Listed, Cl
<1>10. ASSUME NEW k \in DOMAIN fl, k > 1
       PROVE  fl[k].next < fl[k - 1].next
  <2>1. k - 1 \in DOMAIN fl /\ k - 1 < k
    BY <1>3, <1>10
  <2> QED  BY <1>4, <2>1 DEF Descends
<1> QED  BY <1>1, <1>2, <1>8, <1>9, <1>10 DEF Matches

LEMMA IInvMatches ==
  ASSUME IInv
  PROVE  FlowsMatchHandlers
<1> SUFFICES ASSUME phase = "run", departures \cap {"abandoned", "leaked", "foreign"} = {},
                    NEW i \in DOMAIN frames
             PROVE  Matches(frames[i], IF i = Len(frames) THEN ip ELSE frames[i].ip - 1)
  BY DEF FlowsMatchHandlers
<1>1. Shape /\ Clean(departures)
  BY DEF IInv, Clean
<1>2. frames # <<>> /\ AtRest(Top.method, Flows, ip, departures)
  BY <1>1, RunIs
<1>3. frames \in Seq(Frame) /\ Len(frames) \in Nat /\ DOMAIN frames = 1 .. Len(frames)
  BY <1>1, <1>2, TopIs
<1>4. frames[i] \in Frame
  BY <1>3
<1>5. CASE i = Len(frames)
  <2>1. Fits(frames[i].method, frames[i].flows, ip, 0)
    BY <1>1, <1>2, <1>5 DEF AtRest, Top, Flows
  <2> QED  BY <1>4, <1>5, <2>1, FitsMatches
<1>6. CASE i # Len(frames)
  <2>1. i \in 1 .. (Len(frames) - 1)
    BY <1>3, <1>6
  <2>2. Fits(frames[i].method, frames[i].flows, frames[i].ip - 1, 0)
    BY <1>1, <2>1 DEF Shape, Waiting, AtRest
  <2> QED  BY <1>4, <1>6, <2>2, FitsMatches
<1> QED  BY <1>5, <1>6

LEMMA IInvIndex ==
  ASSUME IInv, "foreign" \notin departures
  PROVE  ClauseIndexInTable
<1>1. Shape
  BY DEF IInv
<1>2. frames \in Seq(Frame)
  BY <1>1 DEF Shape
<1>3. DOMAIN frames = 1 .. Len(frames) /\ Len(frames) \in Nat
  BY <1>2
<1>4. \A i \in DOMAIN frames : frames[i] \in Frame
  BY <1>2, <1>3
<1>5. ASSUME NEW i \in DOMAIN frames
      PROVE  /\ frames[i].ip \in DOMAIN code[frames[i].method]
             /\ \A k \in DOMAIN frames[i].flows : (k < Len(frames[i].flows) \/ phase = "run") =>
                  frames[i].flows[k].next \in DOMAIN clauses[frames[i].method]
  <2>1. frames # <<>>
    BY <1>3
  <2>2. CASE i = Len(frames)
    <3>1. Top = frames[i] /\ Flows = frames[i].flows
      BY <2>2 DEF Top, Flows
    <3>2. frames[i].ip \in DOMAIN code[frames[i].method]
      BY <1>1, <2>1, <3>1, TopIs
    <3>3. phase # "idle"
      BY <1>1, <2>1 DEF Shape
    <3>4. CASE phase = "run" \/ (phase = "aborted" /\ AtRest(Top.method, Flows, ip, departures))
      BY <1>1, <2>1, <3>1, <3>2, <3>4 DEF Shape, Locals, AtRest, Settled
    <3>5. CASE phase \in {"search", "aborted"} /\ InSearch(Top.method, Flows, departures)
      <4>1. InSearch(Top.method, Flows, departures) /\ Flows \in Seq(FlowEntry) /\ Len(Flows) \in Nat
        BY <1>1, <2>1, <3>5, TopIs
      <4>2. ASSUME NEW k \in DOMAIN Flows, k < Len(Flows)
            PROVE  Flows[k].next \in DOMAIN clauses[Top.method]
        <5>1. k \in 1 .. (Len(Flows) - 1)
          BY <4>1, <4>2
        <5> QED  BY <4>1, <5>1 DEF InSearch, Settled
      <4> QED  BY <3>1, <3>2, <3>5, <4>2
    <3> QED  BY <1>1, <2>1, <3>3, <3>4, <3>5 DEF IInv, Types, Shape, Locals
  <2>3. CASE i # Len(frames)
    <3>1. i \in 1 .. (Len(frames) - 1)
      BY <1>3, <2>3
    <3> QED  BY <1>1, <3>1 DEF Shape, Waiting, AtRest, Settled
  <2> QED  BY <2>2, <2>3
<1>6. \A i \in DOMAIN frames :
        /\ frames[i].method \in Methods
        /\ \A k \in DOMAIN frames[i].flows : frames[i].flows[k] \in FlowEntry
  <2> SUFFICES ASSUME NEW i \in DOMAIN frames
               PROVE  /\ frames[i].method \in Methods
                      /\ \A k \in DOMAIN frames[i].flows : frames[i].flows[k] \in FlowEntry
    OBVIOUS
  <2>1. frames[i].method \in Methods /\ frames[i].flows \in Seq(FlowEntry)
    BY <1>4 DEF Frame
  <2> QED  BY <2>1
<1>7. {imi, ipBase} \subseteq Methods \cup {NoMethod}
  <2>1. CASE frames = <<>>
    BY <1>1, <2>1 DEF Shape
  <2>2. CASE frames # <<>>
    BY <1>1, <2>2, TopIs
  <2> QED  BY <2>1, <2>2
<1>8. TypeOK
  BY <1>1, <1>5, <1>6, <1>7 DEF TypeOK, IInv, Types, Shape
<1> QED  BY <1>5, <1>8 DEF ClauseIndexInTable

\* While a program of verifiable IL runs, the flow entries of each of its frames
\* are exactly the handlers around the frame's current instruction, innermost
\* last, less the catches a leave in progress is leaving.
THEOREM FlowsMatch == Spec => []FlowsMatchHandlers
<1>1. IInv => FlowsMatchHandlers
  BY IInvMatches
<1> QED  BY <1>1, FlowsCorrect, PTL

\* FIND_NEXT_EX_HANDLER_OR_UNWIND indexes the EH table in range, and every
\* variable holds a value of its type, as long as no failing entry of a callee
\* has left imi and the top frame at odds.
THEOREM IndexInTable == Spec => []("foreign" \notin departures => ClauseIndexInTable)
<1>1. IInv => ("foreign" \notin departures => ClauseIndexInTable)
  BY IInvIndex
<1> QED  BY <1>1, FlowsCorrect, PTL
-----------------------------------------------------------------------------
(* What the steps of running code do to the top frame *)

\* Nothing but the entries of the top frame changes.
SameBelow ==
  /\ frames' \in Seq(Frame) /\ Len(frames') = Len(frames)
  /\ \A i \in 1 .. (Len(frames) - 1) : frames'[i] = frames[i]
  /\ frames'[Len(frames)].method = Top.method

Moves ==
  frames' = frames /\ phase' = "run" /\ origin' = ip' /\ StaysIn(Top.method, ip, ip')

\* The top frame gets an entry for an exception raised at ip.
Raises(first) ==
  /\ SameBelow /\ phase' = "search" /\ origin' = ip
  /\ \E e \in FlowEntry :
       /\ e.throwOffset = ip /\ e.at = ip /\ e.next = first
       /\ frames'[Len(frames)].flows = Append(Flows, e)

LEMMA FlowsBelow ==
  ASSUME Shape, frames # <<>>, NEW fl \in Seq(FlowEntry), frames' = WithFlows(frames, fl)
  PROVE  SameBelow /\ frames'[Len(frames)].flows = fl
<1>1. frames \in Seq(Frame) /\ frames[Len(frames)].method = Top.method
  BY TopIs
<1>2. PICK g : g = frames'
  OBVIOUS
<1>3. /\ g \in Seq(Frame) /\ Len(g) = Len(frames)
      /\ \A i \in 1 .. (Len(frames) - 1) : g[i] = frames[i]
      /\ g[Len(frames)].method = frames[Len(frames)].method /\ g[Len(frames)].ip = frames[Len(frames)].ip
      /\ g[Len(frames)].flows = fl
  BY <1>1, <1>2, WithFlowsIs
<1> QED  BY <1>1, <1>2, <1>3 DEF SameBelow

LEMMA RaisesIs ==
  ASSUME Shape, frames # <<>>, NEW ex \in Exceptions \cup {NoEx}, NEW first \in Nat,
         NEW fs \in Seq(Frame), Len(fs) = Len(frames), \A i \in 1 .. (Len(frames) - 1) : fs[i] = frames[i],
         fs[Len(frames)].method = Top.method, fs[Len(frames)].flows = Flows,
         frames' = PrepareFrom(fs, ip, ip, ex, first), phase' = "search", origin' = ip
  PROVE  Raises(first)
<1>1. Len(frames) \in Nat \ {0} /\ Flows \in Seq(FlowEntry) /\ ip \in Nat
  BY TopIs
<1>2. fs # <<>>
  BY <1>1
<1>3. PICK e : e = [Entry("Exception", ip, ex, first, 1) EXCEPT !.at = ip]
  OBVIOUS
<1>4. e \in FlowEntry /\ e.throwOffset = ip /\ e.next = first /\ e.at = ip
  BY <1>1, <1>3 DEF Entry, FlowEntry
<1>5. PICK fl : fl = Append(Flows, e)
  OBVIOUS
<1>6. fl \in Seq(FlowEntry)
  BY <1>1, <1>4, <1>5, AppendIs
<1>7. PICK g : g = frames'
  OBVIOUS
<1>8. g = WithFlows(fs, fl)
  BY <1>3, <1>5, <1>7 DEF PrepareFrom
<1>9. /\ g \in Seq(Frame) /\ Len(g) = Len(fs)
      /\ \A i \in 1 .. (Len(fs) - 1) : g[i] = fs[i]
      /\ g[Len(fs)].method = fs[Len(fs)].method /\ g[Len(fs)].ip = fs[Len(fs)].ip
      /\ g[Len(fs)].flows = fl
  BY <1>2, <1>6, <1>8, WithFlowsIs
<1>10. SameBelow
  BY <1>7, <1>9 DEF SameBelow
<1> QED  BY <1>4, <1>5, <1>7, <1>9, <1>10 DEF Raises

LEMMA RaiseInIs ==
  ASSUME Shape, frames # <<>>, NEW ex \in Exceptions \cup {NoEx}, RaiseIn(frames, ex)
  PROVE  Raises(0)
<1>1. frames \in Seq(Frame) /\ frames[Len(frames)].method = Top.method /\ frames[Len(frames)].flows = Flows
  BY TopIs
<1>2. frames' = PrepareFrom(frames, ip, ip, ex, 0) /\ phase' = "search" /\ origin' = ip
  BY DEF RaiseIn, Prepare
<1> QED  BY <1>1, <1>2, RaisesIs

LEMMA OpIs ==
  ASSUME Shape, Op
  PROVE  Moves \/ Raises(0)
<1>1. Instr.op = "op" /\ phase = "run"
  BY DEF Op, Running
<1>2. frames # <<>>
  BY <1>1, RunIs
<1>3. StaysIn(Top.method, ip, ip + 1) /\ Instr.raises \subseteq Exceptions
  BY <1>1, <1>2, TopIs DEF WellFormed
<1>4. CASE GoTo(ip + 1) /\ UNCHANGED <<frames, departures>>
  BY <1>3, <1>4 DEF Moves, GoTo
<1>5. ASSUME NEW ex \in Instr.raises, RaiseIn(frames, ex)
      PROVE  Raises(0)
  BY <1>2, <1>3, <1>5, RaiseInIs
<1> QED  BY <1>4, <1>5 DEF Op

LEMMA BranchIs ==
  ASSUME Shape, Branch
  PROVE  Moves
<1>1. Instr.op = "br" /\ phase = "run"
  BY DEF Branch, Running
<1>2. StaysIn(Top.method, ip, ip + 1) /\ StaysIn(Top.method, ip, Instr.target)
  BY <1>1, RunIs, TopIs DEF WellFormed
<1>3. PICK o \in {ip + 1, Instr.target} : GoTo(o)
  BY DEF Branch
<1> QED  BY <1>2, <1>3 DEF Branch, Moves, GoTo

\* The exception of throw is looked for from the first clause around it on.
LEMMA ThrowIs ==
  ASSUME Shape, Throw
  PROVE  /\ phase = "run" /\ frames # <<>>
         /\ \E first \in Nat :
              /\ Raises(first)
              /\ (\E i \in 1 .. first : InTry(clauses[ipBase][i], ip)) => "faultSkipped" \in departures'
<1>1. Instr.op = "throw" /\ phase = "run"
  BY DEF Throw, Running
<1>2. frames # <<>>
  BY <1>1, RunIs
<1>3. /\ frames \in Seq(Frame) /\ frames[Len(frames)].method = Top.method /\ frames[Len(frames)].flows = Flows
      /\ ipBase = Top.method /\ Top.method \in Methods /\ Instr.ex \in Exceptions
  BY <1>1, <1>2, TopIs DEF WellFormed
<1>4. PICK first : first = FirstThrowHandlerIndex(clauses[ipBase], ip)
  OBVIOUS
<1>5. first \in Nat
  <2> DEFINE S == {i \in DOMAIN clauses[ipBase] :
                     clauses[ipBase][i].flags # "Fault" /\ InTry(clauses[ipBase][i], ip)}
  <2>1. DOMAIN clauses[ipBase] = 1 .. Len(clauses[ipBase]) /\ Len(clauses[ipBase]) \in Nat
    BY <1>3, ClauseAssumption
  <2>2. S \subseteq Nat \ {0}
    BY <2>1
  <2>3. first = IF S = {} THEN Len(clauses[ipBase]) ELSE First(S) - 1
    BY <1>4 DEF FirstThrowHandlerIndex
  <2> HIDE DEF S
  <2>4. S # {} => First(S) \in S
    BY <2>2, FirstIs
  <2>5. CASE S = {}
    BY <2>1, <2>3, <2>5
  <2>6. CASE S # {}
    <3>1. First(S) \in Nat \ {0} /\ first = First(S) - 1
      BY <2>2, <2>3, <2>4, <2>6
    <3> QED  BY <3>1
  <2> QED  BY <2>5, <2>6
<1>6. /\ frames' = PrepareFrom(frames, ip, ip, Instr.ex, first) /\ phase' = "search" /\ origin' = ip
      /\ (\E i \in 1 .. first : InTry(clauses[ipBase][i], ip)) => "faultSkipped" \in departures'
  BY <1>4 DEF Throw, Prepare, Depart
<1>7. Raises(first)
  BY <1>2, <1>3, <1>5, <1>6, RaisesIs
<1> QED  BY <1>1, <1>2, <1>5, <1>6, <1>7

LEMMA RethrowIs ==
  ASSUME Shape, Rethrow
  PROVE  Abort \/ Raises(0)
<1>1. phase = "run"
  BY DEF Rethrow, Running
<1>2. frames # <<>>
  BY <1>1, RunIs
<1>3. CASE HasCur /\ Efi.ex # NoEx
  <2>1. Efi.ex \in Exceptions \cup {NoEx}
    BY <1>2, <1>3, CurIs DEF FlowEntry
  <2>2. RaiseIn(frames, Efi.ex)
    BY <1>3 DEF Rethrow
  <2> QED  BY <1>2, <2>1, <2>2, RaiseInIs
<1>4. CASE ~(HasCur /\ Efi.ex # NoEx)
  BY <1>4 DEF Rethrow
<1> QED  BY <1>3, <1>4

\* A call pushes a frame without entries, or raises in the caller.
Pushes ==
  /\ Len(frames') = Len(frames) + 1 /\ DOMAIN frames' = 1 .. (Len(frames) + 1)
  /\ \A i \in 1 .. Len(frames) : frames'[i].method = frames[i].method /\ frames'[i].flows = frames[i].flows
  /\ frames'[Len(frames) + 1].flows = <<>>

LEMMA CallIs ==
  ASSUME Shape, Call
  PROVE  (phase' = "run" /\ Pushes) \/ Raises(0)
<1>1. Instr.op = "call" /\ phase = "run"
  BY DEF Call, Running
<1>2. frames # <<>>
  BY <1>1, RunIs
<1>3. /\ Instr.method \in Methods /\ ip + 1 \in DOMAIN code[Top.method]
  BY <1>1, <1>2, TopIs DEF WellFormed, StaysIn
<1>4. PICK g : g = Saved(ip + 1)
  OBVIOUS
<1>5. /\ g \in Seq(Frame) /\ Len(g) = Len(frames)
      /\ \A i \in 1 .. (Len(frames) - 1) : g[i] = frames[i]
      /\ g[Len(frames)].method = Top.method /\ g[Len(frames)].flows = Flows
  BY <1>2, <1>3, <1>4, SavedIs
<1>6. Len(frames) \in Nat \ {0} /\ frames[Len(frames)].method = Top.method /\ frames[Len(frames)].flows = Flows
  BY <1>2, TopIs
<1>7. ASSUME frames' = Append(g, [method |-> Instr.method, ip |-> 1, flows |-> <<>>])
      PROVE  Pushes
  <2>1. PICK f : f = [method |-> Instr.method, ip |-> 1, flows |-> <<>>]
    OBVIOUS
  <2>2. f \in Frame /\ f.flows = <<>>
    BY <1>3, <2>1 DEF Frame
  <2>3. PICK fs : fs = frames'
    OBVIOUS
  <2>4. fs = Append(g, f)
    BY <1>7, <2>1, <2>3
  <2>5. /\ Len(fs) = Len(g) + 1 /\ DOMAIN fs = 1 .. (Len(g) + 1)
        /\ \A i \in 1 .. Len(g) : fs[i] = g[i]
        /\ fs[Len(g) + 1] = f
    BY <1>5, <2>2, <2>4, AppendIs
  <2>6. \A i \in 1 .. Len(frames) : g[i].method = frames[i].method /\ g[i].flows = frames[i].flows
    <3>1. \A i \in 1 .. Len(frames) : i \in 1 .. (Len(frames) - 1) \/ i = Len(frames)
      BY <1>6
    <3> QED  BY <1>5, <1>6, <3>1
  <2> QED  BY <1>5, <2>2, <2>3, <2>5, <2>6 DEF Pushes
<1>8. ASSUME RaiseIn(g, EntryEx)
      PROVE  Raises(0)
  <2>1. g[Len(g)].flows = Flows
    BY <1>5
  <2>2. frames' = PrepareFrom(g, ip, ip, EntryEx, 0) /\ phase' = "search" /\ origin' = ip
    BY <1>8 DEF RaiseIn, Prepare
  <2>3. EntryEx \in Exceptions \cup {NoEx}
    BY CodeAssumption
  <2> QED  BY <1>2, <1>5, <2>2, <2>3, RaisesIs
<1> QED  BY <1>4, <1>7, <1>8 DEF Call, GoTo, Saved
-----------------------------------------------------------------------------
(* Where the exceptions of the entries were raised *)

\* The entries of gl are those of fl or raise where their offset says.
Inherits(fl, gl) ==
  \A k \in DOMAIN gl :
    \/ gl[k].throwOffset = gl[k].at
    \/ \E l \in DOMAIN fl : gl[k].throwOffset = fl[l].throwOffset /\ gl[k].at = fl[l].at

KeepsPlaces ==
  \A i \in DOMAIN frames' :
    \/ frames'[i].flows = <<>>
    \/ /\ i \in DOMAIN frames /\ frames'[i].method = frames[i].method
       /\ Inherits(frames[i].flows, frames'[i].flows)

LEMMA InheritsPlaced ==
  ASSUME NEW m, NEW fl, NEW gl, PlacedIn(m, fl), Inherits(fl, gl)
  PROVE  PlacedIn(m, gl)
<1> SUFFICES ASSUME NEW k \in DOMAIN gl, NEW j \in DOMAIN clauses[m]
             PROVE  InTry(Cl(m, j), gl[k].throwOffset) <=> InTry(Cl(m, j), gl[k].at)
  BY DEF PlacedIn
<1>1. CASE gl[k].throwOffset = gl[k].at
  BY <1>1
<1>2. CASE \E l \in DOMAIN fl : gl[k].throwOffset = fl[l].throwOffset /\ gl[k].at = fl[l].at
  BY <1>2 DEF PlacedIn
<1> QED  BY <1>1, <1>2 DEF Inherits

LEMMA KeepsPlaced ==
  ASSUME Placed, KeepsPlaces, departures \subseteq departures'
  PROVE  Placed'
<1> SUFFICES ASSUME departures' \cap {"misplaced", "foreign"} = {}, NEW i \in DOMAIN frames'
             PROVE  PlacedIn(frames'[i].method, frames'[i].flows)
  BY DEF Placed, PlacedIn, Cl
<1>1. departures \cap {"misplaced", "foreign"} = {}
  OBVIOUS
<1>2. CASE frames'[i].flows = <<>>
  BY <1>2 DEF PlacedIn
<1>3. ASSUME i \in DOMAIN frames, frames'[i].method = frames[i].method,
             Inherits(frames[i].flows, frames'[i].flows)
      PROVE  PlacedIn(frames'[i].method, frames'[i].flows)
  <2>1. PlacedIn(frames[i].method, frames[i].flows)
    BY <1>1, <1>3 DEF Placed
  <2> QED  BY <1>3, <2>1, InheritsPlaced
<1> QED  BY <1>2, <1>3 DEF KeepsPlaces

LEMMA SameInherits ==
  ASSUME NEW fl
  PROVE  Inherits(fl, fl)
BY DEF Inherits

LEMMA SameKeeps ==
  ASSUME frames' = frames
  PROVE  KeepsPlaces
BY SameInherits DEF KeepsPlaces

LEMMA EndKeeps ==
  ASSUME frames' = <<>>
  PROVE  KeepsPlaces
BY DEF KeepsPlaces

LEMMA TopKeeps ==
  ASSUME Shape, frames # <<>>, SameBelow, Inherits(Flows, frames'[Len(frames)].flows)
  PROVE  KeepsPlaces
<1>1. frames' \in Seq(Frame) /\ Len(frames') = Len(frames) /\ Len(frames) \in Nat \ {0}
  BY TopIs DEF SameBelow
<1>2. DOMAIN frames' = 1 .. Len(frames) /\ DOMAIN frames = 1 .. Len(frames)
  BY <1>1, TopIs
<1> SUFFICES ASSUME NEW i \in 1 .. Len(frames)
             PROVE  frames'[i].method = frames[i].method /\ Inherits(frames[i].flows, frames'[i].flows)
  BY <1>2 DEF KeepsPlaces
<1>3. CASE i = Len(frames)
  BY <1>3 DEF SameBelow, Top, Flows
<1>4. CASE i # Len(frames)
  <2>1. i \in 1 .. (Len(frames) - 1)
    BY <1>1, <1>4
  <2> QED  BY <2>1, SameInherits DEF SameBelow
<1> QED  BY <1>3, <1>4

LEMMA FlowsKeep ==
  ASSUME Shape, frames # <<>>, NEW gl \in Seq(FlowEntry), frames' = WithFlows(frames, gl), Inherits(Flows, gl)
  PROVE  KeepsPlaces
BY FlowsBelow, TopKeeps

\* The entries that stay, but for the top one
LEMMA PrefixInherits ==
  ASSUME NEW fl, NEW gl, NEW n \in Nat, NEW l \in Nat, DOMAIN fl = 1 .. n, DOMAIN gl = 1 .. l,
         NEW p \in Nat, p <= n, l = p \/ l = p + 1,
         \A k \in 1 .. p : gl[k].throwOffset = fl[k].throwOffset /\ gl[k].at = fl[k].at,
         l = p + 1 =>
           \/ gl[p + 1].throwOffset = gl[p + 1].at
           \/ \E j \in DOMAIN fl : gl[p + 1].throwOffset = fl[j].throwOffset /\ gl[p + 1].at = fl[j].at
  PROVE  Inherits(fl, gl)
<1> SUFFICES ASSUME NEW k \in 1 .. l
             PROVE  \/ gl[k].throwOffset = gl[k].at
                    \/ \E j \in DOMAIN fl : gl[k].throwOffset = fl[j].throwOffset /\ gl[k].at = fl[j].at
  BY DEF Inherits
<1>1. k \in 1 .. p \/ (l = p + 1 /\ k = p + 1)
  OBVIOUS
<1>2. k \in 1 .. p => k \in DOMAIN fl
  BY SMTT(20)
<1> QED  BY <1>1, <1>2, Zenon

LEMMA RaisesKeep ==
  ASSUME Shape, frames # <<>>, NEW first, Raises(first)
  PROVE  KeepsPlaces
<1>1. SameBelow /\ Flows \in Seq(FlowEntry)
  BY TopIs DEF Raises
<1>2. PICK e \in FlowEntry : e.throwOffset = ip /\ e.at = ip /\ frames'[Len(frames)].flows = Append(Flows, e)
  BY DEF Raises
<1>3. PICK gl : gl = Append(Flows, e)
  OBVIOUS
<1>4. /\ gl \in Seq(FlowEntry) /\ Len(gl) = Len(Flows) + 1 /\ Len(Flows) \in Nat
      /\ \A k \in 1 .. Len(Flows) : gl[k] = Flows[k]
      /\ gl[Len(Flows) + 1] = e
  BY <1>1, <1>3, AppendIs
<1>5. Inherits(Flows, gl)
  <2>1. DOMAIN Flows = 1 .. Len(Flows) /\ DOMAIN gl = 1 .. (Len(Flows) + 1)
    BY <1>1, <1>4
  <2>2. gl[Len(Flows) + 1].throwOffset = gl[Len(Flows) + 1].at
    BY <1>2, <1>4
  <2> QED  BY <1>4, <2>1, <2>2, PrefixInherits
<1> QED  BY <1>1, <1>2, <1>3, <1>5, TopKeeps

\* left are the first p of fl.
Prefix(left, fl, p) ==
  /\ left \in Seq(FlowEntry) /\ Len(left) = p /\ p <= Len(fl)
  /\ \A k \in 1 .. p : left[k] = fl[k]

LEMMA PopPrefix ==
  ASSUME NEW m \in Methods, imi = m, NEW fl \in Seq(FlowEntry), NEW t,
         NEW left, left = PopCatchHandlers(fl, t)
  PROVE  \E p \in Nat : Prefix(left, fl, p)
<1>1. PICK p \in Nat : Stay(m, fl, t, p) /\ left = SubSeq(fl, 1, p)
  BY PopIs
<1>2. /\ SubSeq(fl, 1, p) \in Seq(FlowEntry) /\ Len(SubSeq(fl, 1, p)) = p
      /\ \A k \in 1 .. p : SubSeq(fl, 1, p)[k] = fl[k] /\ k \in DOMAIN fl
  BY <1>1, StayIs
<1>3. p <= Len(fl)
  BY <1>1 DEF Stay
<1> QED  BY <1>1, <1>2, <1>3 DEF Prefix

LEMMA LeaveIs ==
  ASSUME Shape, Leave, NEW m, m = Top.method, NEW t, t = Instr.target
  PROVE  /\ phase = "run" /\ frames # <<>>
         /\ \E gl \in Seq(FlowEntry) :
              Inherits(Flows, gl) /\ (frames' = WithFlows(frames, gl) \/ frames' = frames)
         /\ \/ \E h : LeavesBy(m, ip, t, h) /\ GoTo(Cl(m, h).handlerBegin)
            \/ LeaveHandlers(clauses[m], ip, t) = {} /\ GoTo(t)
<1>1. Instr.op = "leave" /\ phase = "run"
  BY DEF Leave, Running
<1>2. frames # <<>>
  BY <1>1, RunIs
<1>3. PICK fl \in Seq(FlowEntry) : fl = Flows
  BY <1>2, TopIs
<1>4. /\ m \in Methods /\ imi = m /\ ipBase = m /\ ip \in Nat /\ t \in Nat
      /\ DOMAIN fl = 1 .. Len(fl) /\ Len(fl) \in Nat
  <2>1. /\ m \in Methods /\ imi = m /\ ipBase = m /\ ip \in Nat /\ DOMAIN code[m] \subseteq Nat
        /\ t \in DOMAIN code[m]
    BY <1>1, <1>2, TopIs DEF WellFormed, LeavesWell
  <2> QED  BY <1>3, <2>1
<1>5. LeaveHandlersHere = LeaveHandlers(clauses[m], ip, t)
  BY <1>4 DEF LeaveHandlersHere
<1>6. PICK left : left = PopCatchHandlers(fl, t)
  OBVIOUS
<1>7. PICK p \in Nat : Prefix(left, fl, p)
  BY <1>3, <1>4, <1>6, PopPrefix
<1>8. /\ left \in Seq(FlowEntry) /\ Len(left) = p /\ p <= Len(fl)
      /\ \A k \in 1 .. p : left[k] = fl[k]
  BY <1>7 DEF Prefix
<1>9. Inherits(fl, left)
  <2>1. DOMAIN left = 1 .. p
    BY <1>8
  <2> QED  BY <1>4, <1>8, <2>1, PrefixInherits
<1>10. ASSUME NEW h, LeaveHandlers(clauses[m], ip, t) # {}, h = First(LeaveHandlers(clauses[m], ip, t)),
              LeaveEx(h)
       PROVE  /\ \E gl \in Seq(FlowEntry) : Inherits(Flows, gl) /\ frames' = WithFlows(frames, gl)
              /\ LeavesBy(m, ip, t, h) /\ GoTo(Cl(m, h).handlerBegin)
  <2>1. LeavesBy(m, ip, t, h)
    BY <1>10 DEF LeavesBy
  <2>2. h \in DOMAIN clauses[m]
    BY <1>4, <2>1, LeaveHandlersIs
  <2>3. h \in Nat
    BY <1>4, <2>2, ClauseType
  <2>4. PICK e : e = Entry("Leave", ip, NoEx, h, t)
    OBVIOUS
  <2>5. e \in FlowEntry /\ e.throwOffset = ip /\ e.at = ip
    BY <1>4, <2>3, <2>4 DEF Entry, FlowEntry
  <2>6. PICK gl : gl = Append(left, e)
    OBVIOUS
  <2>7. /\ gl \in Seq(FlowEntry) /\ DOMAIN gl = 1 .. (p + 1) /\ gl[p + 1] = e
        /\ \A k \in 1 .. p : gl[k] = left[k]
    BY <1>8, <2>5, <2>6, AppendIs
  <2>8. Inherits(fl, gl)
    <3>1. \A k \in 1 .. p : gl[k].throwOffset = fl[k].throwOffset /\ gl[k].at = fl[k].at
      BY <1>8, <2>7
    <3>2. gl[p + 1].throwOffset = gl[p + 1].at
      BY <2>5, <2>7
    <3> QED  BY <1>4, <1>8, <2>7, <3>1, <3>2, PrefixInherits
  <2>9. frames' = WithFlows(frames, gl) /\ GoTo(Cl(m, h).handlerBegin)
    BY <1>3, <1>4, <1>6, <1>10, <2>4, <2>6 DEF LeaveEx, Cl
  <2> QED  BY <1>3, <2>1, <2>7, <2>8, <2>9
<1>11. \/ LeaveHandlers(clauses[m], ip, t) # {} /\ LeaveEx(First(LeaveHandlers(clauses[m], ip, t)))
       \/ LeaveHandlers(clauses[m], ip, t) = {} /\ (LeaveEx_Directly \/ LeaveByBranch)
  BY <1>5 DEF Leave
<1>12. CASE LeaveHandlers(clauses[m], ip, t) # {} /\ LeaveEx(First(LeaveHandlers(clauses[m], ip, t)))
  BY <1>1, <1>2, <1>10, <1>12
<1>13. ASSUME LeaveHandlers(clauses[m], ip, t) = {}, LeaveEx_Directly \/ LeaveByBranch
       PROVE  GoTo(t) /\ \E gl \in Seq(FlowEntry) :
                Inherits(Flows, gl) /\ (frames' = WithFlows(frames, gl) \/ frames' = frames)
  <2>1. CASE LeaveEx_Directly
    <3>1. frames' = WithFlows(frames, left) /\ GoTo(t)
      BY <1>3, <1>6, <2>1 DEF LeaveEx_Directly
    <3> QED  BY <1>3, <1>8, <1>9, <3>1
  <2>2. CASE LeaveByBranch
    <3>1. frames' = frames /\ GoTo(t)
      BY <2>2 DEF LeaveByBranch
    <3> QED  BY <1>3, <1>8, <1>9, <3>1
  <2> QED  BY <1>13, <2>1, <2>2
<1> QED  BY <1>1, <1>2, <1>11, <1>12, <1>13

LEMMA RunKeeps ==
  ASSUME Shape, Op \/ Branch \/ Throw \/ Rethrow \/ Leave
  PROVE  KeepsPlaces
<1>1. ASSUME frames # <<>>, NEW first, Raises(first)  PROVE KeepsPlaces
  BY <1>1, RaisesKeep
<1>2. phase = "run" /\ frames # <<>>
  <2>1. phase = "run"
    BY DEF Op, Branch, Throw, Rethrow, Leave, Running
  <2> QED  BY <2>1, RunIs
<1>3. CASE Op
  <2>1. Moves \/ Raises(0)
    BY <1>3, OpIs
  <2> QED  BY <1>1, <1>2, <2>1, SameKeeps DEF Moves
<1>4. CASE Branch
  <2>1. Moves
    BY <1>4, BranchIs
  <2> QED  BY <2>1, SameKeeps DEF Moves
<1>5. CASE Throw
  <2>1. PICK first \in Nat : Raises(first)
    BY <1>5, ThrowIs
  <2> QED  BY <1>1, <1>2, <2>1
<1>6. CASE Rethrow
  <2>1. Abort \/ Raises(0)
    BY <1>6, RethrowIs
  <2> QED  BY <1>1, <1>2, <2>1, SameKeeps DEF Abort
<1>7. CASE Leave
  <2>1. PICK gl \in Seq(FlowEntry) :
          Inherits(Flows, gl) /\ (frames' = WithFlows(frames, gl) \/ frames' = frames)
    BY <1>7, LeaveIs
  <2> QED  BY <1>2, <2>1, FlowsKeep, SameKeeps
<1> QED  BY <1>3, <1>4, <1>5, <1>6, <1>7

LEMMA ExecuteKeeps ==
  ASSUME NEW m, Execute(m)
  PROVE  KeepsPlaces
<1>1. PICK f : f = [method |-> m, ip |-> 1, flows |-> <<>>]
  OBVIOUS
<1>2. f.flows = <<>>
  BY <1>1
<1>3. PICK g : g = frames'
  OBVIOUS
<1>4. g = <<f>>
  BY <1>1, <1>3 DEF Execute
<1>5. DOMAIN g = {1} /\ g[1] = f
  BY <1>4
<1> QED  BY <1>2, <1>3, <1>5 DEF KeepsPlaces

LEMMA CallKeeps ==
  ASSUME Shape, Call
  PROVE  KeepsPlaces
<1>1. phase = "run"
  BY DEF Call, Running
<1>2. frames # <<>>
  BY <1>1, RunIs
<1>3. (phase' = "run" /\ Pushes) \/ Raises(0)
  BY CallIs
<1>4. CASE Raises(0)
  BY <1>2, <1>4, RaisesKeep
<1>5. CASE Pushes
  <2>1. DOMAIN frames = 1 .. Len(frames) /\ Len(frames) \in Nat
    BY <1>2, TopIs
  <2> SUFFICES ASSUME NEW i \in DOMAIN frames'
               PROVE  \/ frames'[i].flows = <<>>
                      \/ /\ i \in DOMAIN frames /\ frames'[i].method = frames[i].method
                         /\ Inherits(frames[i].flows, frames'[i].flows)
    BY DEF KeepsPlaces
  <2>2. i = Len(frames) + 1 \/ i \in 1 .. Len(frames)
    BY <1>5, <2>1 DEF Pushes
  <2> QED  BY <1>5, <2>1, <2>2, SameInherits DEF Pushes
<1> QED  BY <1>3, <1>4, <1>5

\* The frame is left; its caller's entries stay.
LEMMA FrontKeeps ==
  ASSUME Shape, frames # <<>>, frames' = Front(frames)
  PROVE  KeepsPlaces
<1>1. frames \in Seq(Frame)
  BY TopIs
<1>2. PICK g : g = SubSeq(frames, 1, Len(frames) - 1)
  OBVIOUS
<1>3. /\ DOMAIN g = 1 .. (Len(frames) - 1) /\ frames' = g /\ DOMAIN frames = 1 .. Len(frames)
      /\ \A k \in 1 .. (Len(frames) - 1) : g[k] = frames[k] /\ Len(frames) \in Nat
  BY <1>1, <1>2, FrontIs
<1> SUFFICES ASSUME NEW i \in 1 .. (Len(frames) - 1)
             PROVE  /\ i \in DOMAIN frames /\ frames'[i].method = frames[i].method
                    /\ Inherits(frames[i].flows, frames'[i].flows)
  BY <1>3 DEF KeepsPlaces
<1>4. i \in DOMAIN frames
  BY <1>3
<1> QED  BY <1>3, <1>4, SameInherits

LEMMA RetKeeps ==
  ASSUME Shape, Ret
  PROVE  KeepsPlaces
<1>1. phase = "run"
  BY DEF Ret, Running
<1>2. frames # <<>>
  BY <1>1, RunIs
<1>3. frames' = <<>> \/ frames' = Front(frames)
  BY DEF Ret, EndExecute
<1> QED  BY <1>2, <1>3, EndKeeps, FrontKeeps

\* The top entry stays where it is, or goes.
LEMMA EntryKeeps ==
  ASSUME Shape, frames # <<>>, Flows # <<>>, Efi = Flows[Len(Flows)], NEW gl \in Seq(FlowEntry),
         Len(gl) = Len(Flows), \A k \in 1 .. (Len(Flows) - 1) : gl[k] = Flows[k],
         gl[Len(Flows)].throwOffset = Efi.throwOffset, gl[Len(Flows)].at = Efi.at,
         frames' = WithFlows(frames, gl)
  PROVE  KeepsPlaces
<1>1. Flows \in Seq(FlowEntry) /\ Len(Flows) \in Nat \ {0}
  <2>1. Flows \in Seq(FlowEntry)
    BY TopIs
  <2> QED  BY <2>1
<1>2. PICK n : n = Len(Flows)
  OBVIOUS
<1>3. n \in Nat \ {0} /\ DOMAIN Flows = 1 .. n /\ DOMAIN gl = 1 .. n
  BY <1>1, <1>2
<1>4. \A k \in 1 .. n : gl[k].throwOffset = Flows[k].throwOffset /\ gl[k].at = Flows[k].at
  <2>1. \A k \in 1 .. n : k \in 1 .. (n - 1) \/ k = n
    BY <1>3
  <2> QED  BY <1>2, <2>1
<1>5. Inherits(Flows, gl)
  BY <1>3, <1>4 DEF Inherits
<1> QED  BY <1>5, FlowsKeep

LEMMA EndFinallyKeeps ==
  ASSUME Shape, EndFinally
  PROVE  KeepsPlaces
<1>1. phase = "run"
  BY DEF EndFinally, Running
<1>2. frames # <<>>
  BY <1>1, RunIs
<1>3. CASE frames' = frames
  BY <1>3, SameKeeps
<1>4. ASSUME HasCur, NextFinally
      PROVE  KeepsPlaces
  <2>1. PICK m : m = Top.method
    OBVIOUS
  <2>2. Lands(m) \/ \E h, gl : RunsNext(m, h, gl)
    BY <1>2, <1>4, <2>1, NextFinallyIs
  <2>3. Flows # <<>> /\ Efi = Flows[Len(Flows)] /\ Flows \in Seq(FlowEntry)
    BY <1>2, <1>4, CurIs, TopIs
  <2>4. ASSUME NEW h, NEW gl, RunsNext(m, h, gl)
        PROVE  KeepsPlaces
    BY <1>2, <2>3, <2>4, EntryKeeps DEF RunsNext
  <2>5. ASSUME Lands(m)
        PROVE  KeepsPlaces
    <3>1. PICK gl : gl = SubSeq(Flows, 1, Len(Flows) - 1)
      OBVIOUS
    <3>2. /\ gl \in Seq(FlowEntry) /\ frames' = WithFlows(frames, gl)
          /\ DOMAIN gl = 1 .. (Len(Flows) - 1) /\ \A k \in 1 .. (Len(Flows) - 1) : gl[k] = Flows[k]
          /\ Len(Flows) \in Nat \ {0} /\ DOMAIN Flows = 1 .. Len(Flows)
      BY <2>3, <2>5, <3>1, FrontIs DEF Lands
    <3>3. Inherits(Flows, gl)
      <4>1. \A k \in DOMAIN gl : k \in DOMAIN Flows
        BY <3>2
      <4> QED  BY <3>2, <4>1 DEF Inherits
    <3> QED  BY <1>2, <3>2, <3>3, FlowsKeep
  <2> QED  BY <2>2, <2>4, <2>5
<1> QED  BY <1>3, <1>4 DEF EndFinally, Abort

LEMMA EndFilterKeeps ==
  ASSUME Shape, EndFilter
  PROVE  KeepsPlaces
<1>1. phase = "run"
  BY DEF EndFilter, Running
<1>2. frames # <<>>
  BY <1>1, RunIs
<1>3. Abort \/ (HasCur /\ (Resumes \/ \E gl : Accepts(gl)))
  BY EndFilterIs
<1>4. ASSUME HasCur, NEW gl, Accepts(gl)
      PROVE  KeepsPlaces
  <2>1. Flows # <<>> /\ Efi = Flows[Len(Flows)]
    BY <1>2, <1>4, CurIs
  <2> QED  BY <1>2, <1>4, <2>1, EntryKeeps DEF Accepts
<1> QED  BY <1>3, <1>4, SameKeeps DEF Abort, Resumes

\* Control goes from the top frame to its caller f, with the exception at its
\* return address.
Unwinds(n, f) ==
  /\ n \in Nat /\ n - 1 \in Nat \ {0} /\ DOMAIN frames = 1 .. n
  /\ f \in Frame /\ Waiting(f, departures) /\ f.method \in Methods /\ f.flows \in Seq(FlowEntry)
  /\ f.ip \in Nat /\ f.ip - 1 \in Nat /\ StaysIn(f.method, f.ip - 1, f.ip)
  /\ frames' \in Seq(Frame) /\ Len(frames') = n - 1 /\ \A i \in 1 .. (n - 2) : frames'[i] = frames[i]
  /\ frames'[n - 1].method = f.method
  /\ \E e \in FlowEntry : /\ e.throwOffset = f.ip /\ e.at = f.ip - 1 /\ e.next = 0
                          /\ frames'[n - 1].flows = Append(f.flows, e)
  /\ phase' = "search" /\ origin' = f.ip - 1
  /\ "misplaced" \notin departures' =>
       \A j \in DOMAIN clauses[f.method] : InTry(Cl(f.method, j), f.ip) <=> InTry(Cl(f.method, j), f.ip - 1)

LEMMA UnwindIs ==
  ASSUME Shape, SearchUnwind, Len(frames) # 1
  PROVE  Unwinds(Len(frames), frames[Len(frames) - 1])
<1>20. PICK n : n = Len(frames)
  OBVIOUS
<1>21. PICK f : f = frames[n - 1]
  OBVIOUS
<1>1. phase = "search"
  BY DEF SearchUnwind, Searching
<1>2. frames # <<>> /\ Efi \in FlowEntry
  BY <1>1, SearchIs
<1>3. /\ n \in Nat /\ n - 1 \in Nat \ {0} /\ frames \in Seq(Frame)
      /\ f \in Frame /\ Waiting(f, departures) /\ f.method \in Methods
      /\ f.flows \in Seq(FlowEntry) /\ f.ip \in Nat /\ f.ip - 1 \in Nat
      /\ StaysIn(f.method, f.ip - 1, f.ip)
  BY <1>2, <1>20, <1>21, CallerIs
<1>4. PICK x \in Exceptions \cup {NoEx} : x = Efi.ex
  BY <1>2 DEF FlowEntry
<1>5. PICK e : e = [Entry("Exception", f.ip, x, 0, 1) EXCEPT !.at = f.ip - 1]
  OBVIOUS
<1>6. e \in FlowEntry /\ e.throwOffset = f.ip /\ e.at = f.ip - 1 /\ e.next = 0
  BY <1>3, <1>5 DEF Entry, FlowEntry
<1>7. PICK fl : fl = Append(f.flows, e)
  OBVIOUS
<1>8. fl \in Seq(FlowEntry)
  BY <1>3, <1>6, <1>7, AppendIs
<1>9. PICK fr : fr = Front(frames)
  OBVIOUS
<1>10. fr \in Seq(Frame) /\ Len(fr) = n - 1 /\ \A i \in 1 .. (n - 1) : fr[i] = frames[i]
  BY SMTT(20), <1>2, <1>3, <1>9, <1>20, FrontIs
<1>11. fr # <<>> /\ fr[n - 1] = f /\ \A i \in 1 .. (n - 2) : fr[i] = frames[i]
  BY <1>3, <1>10, <1>21
<1>12. /\ frames' = PrepareFrom(fr, f.ip - 1, f.ip, x, 0) /\ origin' = f.ip - 1 /\ UNCHANGED phase
       /\ Depart(IF \E i \in DOMAIN clauses[f.method] :
                      InTry(clauses[f.method][i], f.ip) # InTry(clauses[f.method][i], f.ip - 1)
                 THEN {"misplaced"} ELSE {})
  BY <1>4, <1>9, <1>20, <1>21 DEF SearchUnwind
<1>13. PICK fs : fs = frames'
  OBVIOUS
<1>14. fs = WithFlows(fr, fl)
  BY <1>5, <1>7, <1>10, <1>11, <1>12, <1>13 DEF PrepareFrom
<1>15. /\ fs \in Seq(Frame) /\ Len(fs) = Len(fr)
       /\ \A i \in 1 .. (Len(fr) - 1) : fs[i] = fr[i]
       /\ fs[Len(fr)].method = fr[Len(fr)].method /\ fs[Len(fr)].ip = fr[Len(fr)].ip
       /\ fs[Len(fr)].flows = fl
  <2>1. fr \in Seq(Frame) /\ fr # <<>>
    BY <1>10, <1>11
  <2>2. fl \in Seq(FlowEntry) /\ fs = WithFlows(fr, fl)
    BY <1>8, <1>14
  <2> QED  BY <2>1, <2>2, WithFlowsIs
<1>16. Len(fr) - 1 = n - 2
  BY <1>3, <1>10
<1>17. /\ Len(fs) = n - 1 /\ \A i \in 1 .. (n - 2) : fs[i] = frames[i]
       /\ fs[n - 1].method = f.method /\ fs[n - 1].flows = fl
  BY <1>10, <1>11, <1>15, <1>16
<1>18. "misplaced" \notin departures' =>
         \A j \in DOMAIN clauses[f.method] : InTry(Cl(f.method, j), f.ip) <=> InTry(Cl(f.method, j), f.ip - 1)
  BY <1>12 DEF Depart, Cl, InTry
<1>19. DOMAIN frames = 1 .. n
  BY <1>2, <1>20, TopIs
<1>22. Unwinds(n, f)
  BY <1>1, <1>3, <1>6, <1>7, <1>12, <1>13, <1>15, <1>17, <1>18, <1>19 DEF Unwinds
<1> QED  BY <1>20, <1>21, <1>22

LEMMA UnwindPlaces ==
  ASSUME Shape, Placed, SearchUnwind, departures \subseteq departures'
  PROVE  Placed'
<1>1. CASE Len(frames) = 1
  <2>1. CASE EndExecute
    BY <2>1 DEF EndExecute, Placed, PlacedIn
  <2>2. CASE Abort
    BY <2>2, SameKeeps, KeepsPlaced DEF Abort
  <2> QED  BY <1>1, <2>1, <2>2 DEF SearchUnwind
<1>2. CASE Len(frames) # 1
  <2> SUFFICES ASSUME departures' \cap {"misplaced", "foreign"} = {}, NEW i \in DOMAIN frames'
               PROVE  PlacedIn(frames'[i].method, frames'[i].flows)
    BY DEF Placed, PlacedIn, Cl
  <2>1. PICK n : n = Len(frames)
    OBVIOUS
  <2>2. PICK f : f = frames[n - 1]
    OBVIOUS
  <2>13. Unwinds(n, f)
    BY <1>2, <2>1, <2>2, UnwindIs
  <2>3. /\ n \in Nat /\ n - 1 \in Nat \ {0} /\ DOMAIN frames = 1 .. n /\ f.flows \in Seq(FlowEntry)
        /\ frames' \in Seq(Frame) /\ Len(frames') = n - 1 /\ \A k \in 1 .. (n - 2) : frames'[k] = frames[k]
        /\ frames'[n - 1].method = f.method
        /\ "misplaced" \notin departures' =>
             \A j \in DOMAIN clauses[f.method] :
               InTry(Cl(f.method, j), f.ip) <=> InTry(Cl(f.method, j), f.ip - 1)
    BY <2>13 DEF Unwinds
  <2>4. \E e \in FlowEntry : /\ e.throwOffset = f.ip /\ e.at = f.ip - 1
                             /\ frames'[n - 1].flows = Append(f.flows, e)
    BY <2>13 DEF Unwinds
  <2>5. PICK e \in FlowEntry : /\ e.throwOffset = f.ip /\ e.at = f.ip - 1
                               /\ frames'[n - 1].flows = Append(f.flows, e)
    BY <2>4
  <2>6. PICK gl : gl = Append(f.flows, e)
    OBVIOUS
  <2>7. /\ DOMAIN gl = 1 .. (Len(f.flows) + 1) /\ Len(f.flows) \in Nat
        /\ \A k \in 1 .. Len(f.flows) : gl[k] = f.flows[k]
        /\ gl[Len(f.flows) + 1] = e
    BY <2>3, <2>6, AppendIs
  <2>8. \A k \in DOMAIN frames : PlacedIn(frames[k].method, frames[k].flows)
    BY DEF Placed
  <2>9. PlacedIn(f.method, gl)
    <3> SUFFICES ASSUME NEW k \in DOMAIN gl, NEW j \in DOMAIN clauses[f.method]
                 PROVE  InTry(Cl(f.method, j), gl[k].throwOffset) <=> InTry(Cl(f.method, j), gl[k].at)
      BY DEF PlacedIn
    <3>1. k \in 1 .. Len(f.flows) \/ gl[k] = e
      BY <2>7
    <3>2. CASE gl[k] = e
      BY <2>3, <2>5, <3>2
    <3>3. CASE k \in 1 .. Len(f.flows)
      <4>1. PlacedIn(f.method, f.flows)
        <5>1. n - 1 \in DOMAIN frames
          BY <2>3
        <5> QED  BY <2>2, <2>8, <5>1
      <4>2. k \in DOMAIN f.flows
        BY <2>3, <3>3
      <4> QED  BY <2>7, <3>3, <4>1, <4>2 DEF PlacedIn
    <3> QED  BY <3>1, <3>2, <3>3
  <2>10. i \in 1 .. (n - 2) \/ i = n - 1
    BY <2>3
  <2>11. CASE i = n - 1
    BY <2>3, <2>5, <2>6, <2>9, <2>11
  <2>12. CASE i \in 1 .. (n - 2)
    <3>1. i \in DOMAIN frames
      BY <2>3, <2>12
    <3> QED  BY <2>3, <2>8, <2>12, <3>1
  <2> QED  BY <2>10, <2>11, <2>12
<1> QED  BY <1>1, <1>2

LEMMA SearchKeeps ==
  ASSUME Shape, SearchPopPrev \/ SearchPass \/ SearchCatch \/ SearchRun
  PROVE  KeepsPlaces
<1>1. phase = "search"
  BY DEF SearchPopPrev, SearchPass, SearchCatch, SearchRun, CandidateProtects, Searching
<1>2. /\ frames # <<>> /\ Flows \in Seq(FlowEntry) /\ Len(Flows) \in Nat \ {0}
      /\ Flows # <<>> /\ Efi = Flows[Len(Flows)]
  BY <1>1, SearchIs
<1>3. CASE SearchPass \/ SearchRun
  <2>1. PICK gl : gl = Advanced
    OBVIOUS
  <2>2. frames' = WithFlows(frames, gl)
    BY <1>3, <2>1 DEF SearchPass, SearchRun
  <2>3. /\ gl \in Seq(FlowEntry) /\ Len(gl) = Len(Flows) /\ \A k \in 1 .. (Len(Flows) - 1) : gl[k] = Flows[k]
        /\ gl[Len(Flows)].throwOffset = Efi.throwOffset /\ gl[Len(Flows)].at = Efi.at
    BY <1>1, <2>1, AdvancedIs
  <2> QED  BY <1>2, <2>2, <2>3, EntryKeeps
<1>4. CASE SearchCatch
  <2>1. PICK gl : gl = Caught
    OBVIOUS
  <2>2. frames' = WithFlows(frames, gl)
    BY <1>4, <2>1 DEF SearchCatch
  <2>3. /\ gl \in Seq(FlowEntry) /\ Len(gl) = Len(Flows) /\ \A k \in 1 .. (Len(Flows) - 1) : gl[k] = Flows[k]
        /\ gl[Len(Flows)].throwOffset = Efi.throwOffset /\ gl[Len(Flows)].at = Efi.at
    BY <1>1, <2>1, CaughtIs
  <2> QED  BY <1>2, <2>2, <2>3, EntryKeeps
<1>5. CASE SearchPopPrev
  <2>1. PICK fl : fl = Flows
    OBVIOUS
  <2>2. PICK gl : gl = PopPrev(fl)
    OBVIOUS
  <2>3. frames' = WithFlows(frames, gl) /\ Len(fl) >= 2 /\ fl \in Seq(FlowEntry)
    BY <1>2, <1>5, <2>1, <2>2 DEF SearchPopPrev, Superseded, HasPrev
  <2>4. /\ gl \in Seq(FlowEntry) /\ Len(gl) = Len(fl) - 1
        /\ \A k \in 1 .. (Len(fl) - 2) : gl[k] = fl[k]
        /\ gl[Len(fl) - 1] = fl[Len(fl)]
    BY <2>2, <2>3, PopPrevIs
  <2>5. Inherits(fl, gl)
    <3>1. PICK n : n = Len(fl)
      OBVIOUS
    <3>2. n \in Nat /\ n >= 2 /\ DOMAIN fl = 1 .. n /\ DOMAIN gl = 1 .. (n - 1)
      BY <2>3, <2>4, <3>1
    <3>3. \A k \in DOMAIN gl : \E l \in DOMAIN fl : gl[k] = fl[l]
      <4> SUFFICES ASSUME NEW k \in 1 .. (n - 1)
                   PROVE  \E l \in DOMAIN fl : gl[k] = fl[l]
        BY <3>2
      <4>1. (k = n - 1 \/ k \in 1 .. (n - 2)) /\ n \in DOMAIN fl /\ k \in DOMAIN fl
        BY <3>2
      <4> QED  BY <2>4, <3>1, <4>1
    <3> QED  BY <3>3 DEF Inherits
  <2> QED  BY <1>2, <2>1, <2>3, <2>4, <2>5, FlowsKeep
<1> QED  BY <1>3, <1>4, <1>5

LEMMA PlacedStep ==
  ASSUME Shape, Placed, Next, departures \subseteq departures' \/ EndExecute
  PROVE  Placed'
<1>1. CASE EndExecute
  BY <1>1 DEF EndExecute, Placed, PlacedIn
<1>2. CASE departures \subseteq departures'
  <2>1. ASSUME KeepsPlaces
        PROVE  Placed'
    BY <1>2, <2>1, KeepsPlaced
  <2>2. CASE \E m \in Methods : Execute(m)
    BY <2>1, <2>2, ExecuteKeeps
  <2>3. CASE Op \/ Branch \/ Throw \/ Rethrow \/ Leave
    BY <2>1, <2>3, RunKeeps
  <2>4. CASE Call \/ Ret
    BY <2>1, <2>4, CallKeeps, RetKeeps
  <2>5. CASE EndFinally \/ EndFilter
    BY <2>1, <2>5, EndFinallyKeeps, EndFilterKeeps
  <2>6. CASE SearchPopPrev \/ SearchPass \/ SearchCatch \/ SearchRun
    BY <2>1, <2>6, SearchKeeps
  <2>7. CASE SearchUnwind
    BY <1>2, <2>7, UnwindPlaces
  <2>8. CASE OutOfFlows
    BY <2>1, <2>8, EndKeeps DEF OutOfFlows, EndExecute
  <2>9. CASE Aborted
    BY <2>1, <2>9, SameKeeps DEF Aborted, vars
  <2>10. CASE SearchNull
    BY <2>1, <2>10, SameKeeps DEF SearchNull, Abort
  <2> QED  BY <2>2, <2>3, <2>4, <2>5, <2>6, <2>7, <2>8, <2>9, <2>10 DEF Next
<1> QED  BY <1>1, <1>2

\* Every entry's offset is in the try blocks its instruction was in, until an
\* exception is prepared at a return address in other try blocks.
THEOREM EntriesPlaced == Spec => [](IInv /\ Placed)
<1>1. Init => Placed
  BY DEF Init, Placed, PlacedIn
<1>2. ASSUME IInv, Placed, [Next]_vars
      PROVE  Placed'
  <2>1. CASE UNCHANGED vars
    BY <1>2, <2>1 DEF Placed, PlacedIn, vars
  <2>2. CASE Next
    <3>1. departures \subseteq departures' \/ EndExecute
      BY <1>2, <2>2, DepartsMore DEF IInv
    <3>2. CASE Shape
      BY <1>2, <2>2, <3>1, <3>2, PlacedStep
    <3>3. CASE "foreign" \in departures
      <4>1. CASE departures \subseteq departures'
        BY <3>3, <4>1 DEF Placed
      <4>2. CASE EndExecute
        BY <4>2 DEF EndExecute, Placed, PlacedIn
      <4> QED  BY <3>1, <4>1, <4>2
    <3> QED  BY <1>2, <3>2, <3>3 DEF IInv
  <2> QED  BY <1>2, <2>1, <2>2
<1>3. Init => IInv
  BY IInvInit
<1>4. IInv /\ [Next]_vars => IInv'
  BY IInvStep
<1> QED  BY <1>1, <1>2, <1>3, <1>4, PTL DEF Spec

LEMMA TakesProtects ==
  ASSUME IInv, Placed, Next, phase = "search", phase' = "run",
         (departures \cup departures') \cap {"misplaced", "foreign"} = {}
  PROVE  \E i \in DOMAIN clauses[Top.method] :
           LET c == clauses[Top.method][i] IN
           /\ InTry(c, Efi.at)
           /\ ip' \in {c.handlerBegin} \cup (IF c.flags = "Filter" THEN {c.filterBegin} ELSE {})
<1>1. Shape
  BY DEF IInv
<1>2. SearchCatch \/ SearchRun
  <2>1. ~Op /\ ~Branch /\ ~Call /\ ~Ret /\ ~Throw /\ ~Rethrow /\ ~Leave /\ ~EndFinally /\ ~EndFilter
    BY DEF Op, Branch, Call, Ret, Throw, Rethrow, Leave, EndFinally, EndFilter, Running
  <2>2. \A m \in Methods : ~Execute(m)
    BY DEF Execute
  <2>3. ~SearchPopPrev /\ ~SearchPass /\ ~SearchNull /\ ~SearchUnwind /\ ~OutOfFlows /\ ~Aborted
    BY DEF SearchPopPrev, SearchPass, SearchNull, SearchUnwind, OutOfFlows, Aborted, Abort, EndExecute, vars
  <2> QED  BY <2>1, <2>2, <2>3 DEF Next
<1>3. CandidateProtects
  BY <1>2 DEF SearchCatch, SearchRun
<1>4. PICK m : m = Top.method
  OBVIOUS
<1>5. PICK i : i = Efi.next + 1
  OBVIOUS
<1>6. /\ i \in DOMAIN clauses[m] /\ Candidate = Cl(m, i) /\ InTry(Cl(m, i), Efi.throwOffset)
  BY <1>1, <1>3, <1>4, <1>5, CandidateIs
<1>7. InTry(Cl(m, i), Efi.at)
  <2>1. /\ frames # <<>> /\ Len(Flows) \in Nat \ {0} /\ Efi = Flows[Len(Flows)] /\ Flows \in Seq(FlowEntry)
    BY <1>1, SearchIs
  <2>2. Len(Flows) \in DOMAIN Flows
    BY <2>1
  <2>3. Len(frames) \in DOMAIN frames /\ Top = frames[Len(frames)]
    BY <1>1, <2>1, TopIs
  <2>4. PlacedIn(m, Flows)
    BY <1>4, <2>3 DEF Placed, Flows
  <2> QED  BY <1>6, <2>1, <2>2, <2>4 DEF PlacedIn
<1>8. ip' = Cl(m, i).handlerBegin \/ (Cl(m, i).flags = "Filter" /\ ip' = Cl(m, i).filterBegin)
  BY <1>2, <1>6 DEF SearchCatch, SearchRun, GoTo
<1> QED  BY <1>4, <1>6, <1>7, <1>8 DEF Cl

\* The search enters a handler or a filter only of a clause whose try block
\* holds the instruction that raised in the frame (FIND_NEXT_EX_HANDLER_OR_UNWIND
\* with a throw offset that is that of a call or of the instruction itself).
THEOREM HandlersProtect == Spec => HandlerProtectsRaise
<1>1. ASSUME IInv, Placed, [Next]_vars
      PROVE  [(phase = "search" /\ phase' = "run" /\ (departures \cup departures') \cap {"misplaced", "foreign"} = {})
               => \E i \in DOMAIN clauses[Top.method] :
                    LET c == clauses[Top.method][i] IN
                    /\ InTry(c, Efi.at)
                    /\ ip' \in {c.handlerBegin} \cup (IF c.flags = "Filter" THEN {c.filterBegin} ELSE {})]_vars
  BY <1>1, TakesProtects
<1> QED  BY <1>1, EntriesPlaced, PTL DEF Spec, HandlerProtectsRaise
-----------------------------------------------------------------------------
(* What a search still has to come to *)

PendingAt(m, o, x, n) ==
  \A i \in DOMAIN clauses[m] :
    (Cl(m, i).flags \in {"Finally", "Fault"} /\ InTry(Cl(m, i), o)) => InTry(Cl(m, i), x) /\ i > n

LEMMA PendingIs ==
  Pending <=> ((phase = "search" /\ Clean(departures) /\ "faultSkipped" \notin departures)
                 => PendingAt(Top.method, origin, Efi.throwOffset, Efi.next))
BY DEF Pending, PendingAt

LEMMA PendingNext ==
  ASSUME (phase' = "search" /\ Clean(departures') /\ "faultSkipped" \notin departures')
           => PendingAt(Top'.method, origin', Efi'.throwOffset, Efi'.next)
  PROVE  Pending'
BY DEF Pending, PendingAt, Cl

\* The top entry of the next state
LEMMA NewTop ==
  ASSUME NEW n \in Nat \ {0}, Len(frames') = n, NEW fl \in Seq(FlowEntry), NEW e \in FlowEntry,
         frames'[n].flows = Append(fl, e)
  PROVE  Efi' = e /\ Top' = frames'[n]
<1>1. PICK gl : gl = Append(fl, e)
  OBVIOUS
<1>2. Len(gl) = Len(fl) + 1 /\ gl[Len(fl) + 1] = e
  BY <1>1, AppendIs
<1>3. Top' = frames'[n] /\ Flows' = gl
  BY <1>1 DEF Top, Flows
<1>4. Efi' = gl[Len(gl)]
  BY <1>3 DEF Efi
<1> QED  BY <1>2, <1>3, <1>4

\* An exception is raised and no finally or fault before clause first is around it.
LEMMA RaisesPending ==
  ASSUME Shape, frames # <<>>, NEW first \in Nat, Raises(first),
         \A i \in 1 .. first : ~InTry(Cl(Top.method, i), ip)
  PROVE  PendingAt(Top'.method, origin', Efi'.throwOffset, Efi'.next)
<1>1. /\ Len(frames) \in Nat \ {0} /\ Len(frames') = Len(frames) /\ Flows \in Seq(FlowEntry)
      /\ frames'[Len(frames)].method = Top.method /\ origin' = ip /\ Top.method \in Methods
  BY TopIs DEF Raises, SameBelow
<1>2. PICK e \in FlowEntry :
        e.throwOffset = ip /\ e.next = first /\ frames'[Len(frames)].flows = Append(Flows, e)
  BY DEF Raises
<1>3. Efi' = e /\ Top' = frames'[Len(frames)]
  <2>1. PICK n : n = Len(frames)
    OBVIOUS
  <2>2. n \in Nat \ {0} /\ Len(frames') = n /\ frames'[n].flows = Append(Flows, e)
    BY <1>1, <1>2, <2>1
  <2> QED  BY <1>1, <2>1, <2>2, NewTop
<1>4. ASSUME NEW i \in DOMAIN clauses[Top.method], InTry(Cl(Top.method, i), ip)
      PROVE  i > first
  <2>1. i \in Nat \ {0} /\ i \notin 1 .. first
    BY <1>1, <1>4, ClauseAssumption
  <2> QED  BY <2>1
<1> QED  BY <1>1, <1>2, <1>3, <1>4 DEF PendingAt

LEMMA NothingBefore ==
  ASSUME NEW m
  PROVE  \A i \in 1 .. 0 : ~InTry(Cl(m, i), ip)
OBVIOUS

\* Outside the innermost handler around o, what is around o is around
\* its other regions.
LEMMA BeyondInnermost ==
  ASSUME NEW m \in Methods, NEW j \in DOMAIN clauses[m], NEW o \in Nat, Innermost(m, j, o),
         NEW x \in Nat, Within(Cl(m, j), x),
         NEW i \in DOMAIN clauses[m], Cl(m, i).flags \in {"Finally", "Fault"}, InTry(Cl(m, i), o)
  PROVE  i > j /\ InTry(Cl(m, i), x)
<1>1. i \in Nat \ {0} /\ j \in Nat \ {0}
  BY ClauseAssumption
<1>2. Around(Cl(m, j), o) /\ \A k \in 1 .. (j - 1) : ~InTry(Cl(m, k), o)
  BY DEF Innermost, Around, Cl
<1>3. i # j
  BY <1>2, Apart
<1>4. ~(i < j)
  <2> SUFFICES ASSUME i < j  PROVE FALSE
    OBVIOUS
  <2>1. i \in 1 .. (j - 1)
    BY <1>1
  <2> QED  BY <1>2, <2>1
<1>5. j < i
  BY <1>1, <1>3, <1>4
<1>6. Within(Cl(m, j), o)
  BY <1>2 DEF Within
<1>7. InTry(Cl(m, i), x)
  BY <1>5, <1>6, Outside
<1> QED  BY <1>1, <1>5, <1>7

LEMMA ResumePending ==
  ASSUME Shape, frames # <<>>, phase = "run", HasCur, Clean(departures),
         Instr.op \in {"endfinally", "endfilter"}
  PROVE  PendingAt(Top.method, ip, Efi.throwOffset, Efi.next)
<1>1. PICK m : m = Top.method
  OBVIOUS
<1>2. PICK fl \in Seq(FlowEntry) : fl = Flows
  BY TopIs
<1>3. /\ m \in Methods /\ ip \in DOMAIN code[m] /\ ip \in Nat /\ Instr = code[m][ip] /\ WellFormed(m, ip)
      /\ AtRest(m, fl, ip, departures)
  BY <1>1, <1>2, TopIs, RunIs
<1>4. PICK j \in DOMAIN clauses[m] : Innermost(m, j, ip) /\ fl # <<>> /\ fl[Len(fl)].next = j
  BY <1>2, <1>3, EndIsLast
<1>5. Efi = fl[Len(fl)] /\ Efi.throwOffset \in Nat
  BY <1>2, CurIs DEF FlowEntry
<1>6. Within(Cl(m, j), Efi.throwOffset)
  <2>1. Len(fl) \in DOMAIN fl
    BY <1>2, <1>4
  <2> QED  BY <1>3, <1>4, <1>5, <2>1 DEF AtRest, Settled, Within
<1>7. Efi.next = j
  BY <1>4, <1>5
<1> SUFFICES ASSUME NEW i \in DOMAIN clauses[m], Cl(m, i).flags \in {"Finally", "Fault"}, InTry(Cl(m, i), ip)
             PROVE  InTry(Cl(m, i), Efi.throwOffset) /\ i > Efi.next
  BY <1>1 DEF PendingAt
<1> QED  BY <1>3, <1>4, <1>5, <1>6, <1>7, BeyondInnermost

LEMMA RunPending ==
  ASSUME Shape, Op \/ Branch \/ Call \/ Ret \/ Throw \/ Rethrow \/ Leave, phase' = "search",
         "faultSkipped" \notin departures'
  PROVE  PendingAt(Top'.method, origin', Efi'.throwOffset, Efi'.next)
<1>1. phase = "run"
  BY DEF Op, Branch, Call, Ret, Throw, Rethrow, Leave, Running
<1>2. frames # <<>>
  BY <1>1, RunIs
<1>3. ASSUME Raises(0)
      PROVE  PendingAt(Top'.method, origin', Efi'.throwOffset, Efi'.next)
  BY <1>2, <1>3, RaisesPending, NothingBefore
<1>4. CASE Op
  BY <1>3, <1>4, OpIs DEF Moves
<1>5. CASE Branch
  BY <1>5, BranchIs DEF Moves
<1>6. CASE Call
  BY <1>3, <1>6, CallIs
<1>7. CASE Ret
  BY <1>7 DEF Ret, GoTo, EndExecute
<1>8. CASE Throw
  <2>1. PICK first \in Nat :
          /\ Raises(first)
          /\ (\E i \in 1 .. first : InTry(clauses[ipBase][i], ip)) => "faultSkipped" \in departures'
    BY <1>8, ThrowIs
  <2>2. \A i \in 1 .. first : ~InTry(Cl(Top.method, i), ip)
    BY <1>2, <2>1, TopIs DEF Cl
  <2> QED  BY <1>2, <2>1, <2>2, RaisesPending
<1>9. CASE Rethrow
  BY <1>3, <1>9, RethrowIs DEF Abort
<1>10. CASE Leave
  <2>1. PICK m : m = Top.method
    OBVIOUS
  <2>2. PICK t : t = Instr.target
    OBVIOUS
  <2>3. (\E h : GoTo(Cl(m, h).handlerBegin)) \/ GoTo(t)
    BY <1>10, <2>1, <2>2, LeaveIs
  <2> QED  BY <2>3 DEF GoTo
<1> QED  BY <1>4, <1>5, <1>6, <1>7, <1>8, <1>9, <1>10

LEMMA EndPending ==
  ASSUME Shape, EndFinally \/ EndFilter, phase' = "search", Clean(departures)
  PROVE  PendingAt(Top'.method, origin', Efi'.throwOffset, Efi'.next)
<1>1. phase = "run" /\ Instr.op \in {"endfinally", "endfilter"}
  BY DEF EndFinally, EndFilter, Running
<1>2. frames # <<>>
  BY <1>1, RunIs
<1>3. HasCur /\ origin' = ip /\ frames' = frames
  BY DEF EndFinally, EndFilter, NextFinally, GoTo, Abort
<1>4. Top' = Top /\ Efi' = Efi
  BY <1>3 DEF Top, Efi, Flows
<1> QED  BY <1>1, <1>2, <1>3, <1>4, ResumePending

\* The new top entry of a search step is e.
LEMMA SearchTop ==
  ASSUME Shape, frames # <<>>, NEW gl \in Seq(FlowEntry), gl # <<>>, frames' = WithFlows(frames, gl)
  PROVE  Efi' = gl[Len(gl)] /\ Top'.method = Top.method
<1>1. SameBelow /\ frames'[Len(frames)].flows = gl
  BY FlowsBelow
<1>2. Top' = frames'[Len(frames)] /\ Top'.method = Top.method
  BY <1>1 DEF SameBelow, Top
<1> QED  BY <1>1, <1>2 DEF Efi, Flows

LEMMA SearchPending ==
  ASSUME Shape, SearchPopPrev \/ SearchPass,
         PendingAt(Top.method, origin, Efi.throwOffset, Efi.next)
  PROVE  PendingAt(Top'.method, origin', Efi'.throwOffset, Efi'.next)
<1>1. phase = "search" /\ origin' = origin
  BY DEF SearchPopPrev, SearchPass, Searching
<1>2. /\ frames # <<>> /\ Flows \in Seq(FlowEntry) /\ Len(Flows) \in Nat \ {0}
      /\ Efi = Flows[Len(Flows)] /\ Efi.next \in Nat
  BY <1>1, SearchIs
<1>3. CASE SearchPopPrev
  <2>1. PICK fl : fl = Flows
    OBVIOUS
  <2>2. PICK gl : gl = PopPrev(fl)
    OBVIOUS
  <2>3. frames' = WithFlows(frames, gl) /\ Len(fl) >= 2 /\ fl \in Seq(FlowEntry)
    BY <1>2, <1>3, <2>1, <2>2 DEF SearchPopPrev, Superseded, HasPrev
  <2>4. gl \in Seq(FlowEntry) /\ Len(gl) = Len(fl) - 1 /\ gl[Len(fl) - 1] = fl[Len(fl)]
    BY <2>2, <2>3, PopPrevIs
  <2>5. gl # <<>>
    BY <2>3, <2>4
  <2>6. Efi' = gl[Len(gl)] /\ Top'.method = Top.method
    BY <1>2, <2>3, <2>4, <2>5, SearchTop
  <2>7. Efi' = Efi
    BY <1>2, <2>1, <2>4, <2>6
  <2> QED  BY <1>1, <2>6, <2>7
<1>4. CASE SearchPass
  <2>1. PICK gl : gl = Advanced
    OBVIOUS
  <2>2. frames' = WithFlows(frames, gl)
    BY <1>4, <2>1 DEF SearchPass
  <2>3. /\ gl \in Seq(FlowEntry) /\ Len(gl) = Len(Flows)
        /\ gl[Len(Flows)].throwOffset = Efi.throwOffset /\ gl[Len(Flows)].next = Efi.next + 1
    BY <1>1, <2>1, AdvancedIs
  <2>4. gl # <<>>
    BY <1>2, <2>3
  <2>5. Efi' = gl[Len(gl)] /\ Top'.method = Top.method
    BY <1>2, <2>2, <2>3, <2>4, SearchTop
  <2>6. Efi'.throwOffset = Efi.throwOffset /\ Efi'.next = Efi.next + 1
    BY <2>3, <2>5
  <2>7. PICK m : m = Top.method
    OBVIOUS
  <2>8. imi = m /\ m \in Methods
    BY <1>2, <2>7, TopIs
  <2>9. InTry(Cl(m, Efi.next + 1), Efi.throwOffset) => Cl(m, Efi.next + 1).flags = "Exception"
    BY <1>4, <2>8 DEF SearchPass, Candidate, Cl
  <2>10. ASSUME NEW i \in DOMAIN clauses[m], Cl(m, i).flags \in {"Finally", "Fault"}, InTry(Cl(m, i), origin)
         PROVE  InTry(Cl(m, i), Efi.throwOffset) /\ i > Efi.next + 1
    <3>1. InTry(Cl(m, i), Efi.throwOffset) /\ i > Efi.next
      BY <2>7, <2>10 DEF PendingAt
    <3>2. i # Efi.next + 1
      BY <2>9, <2>10, <3>1
    <3>3. i \in Nat
      BY <2>8, ClauseType
    <3> QED  BY <1>2, <3>1, <3>2, <3>3
  <2> QED  BY <1>1, <2>5, <2>6, <2>7, <2>10 DEF PendingAt
<1> QED  BY <1>3, <1>4

LEMMA UnwindPending ==
  ASSUME Shape, SearchUnwind, Len(frames) # 1
  PROVE  PendingAt(Top'.method, origin', Efi'.throwOffset, Efi'.next)
<1>1. PICK n : n = Len(frames)
  OBVIOUS
<1>2. PICK f : f = frames[n - 1]
  OBVIOUS
<1>3. Unwinds(n, f)
  BY <1>1, <1>2, UnwindIs
<1>4. /\ n - 1 \in Nat \ {0} /\ Len(frames') = n - 1 /\ f.flows \in Seq(FlowEntry) /\ f.method \in Methods
      /\ frames'[n - 1].method = f.method /\ origin' = f.ip - 1 /\ StaysIn(f.method, f.ip - 1, f.ip)
  BY <1>3 DEF Unwinds
<1>5. PICK e \in FlowEntry : e.throwOffset = f.ip /\ e.next = 0 /\ frames'[n - 1].flows = Append(f.flows, e)
  BY <1>3 DEF Unwinds
<1>6. Efi' = e /\ Top' = frames'[n - 1]
  <2>1. PICK k : k = n - 1
    OBVIOUS
  <2>2. k \in Nat \ {0} /\ Len(frames') = k /\ frames'[k].flows = Append(f.flows, e)
    BY <1>4, <1>5, <2>1
  <2> QED  BY <1>4, <2>1, <2>2, NewTop
<1>7. \A i \in DOMAIN clauses[f.method] :
        i > 0 /\ (InTry(Cl(f.method, i), f.ip - 1) => InTry(Cl(f.method, i), f.ip))
  <2>1. \A i \in DOMAIN clauses[f.method] : i > 0
    BY <1>4, ClauseAssumption
  <2> QED  BY <1>4, <2>1, StaysSame
<1> QED  BY <1>4, <1>5, <1>6, <1>7 DEF PendingAt

LEMMA PendingStep ==
  ASSUME Shape, Pending, Next, departures \subseteq departures' \/ EndExecute
  PROVE  Pending'
<1> SUFFICES ASSUME phase' = "search", Clean(departures'), "faultSkipped" \notin departures'
             PROVE  PendingAt(Top'.method, origin', Efi'.throwOffset, Efi'.next)
  BY PendingNext
<1>1. departures \subseteq departures'
  BY DEF EndExecute
<1>2. Clean(departures) /\ "faultSkipped" \notin departures
  BY <1>1, CleanBefore
<1>3. phase = "search" => PendingAt(Top.method, origin, Efi.throwOffset, Efi.next)
  BY <1>2, PendingIs
<1>4. CASE \E m \in Methods : Execute(m)
  BY <1>4 DEF Execute, GoTo
<1>5. CASE Op \/ Branch \/ Call \/ Ret \/ Throw \/ Rethrow \/ Leave
  BY <1>5, RunPending
<1>6. CASE EndFinally \/ EndFilter
  BY <1>2, <1>6, EndPending
<1>7. CASE SearchPopPrev \/ SearchPass
  <2>1. phase = "search"
    BY <1>7 DEF SearchPopPrev, SearchPass, Searching
  <2> QED  BY <1>3, <1>7, <2>1, SearchPending
<1>8. CASE SearchCatch \/ SearchRun
  BY <1>8 DEF SearchCatch, SearchRun, GoTo
<1>9. CASE SearchUnwind
  <2>1. Len(frames) # 1
    BY <1>9 DEF SearchUnwind, EndExecute, Abort
  <2> QED  BY <1>9, <2>1, UnwindPending
<1>10. CASE OutOfFlows
  BY <1>10 DEF OutOfFlows, EndExecute
<1>11. CASE Aborted
  BY <1>11 DEF Aborted, vars
<1>12. CASE SearchNull
  BY <1>12 DEF SearchNull, Abort
<1> QED  BY <1>4, <1>5, <1>6, <1>7, <1>8, <1>9, <1>10, <1>11, <1>12 DEF Next

\* While it is searched for a handler, an exception has the finallys and faults
\* around the instruction that ran last still to come, unless a throw began the
\* search behind a fault.
THEOREM NothingPassed == Spec => [](IInv /\ Pending)
<1>1. Init => Pending
  BY DEF Init, Pending
<1>2. ASSUME IInv, Pending, [Next]_vars
      PROVE  Pending'
  <2>1. CASE UNCHANGED vars
    <3>1. /\ Top' = Top /\ Efi' = Efi /\ origin' = origin /\ phase' = phase /\ departures' = departures
      BY <2>1 DEF Top, Efi, Flows, vars
    <3> QED  BY <1>2, <3>1, PendingIs, PendingNext
  <2>2. CASE Next
    <3>1. departures \subseteq departures' \/ EndExecute
      BY <1>2, <2>2, DepartsMore DEF IInv
    <3>2. CASE Shape
      BY <1>2, <2>2, <3>1, <3>2, PendingStep
    <3>3. CASE "foreign" \in departures
      <4>1. CASE departures \subseteq departures'
        BY <3>3, <4>1 DEF Pending, Clean
      <4>2. CASE EndExecute
        BY <4>2 DEF EndExecute, Pending
      <4> QED  BY <3>1, <4>1, <4>2
    <3> QED  BY <1>2, <3>2, <3>3 DEF IInv
  <2> QED  BY <1>2, <2>1, <2>2
<1>3. Init => IInv
  BY IInvInit
<1>4. IInv /\ [Next]_vars => IInv'
  BY IInvStep
<1> QED  BY <1>1, <1>2, <1>3, <1>4, PTL DEF Spec
-----------------------------------------------------------------------------
(* A finally is not passed by *)

Guards(i) == Cl(Top.method, i).flags = "Finally" \/ (Cl(Top.method, i).flags = "Fault" /\ phase = "search")

\* The step stays in the try block of c, goes to its handler or makes a call.
HoldsOrRuns(c) ==
  \/ Len(frames') = Len(frames) + 1
  \/ Len(frames') = Len(frames) /\ (InTry(c, origin') \/ ip' = c.handlerBegin)

LEMMA MovesHold ==
  ASSUME Shape, phase = "run", NEW i \in DOMAIN clauses[Top.method], InTry(Cl(Top.method, i), origin),
         Op \/ Branch \/ Call \/ Throw \/ Rethrow
  PROVE  HoldsOrRuns(Cl(Top.method, i))
<1>1. frames # <<>> /\ origin = ip
  BY RunIs
<1>2. CASE Moves
  BY <1>1, <1>2, StaysSame DEF Moves, HoldsOrRuns
<1>3. ASSUME NEW first, Raises(first)
      PROVE  HoldsOrRuns(Cl(Top.method, i))
  BY <1>1, <1>3 DEF Raises, SameBelow, HoldsOrRuns
<1>4. CASE Abort
  BY <1>4 DEF Abort, HoldsOrRuns
<1>5. CASE Pushes
  BY <1>5 DEF Pushes, HoldsOrRuns
<1>6. CASE Op
  BY <1>2, <1>3, <1>6, OpIs
<1>7. CASE Branch
  BY <1>2, <1>7, BranchIs
<1>8. CASE Call
  BY <1>3, <1>5, <1>8, CallIs
<1>9. CASE Throw
  BY <1>3, <1>9, ThrowIs
<1>10. CASE Rethrow
  BY <1>3, <1>4, <1>10, RethrowIs
<1> QED  BY <1>6, <1>7, <1>8, <1>9, <1>10

LEMMA RetHolds ==
  ASSUME Shape, Ret, NEW i \in DOMAIN clauses[Top.method]
  PROVE  ~InTry(Cl(Top.method, i), origin)
<1>1. phase = "run" /\ Instr.op = "ret"
  BY DEF Ret, Running
<1> QED  BY <1>1, RunIs, TopIs DEF WellFormed, Cl

\* The number of frames stays when the entries of the top one change.
LEMMA FlowsLen ==
  ASSUME Shape, frames # <<>>, NEW gl \in Seq(FlowEntry), frames' = WithFlows(frames, gl) \/ frames' = frames
  PROVE  Len(frames') = Len(frames)
<1>1. CASE frames' = frames
  BY <1>1
<1>2. CASE frames' = WithFlows(frames, gl)
  BY <1>2, FlowsBelow DEF SameBelow
<1> QED  BY <1>1, <1>2

\* Finally i is around clause h, whose try block or handler control leaves at o
\* and enters at p.
LEMMA FinallyHolds ==
  ASSUME NEW m \in Methods, NEW h \in DOMAIN clauses[m], NEW i \in DOMAIN clauses[m], h < i,
         Cl(m, i).flags \in {"Finally", "Fault"},
         NEW o \in Nat, NEW p \in Nat, Within(Cl(m, h), o), Within(Cl(m, h), p), InTry(Cl(m, i), o)
  PROVE  InTry(Cl(m, i), p)
BY Outside

LEMMA LeaveHolds ==
  ASSUME Shape, Leave, NEW m, m = Top.method, NEW i \in DOMAIN clauses[m], InTry(Cl(m, i), origin),
         Cl(m, i).flags = "Finally"
  PROVE  HoldsOrRuns(Cl(m, i))
<1>1. PICK t : t = Instr.target
  OBVIOUS
<1>2. /\ phase = "run" /\ frames # <<>>
      /\ \E gl \in Seq(FlowEntry) :
           Inherits(Flows, gl) /\ (frames' = WithFlows(frames, gl) \/ frames' = frames)
      /\ \/ \E h : LeavesBy(m, ip, t, h) /\ GoTo(Cl(m, h).handlerBegin)
         \/ LeaveHandlers(clauses[m], ip, t) = {} /\ GoTo(t)
  BY <1>1, LeaveIs
<1>3. Len(frames') = Len(frames)
  BY <1>2, FlowsLen
<1>4. /\ m \in Methods /\ ip \in Nat /\ origin = ip /\ t \in Nat /\ i \in Nat
  <2>1. Instr.op = "leave"
    BY DEF Leave, Running
  <2>2. /\ m \in Methods /\ ip \in Nat /\ origin = ip /\ DOMAIN code[m] \subseteq Nat /\ t \in DOMAIN code[m]
    BY <1>1, <1>2, <2>1, RunIs, TopIs DEF WellFormed, LeavesWell
  <2> QED  BY <2>2, ClauseType
<1>5. ASSUME NEW h, LeavesBy(m, ip, t, h), GoTo(Cl(m, h).handlerBegin)
      PROVE  InTry(Cl(m, i), origin') \/ ip' = Cl(m, i).handlerBegin
  <2>1. h \in DOMAIN clauses[m] /\ InTry(Cl(m, h), ip) /\ h <= i
    BY <1>4, <1>5, LeaveHandlersIs
  <2>2. h \in Nat
    BY <1>4, <2>1, ClauseType
  <2>3. CASE h = i
    BY <1>5, <2>3 DEF GoTo
  <2>4. CASE h < i
    <3>1. PICK b : b = Cl(m, h).handlerBegin
      OBVIOUS
    <3>2. b \in Nat /\ InHandler(Cl(m, h), b)
      BY <1>4, <2>1, <3>1, HandlerIs
    <3>3. Within(Cl(m, h), ip) /\ Within(Cl(m, h), b)
      BY <2>1, <3>2 DEF Within, Around
    <3>4. InTry(Cl(m, i), b)
      BY <1>4, <2>1, <2>4, <3>2, <3>3, FinallyHolds
    <3> QED  BY <1>5, <3>1, <3>4 DEF GoTo
  <2> QED  BY <1>4, <2>1, <2>2, <2>3, <2>4
<1>6. ASSUME LeaveHandlers(clauses[m], ip, t) = {}
      PROVE  InTry(Cl(m, i), t)
  <2>1. PICK h \in DOMAIN clauses[m] : h <= i /\ InTry(Cl(m, h), ip) /\ InTry(Cl(m, h), t)
    BY <1>4, <1>6, NoLeaveHandlers
  <2>2. h \in Nat
    BY <1>4, <2>1, ClauseType
  <2>3. CASE h = i
    BY <2>1, <2>3
  <2>4. CASE h < i
    BY <1>4, <2>1, <2>4, Inside
  <2> QED  BY <1>4, <2>1, <2>2, <2>3, <2>4
<1> QED  BY <1>2, <1>3, <1>5, <1>6 DEF GoTo, HoldsOrRuns

\* What control in handler j of the last entry leaves, its end leaves from the
\* offset of the entry.
LEMMA EndHolds ==
  ASSUME Shape, phase = "run", frames # <<>>, Instr.op \in {"endfinally", "endfilter"}, HasCur,
         Clean(departures), NEW m, m = Top.method, NEW i \in DOMAIN clauses[m],
         Cl(m, i).flags = "Finally", InTry(Cl(m, i), ip)
  PROVE  i > Efi.next /\ InTry(Cl(m, i), Efi.throwOffset) /\ Efi.throwOffset \in Nat /\ Efi.next \in DOMAIN clauses[m]
<1>1. PICK fl \in Seq(FlowEntry) : fl = Flows
  BY TopIs
<1>2. /\ m \in Methods /\ ip \in DOMAIN code[m] /\ ip \in Nat /\ Instr = code[m][ip] /\ WellFormed(m, ip)
      /\ AtRest(m, fl, ip, departures)
  BY <1>1, TopIs, RunIs
<1>3. PICK j \in DOMAIN clauses[m] : Innermost(m, j, ip) /\ fl # <<>> /\ fl[Len(fl)].next = j
  BY <1>1, <1>2, EndIsLast
<1>4. Efi = fl[Len(fl)] /\ Efi.throwOffset \in Nat
  BY <1>1, CurIs DEF FlowEntry
<1>5. Within(Cl(m, j), Efi.throwOffset)
  <2>1. Len(fl) \in DOMAIN fl
    BY <1>1, <1>3
  <2> QED  BY <1>2, <1>3, <1>4, <2>1 DEF AtRest, Settled, Within
<1>6. Efi.next = j
  BY <1>3, <1>4
<1>7. i > j /\ (InTry(Cl(m, i), Efi.throwOffset))
  BY <1>2, <1>3, <1>4, <1>5, BeyondInnermost
<1> QED  BY <1>3, <1>4, <1>6, <1>7

LEMMA NextFinallyHolds ==
  ASSUME Shape, EndFinally, HasCur, NextFinally, Clean(departures),
         NEW m, m = Top.method, NEW i \in DOMAIN clauses[m], Cl(m, i).flags = "Finally", InTry(Cl(m, i), ip)
  PROVE  HoldsOrRuns(Cl(m, i))
<1>1. phase = "run" /\ Instr.op = "endfinally"
  BY DEF EndFinally, Running
<1>2. frames # <<>> /\ m \in Methods /\ AtRest(m, Flows, ip, departures) /\ Flows \in Seq(FlowEntry)
  BY <1>1, RunIs, TopIs
<1>3. i > Efi.next /\ InTry(Cl(m, i), Efi.throwOffset) /\ Efi.throwOffset \in Nat /\ i \in Nat
  BY <1>1, <1>2, EndHolds, ClauseType
<1>4. PICK x \in Nat : x = Efi.throwOffset
  BY <1>3
<1>5. Lands(m) \/ \E h, gl : RunsNext(m, h, gl)
  BY <1>2, NextFinallyIs
<1>6. ASSUME NEW h, NEW gl, RunsNext(m, h, gl)
      PROVE  HoldsOrRuns(Cl(m, i))
  <2>1. /\ h \in DOMAIN clauses[m] /\ InTry(Cl(m, h), x) /\ h <= i
        /\ gl \in Seq(FlowEntry) /\ frames' = WithFlows(frames, gl) /\ GoTo(Cl(m, h).handlerBegin)
    BY <1>3, <1>4, <1>6 DEF RunsNext
  <2>2. Len(frames') = Len(frames) /\ h \in Nat
    BY <1>2, <2>1, FlowsLen, ClauseType
  <2>3. CASE h = i
    BY <2>1, <2>2, <2>3 DEF GoTo, HoldsOrRuns
  <2>4. CASE h < i
    <3>1. PICK b : b = Cl(m, h).handlerBegin
      OBVIOUS
    <3>2. b \in Nat /\ InHandler(Cl(m, h), b)
      BY <1>2, <2>1, <3>1, HandlerIs
    <3>3. Within(Cl(m, h), x) /\ Within(Cl(m, h), b)
      BY <2>1, <3>2 DEF Within, Around
    <3>4. InTry(Cl(m, i), b)
      BY <1>2, <1>3, <1>4, <2>1, <2>4, <3>2, <3>3, FinallyHolds
    <3> QED  BY <2>1, <2>2, <3>1, <3>4 DEF GoTo, HoldsOrRuns
  <2> QED  BY <1>3, <2>1, <2>2, <2>3, <2>4
<1>7. ASSUME Lands(m)
      PROVE  HoldsOrRuns(Cl(m, i))
  <2>1. PICK h \in DOMAIN clauses[m] : h <= i /\ InTry(Cl(m, h), x) /\ InTry(Cl(m, h), Efi.target)
    BY <1>3, <1>4, <1>7 DEF Lands
  <2>2. frames' = WithFlows(frames, Front(Flows)) /\ GoTo(Efi.target)
    BY <1>7 DEF Lands
  <2>3. Flows # <<>> /\ Efi = Flows[Len(Flows)] /\ Efi \in FlowEntry
    BY <1>2, CurIs
  <2>4. PICK gl : gl = Front(Flows)
    OBVIOUS
  <2>5. gl \in Seq(FlowEntry)
    BY <1>2, <2>3, <2>4, FrontIs
  <2>6. Len(frames') = Len(frames)
    BY <1>2, <2>2, <2>4, <2>5, FlowsLen
  <2>7. PICK t \in Nat : t = Efi.target
    BY <2>3 DEF FlowEntry
  <2>8. h \in Nat
    BY <1>2, <2>1, ClauseType
  <2>9. CASE h = i
    BY <2>1, <2>2, <2>6, <2>9 DEF GoTo, HoldsOrRuns
  <2>10. CASE h < i
    <3>1. InTry(Cl(m, h), x) /\ InTry(Cl(m, h), t) /\ InTry(Cl(m, i), x)
      BY <1>3, <1>4, <2>1, <2>7
    <3>2. InTry(Cl(m, i), t)
      BY <1>2, <2>1, <2>10, <3>1, Inside
    <3> QED  BY <2>2, <2>6, <2>7, <3>2 DEF GoTo, HoldsOrRuns
  <2> QED  BY <1>3, <2>1, <2>8, <2>9, <2>10
<1> QED  BY <1>5, <1>6, <1>7

LEMMA FilterHolds ==
  ASSUME Shape, EndFilter, Clean(departures), NEW m, m = Top.method,
         NEW i \in DOMAIN clauses[m], Cl(m, i).flags = "Finally", InTry(Cl(m, i), ip), origin = ip
  PROVE  HoldsOrRuns(Cl(m, i))
<1>1. phase = "run" /\ Instr.op = "endfilter"
  BY DEF EndFilter, Running
<1>2. /\ frames # <<>> /\ m \in Methods /\ ip \in Nat /\ ip \in DOMAIN code[m] /\ Instr = code[m][ip]
      /\ WellFormed(m, ip)
  BY <1>1, RunIs, TopIs
<1>3. PICK j \in DOMAIN clauses[m] :
        Innermost(m, j, ip) /\ InFilter(Cl(m, j), ip) /\ ip + 1 = Cl(m, j).handlerBegin
  BY <1>1, <1>2 DEF WellFormed, Cl
<1>4. PICK b \in Nat : b = ip + 1
  BY <1>2
<1>5. Within(Cl(m, j), b)
  BY <1>2, <1>3, <1>4, HandlerIs DEF Within, Around
<1>6. InTry(Cl(m, i), b)
  BY <1>2, <1>3, <1>4, <1>5, BeyondInnermost
<1>7. Abort \/ Resumes \/ \E gl : Accepts(gl)
  BY EndFilterIs
<1>8. CASE Abort \/ Resumes
  BY <1>8 DEF Abort, Resumes, HoldsOrRuns
<1>9. ASSUME NEW gl, Accepts(gl)
      PROVE  HoldsOrRuns(Cl(m, i))
  <2>1. gl \in Seq(FlowEntry) /\ frames' = WithFlows(frames, gl) /\ GoTo(ip + 1)
    BY <1>9 DEF Accepts
  <2>2. Len(frames') = Len(frames)
    BY <1>2, <2>1, FlowsLen
  <2> QED  BY <1>4, <1>6, <2>1, <2>2 DEF GoTo, HoldsOrRuns
<1> QED  BY <1>7, <1>8, <1>9

LEMMA EndFinallyHolds ==
  ASSUME Shape, EndFinally, Clean(departures), NEW m, m = Top.method,
         NEW i \in DOMAIN clauses[m], Cl(m, i).flags = "Finally", InTry(Cl(m, i), ip), origin = ip
  PROVE  HoldsOrRuns(Cl(m, i))
<1>1. CASE frames' = frames /\ (origin' = ip \/ origin' = origin)
  BY <1>1 DEF HoldsOrRuns
<1>2. CASE HasCur /\ NextFinally
  BY <1>2, NextFinallyHolds
<1> QED  BY <1>1, <1>2 DEF EndFinally, Abort

\* The search enters the next clause that is around the throw offset.
LEMMA TakeHolds ==
  ASSUME Shape, SearchCatch \/ SearchRun, NEW m, m = Top.method, NEW i \in DOMAIN clauses[m],
         Cl(m, i).flags \in {"Finally", "Fault"}, InTry(Cl(m, i), Efi.throwOffset), i > Efi.next
  PROVE  HoldsOrRuns(Cl(m, i))
<1>1. CandidateProtects
  BY DEF SearchCatch, SearchRun
<1>2. PICK h : h = Efi.next + 1
  OBVIOUS
<1>3. /\ phase = "search" /\ m \in Methods /\ h \in DOMAIN clauses[m] /\ Candidate = Cl(m, h)
      /\ InTry(Cl(m, h), Efi.throwOffset)
  BY <1>1, <1>2, CandidateIs
<1>4. /\ frames # <<>> /\ Efi \in FlowEntry /\ Efi.next \in Nat /\ Efi.throwOffset \in Nat
  <2>1. frames # <<>> /\ Efi \in FlowEntry
    BY <1>3, SearchIs
  <2> QED  BY <2>1 DEF FlowEntry
<1>5. PICK x \in Nat : x = Efi.throwOffset
  BY <1>4
<1>6. h <= i /\ i \in Nat /\ h \in Nat
  BY <1>2, <1>3, <1>4, ClauseType
<1>7. Len(frames') = Len(frames)
  <2>1. (frames' = WithFlows(frames, Advanced) /\ Advanced \in Seq(FlowEntry))
          \/ (frames' = WithFlows(frames, Caught) /\ Caught \in Seq(FlowEntry))
    BY <1>3, AdvancedIs, CaughtIs DEF SearchCatch, SearchRun
  <2> QED  BY <1>4, <2>1, FlowsLen
<1>8. PICK b : b = ip'
  OBVIOUS
<1>9. /\ origin' = b /\ b \in Nat /\ Around(Cl(m, h), b)
      /\ Cl(m, h).flags \in {"Finally", "Fault"} => b = Cl(m, h).handlerBegin
  <2>1. /\ Cl(m, h).handlerBegin \in Nat /\ InHandler(Cl(m, h), Cl(m, h).handlerBegin)
        /\ Cl(m, h).flags = "Filter" => /\ Cl(m, h).filterBegin \in Nat
                                        /\ InFilter(Cl(m, h), Cl(m, h).filterBegin)
    BY <1>3, HandlerIs
  <2>2. CASE SearchCatch
    BY <1>3, <1>8, <2>1, <2>2 DEF SearchCatch, GoTo, Around
  <2>3. CASE SearchRun
    BY <1>3, <1>8, <2>1, <2>3 DEF SearchRun, GoTo, Around
  <2> QED  BY <2>2, <2>3
<1>10. CASE h = i
  BY <1>7, <1>8, <1>9, <1>10 DEF HoldsOrRuns
<1>11. CASE h < i
  <2>1. Within(Cl(m, h), x) /\ Within(Cl(m, h), b)
    BY <1>3, <1>5, <1>9 DEF Within
  <2>2. InTry(Cl(m, i), b)
    BY <1>3, <1>5, <1>9, <1>11, <2>1, FinallyHolds
  <2> QED  BY <1>7, <1>9, <2>2 DEF HoldsOrRuns
<1> QED  BY <1>6, <1>10, <1>11

\* A search that has seen every clause has no finally still to come to.
LEMMA NoneLeft ==
  ASSUME Shape, phase = "search", ~ClausesLeft, NEW m, m = Top.method,
         NEW i \in DOMAIN clauses[m], i > Efi.next
  PROVE  FALSE
<1>1. imi = m /\ m \in Methods /\ Efi.next \in Nat
  BY SearchIs, TopIs
<1>2. i \in Nat /\ i <= Len(clauses[m]) /\ Len(clauses[m]) \in Nat
  BY <1>1, ClauseAssumption
<1> QED  BY <1>1, <1>2 DEF ClausesLeft

LEMMA FinallysStep ==
  ASSUME Shape, Pending, Next, frames # <<>>, Clean(departures), "faultSkipped" \notin departures,
         ~(phase = "run" /\ OutOfFlows)
  PROVE  FinallyRuns
<1>1. PICK m : m = Top.method
  OBVIOUS
<1>2. SUFFICES ASSUME NEW i \in DOMAIN clauses[m], LeavesTry(Cl(m, i)),
                      Cl(m, i).flags = "Finally" \/ (Cl(m, i).flags = "Fault" /\ phase = "search")
               PROVE  Len(frames') = Len(frames) /\ ip' = Cl(m, i).handlerBegin
  BY <1>1 DEF FinallyRuns, Cl
<1>3. InTry(Cl(m, i), origin)
  BY <1>2 DEF LeavesTry
<1>4. Len(frames) \in Nat /\ m \in Methods
  BY <1>1, TopIs
<1>5. SUFFICES HoldsOrRuns(Cl(m, i))
  BY <1>2, <1>4, <1>5 DEF HoldsOrRuns, LeavesTry
<1>6. phase = "search" =>
        i > Efi.next /\ InTry(Cl(m, i), Efi.throwOffset) /\ Cl(m, i).flags \in {"Finally", "Fault"}
  BY <1>1, <1>2, <1>3 DEF Pending
<1>7. phase = "run" => Cl(m, i).flags = "Finally" /\ origin = ip /\ InTry(Cl(m, i), ip)
  BY <1>2, <1>3, RunIs
<1>8. CASE \E k \in Methods : Execute(k)
  BY <1>8 DEF Execute, Shape
<1>9. CASE Op \/ Branch \/ Call \/ Throw \/ Rethrow
  <2>1. phase = "run"
    BY <1>9 DEF Op, Branch, Call, Throw, Rethrow, Running
  <2> QED  BY <1>1, <1>3, <1>9, <2>1, MovesHold
<1>10. CASE Ret
  BY <1>1, <1>3, <1>10, RetHolds
<1>11. CASE Leave
  <2>1. phase = "run"
    BY <1>11 DEF Leave, Running
  <2> QED  BY <1>1, <1>3, <1>7, <1>11, <2>1, LeaveHolds
<1>12. CASE EndFinally
  <2>1. phase = "run"
    BY <1>12 DEF EndFinally, Running
  <2> QED  BY <1>1, <1>7, <1>12, <2>1, EndFinallyHolds
<1>13. CASE EndFilter
  <2>1. phase = "run"
    BY <1>13 DEF EndFilter, Running
  <2> QED  BY <1>1, <1>7, <1>13, <2>1, FilterHolds
<1>14. CASE SearchPopPrev \/ SearchPass
  <2>1. phase = "search" /\ origin' = origin
    BY <1>14 DEF SearchPopPrev, SearchPass, Searching
  <2>2. Len(frames') = Len(frames)
    <3>1. Flows \in Seq(FlowEntry) /\ Advanced \in Seq(FlowEntry)
      BY <2>1, SearchIs, AdvancedIs
    <3>2. HasPrev => PopPrev(Flows) \in Seq(FlowEntry)
      BY <3>1, PopPrevIs DEF HasPrev
    <3>3. \E gl \in Seq(FlowEntry) : frames' = WithFlows(frames, gl)
      BY <1>14, <3>1, <3>2 DEF SearchPopPrev, SearchPass, Superseded
    <3> QED  BY <3>3, FlowsLen
  <2> QED  BY <1>3, <2>1, <2>2 DEF HoldsOrRuns
<1>15. CASE SearchCatch \/ SearchRun
  <2>1. phase = "search"
    BY <1>15 DEF SearchCatch, SearchRun, CandidateProtects, Searching
  <2> QED  BY <1>1, <1>6, <1>15, <2>1, TakeHolds
<1>16. CASE SearchUnwind
  <2>1. phase = "search" /\ ~ClausesLeft
    BY <1>16 DEF SearchUnwind, Searching
  <2> QED  BY <1>1, <1>6, <2>1, NoneLeft
<1>17. CASE OutOfFlows
  <2>1. phase = "search" /\ ~ClausesLeft
    BY <1>17 DEF OutOfFlows, Searching
  <2> QED  BY <1>1, <1>6, <2>1, NoneLeft
<1>18. CASE Aborted
  BY <1>3, <1>18 DEF Aborted, vars, HoldsOrRuns
<1>19. CASE SearchNull
  BY <1>3, <1>19 DEF SearchNull, Abort, HoldsOrRuns
<1> QED  BY <1>8, <1>9, <1>10, <1>11, <1>12, <1>13, <1>14, <1>15, <1>16, <1>17, <1>18, <1>19 DEF Next

\* Until the code has departed from the CLI in the known ways, control that goes
\* out of the try block of a finally, or of a fault because of an exception, goes
\* to its handler first. Only code that needs an entry when none is left ends
\* Execute there (LEAVE_EX, CONTINUE_NEXT_FINALLY, FIND_NEXT_EX_HANDLER_OR_UNWIND).
THEOREM FinallysRun ==
  Spec => [][(/\ frames # <<>> /\ Clean(departures) /\ "faultSkipped" \notin departures
              /\ ~(phase = "run" /\ OutOfFlows)) => FinallyRuns]_vars
<1>1. ASSUME IInv, Pending, [Next]_vars
      PROVE  [(/\ frames # <<>> /\ Clean(departures) /\ "faultSkipped" \notin departures
               /\ ~(phase = "run" /\ OutOfFlows)) => FinallyRuns]_vars
  BY <1>1, FinallysStep DEF IInv, Clean
<1> QED  BY <1>1, NothingPassed, PTL DEF Spec

\* So in an execution in which no entry is abandoned or leaked and imi is never
\* the callee's, no finally or fault is passed by.
THEOREM FinallysAlwaysRun == Spec /\ []Clean(departures) => FinallyAlwaysRuns
<1>1. ASSUME Clean(departures),
             [(/\ frames # <<>> /\ Clean(departures) /\ "faultSkipped" \notin departures
               /\ ~(phase = "run" /\ OutOfFlows)) => FinallyRuns]_vars
      PROVE  [(/\ frames # <<>> /\ (departures \cup departures') \cap {"foreign", "faultSkipped"} = {}
               /\ ~(phase = "run" /\ OutOfFlows)) => FinallyRuns]_vars
  BY <1>1
<1> QED  BY <1>1, FinallysRun, PTL DEF FinallyAlwaysRuns
====
