------------------------ MODULE BlockTransform_proofs ------------------------
(***************************************************************************)
(* Theorems of BlockTransform for every set of verifiable bodies: the      *)
(* emitted code does what the IL does.                                     *)
(*                                                                         *)
(* In order: the context of a body (depths, blocks, splits), the IR of one *)
(* block (Block, Window), the loop (Loop, with Coverage for the blocks yet *)
(* to visit), placing and relocating the blocks (Spread, Filled, Result),  *)
(* positions in the emitted code (AtPos), and the two machines side by     *)
(* side (Agree). IInv puts them together by phase.                         *)
(***************************************************************************)
EXTENDS BlockTransform, FiniteSetTheorems, SequenceTheorems, WellFoundedInduction, TLAPS

(* Largest and smallest elements                                           *)

LEMMA LeastOf ==
  ASSUME NEW I, I \subseteq Nat, I # {}
  PROVE  \E i \in I : \A j \in I : i <= j
<1>1. PICK i \in I : \A j \in I : ~(<<j, i>> \in OpToRel(<, Nat))
  BY WFMin, NatLessThanWellFounded
<1>2. \A j \in I : ~(j < i)
  <2> SUFFICES ASSUME NEW j \in I, j < i  PROVE FALSE
    OBVIOUS
  <2>1. <<j, i>> \in OpToRel(<, Nat)
    BY DEF OpToRel
  <2> QED  BY <1>1, <2>1
<1> QED  BY <1>2

LEMMA MinIs ==
  ASSUME NEW I, I \subseteq Nat, I # {}
  PROVE  Min(I) \in I /\ \A j \in I : Min(I) <= j
<1>1. \E i \in I : \A j \in I : i <= j
  BY LeastOf
<1> QED  BY <1>1 DEF Min

LEMMA MaxIs ==
  ASSUME NEW n \in Nat, NEW I, I \subseteq 0 .. n, I # {}
  PROVE  Max(I) \in I /\ \A j \in I : j <= Max(I)
<1> DEFINE J == {m \in Nat : \A j \in I : j <= m}
<1>1. n \in J /\ J \subseteq Nat
  OBVIOUS
<1>2. PICK m \in J : \A k \in J : m <= k
  <2> HIDE DEF J
  <2> QED  BY <1>1, LeastOf
<1>3. m \in I
  <2> SUFFICES ASSUME m \notin I PROVE FALSE
    OBVIOUS
  <2>1. PICK j \in I : TRUE
    OBVIOUS
  <2>2. m \in Nat /\ m # 0 /\ \A k \in I : k <= m /\ k # m
    BY <2>1
  <2>3. m - 1 \in J
    BY <2>2
  <2> QED  BY <1>2, <2>2, <2>3
<1>4. \E i \in I : \A j \in I : i >= j
  BY <1>2, <1>3
<1>5. Max(I) \in I /\ \A j \in I : Max(I) >= j
  BY <1>4 DEF Max
<1> PICK x : x = Max(I)
  OBVIOUS
<1>6. x \in I /\ \A j \in I : j \in Nat /\ x \in Nat /\ x >= j
  <2>1. I \subseteq Nat
    OBVIOUS
  <2>2. x \in I /\ \A j \in I : x >= j
    BY <1>5
  <2> HIDE DEF J
  <2> QED  BY <2>1, <2>2
<1>7. \A j \in I : j <= x
  BY <1>6
<1> QED  BY <1>6, <1>7

-----------------------------------------------------------------------------
(* A body with its depths and its blocks: what does not change while it is *)
(* transformed                                                             *)

Depth == CHOOSE d \in [1..Len(Body) -> 0..program.maxStack] : Depths(program, d)

Ctx == [code |-> Body, n |-> Len(Body), depth |-> Depth, init |-> program.init,
        clauses |-> program.clauses, splits |-> splits, blocks |-> Blocks, first |-> Prologue]

Op(c, n) == c.code[n].op
To(c, n) == c.code[n].to
AwayOf(c, n) == {t \in Range(To(c, n)) : t # n + 1}
After(c, n) == IF Op(c, n) = "leave" THEN 0 ELSE c.depth[n] - Popped(Op(c, n)) + Pushed(Op(c, n))
FallsThrough(c, n) == Op(c, n) \notin Stops \cup {"br", "leave"}
Ends(c, n) == Op(c, n) \in Stops \cup {"leave"} \/ AwayOf(c, n) # {}
Bk(c, offset) == Max({b \in c.blocks : b <= offset})

Coded(c) ==
  /\ c.n \in Nat /\ c.n > 0 /\ c.init \in BOOLEAN
  /\ \A n \in 1..c.n :
       /\ Op(c, n) \in Ops /\ To(c, n) \in Seq(1..c.n)
       /\ Op(c, n) \in BranchTarget => Len(To(c, n)) = 1
       /\ Op(c, n) \notin BranchTarget \cup {"switch"} => To(c, n) = <<>>

Stacked(c) ==
  /\ c.depth[1] = 0
  /\ \A n \in 1..c.n :
       /\ c.depth[n] \in Nat
       /\ c.depth[n] >= Popped(Op(c, n)) /\ (Op(c, n) = "dup" => c.depth[n] >= 1)
       /\ FallsThrough(c, n) => n + 1 <= c.n /\ c.depth[n + 1] = After(c, n)
       /\ \A t \in Range(To(c, n)) : c.depth[t] = After(c, n)

Split(c) ==
  /\ c.splits \subseteq 1..(c.n + 1) /\ c.n + 1 \in c.splits
  /\ c.blocks = c.splits \cup {0, 1}
  /\ c.first = IF 1 \in c.splits THEN 0 ELSE 1
  /\ \A n \in 1..c.n : Ends(c, n) => n + 1 \in c.splits /\ Range(To(c, n)) \subseteq c.splits

Clauses(c) ==
  /\ c.clauses \in Seq(ClauseRecords(c.n))
  /\ \A k \in 1..Len(c.clauses) :
       LET x == c.clauses[k]
       IN  /\ {x.tryBegin, x.tryEnd, x.handler, x.handlerEnd} \subseteq c.splits
           /\ c.depth[x.handler] = Caught(x)
           /\ x.flags = "filter" => x.filter \in 1..c.n /\ x.filter \in c.splits /\ c.depth[x.filter] = 1

Context(c) == Coded(c) /\ Stacked(c) /\ Split(c) /\ Clauses(c)

LEMMA ContextHolds ==
  ASSUME program \in Programs, splits = SplitNormal \cup SplitExceptionHandles
  PROVE  Context(Ctx)
<1> PICK B : B = Body
  OBVIOUS
<1> PICK n : n = Len(B)
  OBVIOUS
<1> PICK c : c = Ctx
  OBVIOUS
<1>1. Verifiable(program)
  BY VerifiableAssumption
<1>2. n \in Nat /\ n > 0 /\ B \in Seq(Instructions(n)) /\ program.init \in BOOLEAN
  BY <1>1 DEF Verifiable, Body
<1>3. Depth \in [1..n -> 0..program.maxStack] /\ Depths(program, Depth) /\ program.maxStack \in Nat
  <2>1. \E d \in [1..n -> 0..program.maxStack] : Depths(program, d)
    BY <1>1 DEF Verifiable, Body
  <2> QED  BY <1>1, <2>1 DEF Depth, Verifiable
<1>4. /\ c.code = B /\ c.n = n /\ c.depth = Depth /\ c.init = program.init
      /\ c.clauses = program.clauses /\ c.splits = splits /\ c.blocks = Blocks /\ c.first = Prologue
  BY DEF Ctx
<1>5. Coded(c)
  <2>1. \A i \in 1..n : B[i].op \in Ops /\ B[i].to \in Seq(1..n)
    <3>1. \A i \in 1..n : B[i] \in Instructions(n)
      BY <1>2
    <3> QED  BY <3>1 DEF Instructions
  <2>2. \A i \in 1..n : /\ B[i].op \in BranchTarget => Len(B[i].to) = 1
                        /\ B[i].op \notin BranchTarget \cup {"switch"} => B[i].to = <<>>
    BY <1>1 DEF Verifiable, Body
  <2> QED  BY <1>2, <1>4, <2>1, <2>2 DEF Coded, Op, To
<1>6. Stacked(c)
  <2>1. c.depth[1] = 0
    BY <1>3, <1>4 DEF Depths
  <2>2. ASSUME NEW i \in 1..n
        PROVE  /\ c.depth[i] \in Nat
               /\ c.depth[i] >= Popped(Op(c, i)) /\ (Op(c, i) = "dup" => c.depth[i] >= 1)
               /\ FallsThrough(c, i) => i + 1 <= c.n /\ c.depth[i + 1] = After(c, i)
               /\ \A t \in Range(To(c, i)) : c.depth[t] = After(c, i)
    <3>1. i \in DOMAIN program.code /\ DOMAIN Depth = 1..n
      BY <1>2, <1>3 DEF Body
    <3>2. Depth[i] \in Nat
      BY <1>3
    <3>3. /\ program.code[i].op = Op(c, i) /\ program.code[i].to = To(c, i)
      BY <1>4 DEF Op, To, Body
    <3>4. /\ Depth[i] >= Popped(Op(c, i)) /\ (Op(c, i) = "dup" => Depth[i] >= 1)
          /\ FallsThrough(c, i) => i + 1 \in DOMAIN Depth /\ Depth[i + 1] = After(c, i)
          /\ \A t \in Range(To(c, i)) : Depth[t] = After(c, i)
      BY <1>3, <1>4, <3>1, <3>3 DEF Depths, FallsThrough, After
    <3> QED  BY <1>4, <3>1, <3>2, <3>4
  <2> QED  BY <1>4, <2>1, <2>2 DEF Stacked
<1>7. Clauses(c)
  <2>1. c.clauses \in Seq(ClauseRecords(n))
    BY <1>1, <1>4 DEF Verifiable, Body
  <2>2. ASSUME NEW k \in 1..Len(c.clauses), NEW x, x = c.clauses[k]
        PROVE  /\ {x.tryBegin, x.tryEnd, x.handler, x.handlerEnd} \subseteq c.splits
               /\ c.depth[x.handler] = Caught(x)
               /\ x.flags = "filter" => x.filter \in 1..c.n /\ x.filter \in c.splits /\ c.depth[x.filter] = 1
    <3>1. x \in Range(program.clauses) /\ x.filter \in 0..n
      <4>1. x \in ClauseRecords(n) /\ k \in DOMAIN c.clauses
        BY <2>1, <2>2, ElementOfSeq
      <4> QED  BY <1>4, <2>2, <4>1 DEF Range, ClauseRecords
    <3>2. Offsets(x) \subseteq splits
      BY <3>1 DEF SplitExceptionHandles
    <3>3. c.depth[x.handler] = Caught(x) /\ (x.flags = "filter" => c.depth[x.filter] = 1)
      BY <1>3, <1>4, <3>1 DEF Depths
    <3>4. x.flags = "filter" => x.filter # 0
      BY <1>1, <3>1 DEF Verifiable
    <3> QED  BY <1>4, <3>1, <3>2, <3>3, <3>4 DEF Offsets
  <2> QED  BY <1>4, <2>1, <2>2 DEF Clauses
<1>8. Split(c)
  <2>1. \A i \in 1..n : To(c, i) \in Seq(1..n) /\ Range(To(c, i)) \subseteq 1..n
    BY <1>4, <1>5 DEF Coded, Range
  <2>2. \A i \in 1..n : Away(i) = AwayOf(c, i) /\ Body[i].op = Op(c, i)
    BY <1>4 DEF Away, AwayOf, To, Op
  <2>3. splits \subseteq 1..(n + 1)
    <3>1. ASSUME NEW i \in 1..n PROVE SplitAt(i) \subseteq 1..(n + 1)
      BY <2>1, <2>2 DEF SplitAt, AwayOf
    <3>2. SplitNormal \subseteq 1..(n + 1)
      BY <1>2, <3>1 DEF SplitNormal
    <3>3. ASSUME NEW x \in Range(program.clauses) PROVE Offsets(x) \subseteq 1..(n + 1)
      <4>1. PICK k \in 1..Len(c.clauses) : x = c.clauses[k]
        BY <1>4, <1>7 DEF Range, Clauses
      <4>2. x \in ClauseRecords(n)
        BY <1>4, <1>7, <4>1, ElementOfSeq DEF Clauses
      <4>3. x.flags = "filter" => x.filter \in 1..n
        BY <1>4, <1>7, <4>1 DEF Clauses
      <4> QED  BY <1>2, <4>2, <4>3 DEF Offsets, ClauseRecords
    <3>4. SplitExceptionHandles \subseteq 1..(n + 1)
      BY <3>3 DEF SplitExceptionHandles
    <3> QED  BY <3>2, <3>4
  <2>4. ASSUME NEW i \in 1..n, Ends(c, i)
        PROVE  i + 1 \in splits /\ Range(To(c, i)) \subseteq splits
    <3>1. CASE Op(c, i) = "endfilter" /\ AwayOf(c, i) = {}
      <4>1. PICK x \in Range(program.clauses) : x.handler = i + 1
        BY <1>1, <2>2, <3>1 DEF Verifiable, Body
      <4>2. i + 1 \in SplitExceptionHandles
        BY <4>1 DEF SplitExceptionHandles, Offsets
      <4>3. To(c, i) = <<>>
        BY <1>4, <1>5, <3>1 DEF Coded, BranchTarget
      <4> QED  BY <4>2, <4>3 DEF Range
    <3>2. CASE ~(Op(c, i) = "endfilter" /\ AwayOf(c, i) = {})
      <4>1. Body[i].op \in StaticBranch \cup {"leave"} \/ Away(i) # {}
        BY <2>2, <2>4, <3>2 DEF Ends, Stops
      <4>2. SplitAt(i) = {i + 1} \cup Away(i)
        BY <4>1 DEF SplitAt
      <4>3. SplitAt(i) \subseteq splits
        BY <1>2 DEF SplitNormal
      <4>4. Range(To(c, i)) \subseteq {i + 1} \cup Away(i)
        BY <2>2 DEF AwayOf
      <4> QED  BY <4>2, <4>3, <4>4
    <3> QED  BY <3>1, <3>2
  <2>5. n + 1 \in splits
    <3>1. n \in 1..n
      BY <1>2
    <3>2. ~ FallsThrough(c, n)
      BY <1>2, <1>4, <1>6, <3>1 DEF Stacked
    <3>3. CASE Op(c, n) = "br"
      <4>1. To(c, n)[1] \in Range(To(c, n))
        <5>1. Len(To(c, n)) = 1 /\ To(c, n) \in Seq(1..n)
          BY <1>4, <1>5, <3>1, <3>3 DEF Coded, BranchTarget
        <5> QED  BY <5>1 DEF Range
      <4>2. To(c, n)[1] \in 1..n
        BY <2>1, <3>1, <4>1
      <4>3. AwayOf(c, n) # {}
        BY <1>2, <4>1, <4>2 DEF AwayOf
      <4> QED  BY <2>4, <3>1, <4>3 DEF Ends
    <3>4. CASE Op(c, n) # "br"
      <4>1. Ends(c, n)
        BY <3>2, <3>4 DEF FallsThrough, Ends
      <4> QED  BY <2>4, <3>1, <4>1
    <3> QED  BY <3>3, <3>4
  <2>6. Blocks = splits \cup {0, 1}
    BY <2>5 DEF Blocks, End
  <2>7. Prologue = IF 1 \in splits THEN 0 ELSE 1
    BY DEF Prologue
  <2> QED  BY <1>4, <2>3, <2>4, <2>5, <2>6, <2>7 DEF Split
<1> QED  BY <1>5, <1>6, <1>7, <1>8 DEF Context

-----------------------------------------------------------------------------
(* Blocks                                                                  *)

LEMMA BkIs ==
  ASSUME NEW c, Context(c), NEW o \in 0..(c.n + 1)
  PROVE  /\ Bk(c, o) \in c.blocks /\ Bk(c, o) \in 0..(c.n + 1) /\ Bk(c, o) <= o
         /\ \A b \in c.blocks : b <= o => b <= Bk(c, o)
<1>1. c.n \in Nat /\ c.blocks \subseteq 0..(c.n + 1) /\ 0 \in c.blocks
  BY DEF Context, Coded, Split
<1> DEFINE I == {b \in c.blocks : b <= o}
<1>2. I \subseteq 0..(c.n + 1) /\ I # {}
  BY <1>1
<1>3. Max(I) \in I /\ \A j \in I : j <= Max(I)
  <2> HIDE DEF I
  <2>1. c.n + 1 \in Nat
    BY <1>1
  <2> QED  BY <1>2, <2>1, MaxIs
<1> QED  BY <1>1, <1>3 DEF Bk

LEMMA BkBlock ==
  ASSUME NEW c, Context(c), NEW b \in c.blocks
  PROVE  b \in 0..(c.n + 1) /\ Bk(c, b) = b
<1>1. c.n \in Nat /\ b \in 0..(c.n + 1)
  BY DEF Context, Coded, Split
<1>2. Bk(c, b) <= b /\ b <= Bk(c, b) /\ Bk(c, b) \in 0..(c.n + 1)
  BY <1>1, BkIs
<1> QED  BY <1>1, <1>2

LEMMA BkNext ==
  ASSUME NEW c, Context(c), NEW n \in 0..c.n
  PROVE  /\ n + 1 \in c.blocks => Bk(c, n + 1) = n + 1
         /\ n + 1 \notin c.blocks => Bk(c, n + 1) = Bk(c, n)
<1>1. c.n \in Nat /\ c.blocks \subseteq 0..(c.n + 1) /\ n + 1 \in 0..(c.n + 1) /\ n \in 0..(c.n + 1)
  BY DEF Context, Coded, Split
<1>2. CASE n + 1 \in c.blocks
  BY <1>2, BkBlock
<1>3. CASE n + 1 \notin c.blocks
  <2>1. \A b \in c.blocks : b <= n + 1 <=> b <= n
    BY <1>1, <1>3
  <2>2. {b \in c.blocks : b <= n + 1} = {b \in c.blocks : b <= n}
    BY <2>1
  <2> QED  BY <1>3, <2>2 DEF Bk
<1> QED  BY <1>2, <1>3

\* Whoever lies between two positions of a block lies in it, and starts no block.
LEMMA BkBetween ==
  ASSUME NEW c, Context(c), NEW i \in 0..(c.n + 1), NEW j \in 0..(c.n + 1), NEW k \in 0..(c.n + 1),
         i <= k, k <= j, Bk(c, i) = Bk(c, j)
  PROVE  Bk(c, k) = Bk(c, i) /\ (i < k => k \notin c.blocks)
<1>1. c.n \in Nat /\ c.blocks \subseteq 0..(c.n + 1)
  BY DEF Context, Coded, Split
<1>2. /\ Bk(c, i) \in c.blocks /\ Bk(c, i) <= i /\ Bk(c, i) \in Nat
      /\ Bk(c, k) \in c.blocks /\ Bk(c, k) <= k /\ Bk(c, k) \in Nat
      /\ \A b \in c.blocks : b <= k => b <= Bk(c, k)
      /\ \A b \in c.blocks : b <= j => b <= Bk(c, j)
  BY BkIs
<1>3. Bk(c, i) <= Bk(c, k) /\ Bk(c, k) <= Bk(c, i)
  BY <1>2
<1>4. Bk(c, k) = Bk(c, i)
  BY <1>2, <1>3
<1>5. i < k => k \notin c.blocks
  BY <1>2, <1>4
<1> QED  BY <1>4, <1>5

-----------------------------------------------------------------------------
(* The IR of one block: L has been translated up to position u             *)

Tests == {"brtrue", "brfalse"}
SlotOf(c, n) == IF Op(c, n) \in {"work", "br", "leave"} THEN 0 ELSE c.depth[n] + Pushed(Op(c, n))

Normal(c, n) == [op |-> Op(c, n), at |-> n, to |-> To(c, n), slot |-> SlotOf(c, n)]
Folded(c, n) == [op |-> "br", at |-> n, to |-> To(c, n), slot |-> 0]
InitIr == [op |-> "init", at |-> 0, to |-> <<>>, slot |-> 0]
Irs(c) == [op : Ops \cup {"init"}, at : 0..c.n, to : Seq(1..c.n), slot : Nat]

\* n has IR of its own
Emitted(L, n) == \E k \in 1..Len(L) : L[k].at = n

\* n never has: it emits nothing
Quiet(c, n) ==
  \/ Op(c, n) = "pop"
  \/ Op(c, n) \in {"br", "switch", "beq"} \cup Tests /\ AwayOf(c, n) = {}

\* The branch at m was folded on the object j created: control runs straight
\* from j to m, and the object stays on top of the stack.
Window(c, L, j, m) ==
  /\ j \in 1..c.n /\ m \in 1..c.n /\ j < m /\ Bk(c, j) = Bk(c, m)
  /\ Op(c, j) = "new" /\ Op(c, m) \in Tests /\ AwayOf(c, m) # {}
  /\ \A n \in (j + 1)..m : c.depth[n] = c.depth[j] + 1
  /\ \A n \in (j + 1)..(m - 1) : Op(c, n) = "br" /\ AwayOf(c, n) = {}
  /\ \A n \in j..(m - 1) : ~ Emitted(L, n)
  /\ Op(c, m) = "brfalse" => ~ Emitted(L, m)
  /\ Op(c, m) = "brtrue" => \E k \in 1..Len(L) : L[k] = Folded(c, m)

Plain(c, L, n) ==
  \/ \E k \in 1..Len(L) : L[k] = Normal(c, n)
  \/ ~ Emitted(L, n) /\ Quiet(c, n)
Translated(c, L, u, n) ==
  \/ Plain(c, L, n)
  \/ \E m \in 1..c.n : m < u /\ Window(c, L, n, m)
  \/ \E j \in 1..c.n : Window(c, L, j, n)

Sound(c, L, b, u) ==
  /\ L \in Seq(Irs(c))
  /\ \A k, l \in 1..Len(L) : k < l => L[k].at < L[l].at
  /\ \A k \in 1..Len(L) :
       \/ k = 1 /\ L[k] = InitIr /\ b = c.first /\ c.init
       \/ /\ L[k].at \in 1..c.n /\ L[k].at < u /\ Bk(c, L[k].at) = b
          /\ Range(L[k].to) \subseteq c.splits
          /\ L[k] \in {Normal(c, L[k].at), Folded(c, L[k].at)}
  /\ b = c.first /\ c.init => L # <<>> /\ L[1] = InitIr

Block(c, L, b, u, st) ==
  /\ Sound(c, L, b, u)
  /\ ~ st => \A n \in 1..c.n : Bk(c, n) = b /\ n < u => Translated(c, L, u, n)

\* Since the last instruction, a new, the stack has not grown.
NotGrown(c, L, u) ==
  L # <<>> /\ L[Len(L)].op = "new" =>
    \A n, m \in 1..c.n : L[Len(L)].at < n /\ n <= m /\ m <= u => c.depth[m] <= c.depth[n]

LEMMA CodedAt ==
  ASSUME NEW c, Context(c), NEW n \in 1..c.n
  PROVE  /\ c.n \in Nat /\ n \in Nat /\ Op(c, n) \in Ops /\ To(c, n) \in Seq(1..c.n)
         /\ c.depth[n] \in Nat /\ SlotOf(c, n) \in Nat
         /\ Pushed(Op(c, n)) \in {0, 1} /\ Popped(Op(c, n)) \in 0..2
<1>1. c.n \in Nat /\ n \in Nat /\ Op(c, n) \in Ops /\ To(c, n) \in Seq(1..c.n) /\ c.depth[n] \in Nat
  BY DEF Context, Coded, Stacked
<1>2. Pushed(Op(c, n)) \in {0, 1} /\ Popped(Op(c, n)) \in 0..2
  BY DEF Pushed, Popped
<1> QED  BY <1>1, <1>2 DEF SlotOf

LEMMA OneTarget ==
  ASSUME NEW c, Context(c), NEW n \in 1..c.n, Op(c, n) \in BranchTarget
  PROVE  To(c, n)[1] \in 1..c.n /\ Range(To(c, n)) = {To(c, n)[1]} /\ Len(To(c, n)) = 1
<1> PICK s : s = To(c, n)
  OBVIOUS
<1>1. s \in Seq(1..c.n) /\ Len(s) = 1
  BY DEF Context, Coded
<1>2. s[1] \in 1..c.n
  <2> PICK T : T = 1..c.n
    OBVIOUS
  <2>1. s \in Seq(T) /\ 1 \in 1..Len(s)
    BY <1>1
  <2>2. s[1] \in T
    BY <2>1, ElementOfSeq
  <2> QED  BY <2>2
<1>3. DOMAIN s = 1..1
  BY <1>1
<1> QED  BY <1>1, <1>2, <1>3 DEF Range

LEMMA AppendIs ==
  ASSUME NEW T, NEW s \in Seq(T), NEW x \in T
  PROVE  /\ Append(s, x) \in Seq(T) /\ Len(Append(s, x)) = Len(s) + 1 /\ Len(s) \in Nat
         /\ \A k \in 1..Len(s) : Append(s, x)[k] = s[k]
         /\ Append(s, x)[Len(s) + 1] = x
OBVIOUS

\* A window ends with the block.
LEMMA NoWindowYet ==
  ASSUME NEW c, Context(c), NEW L, NEW i \in 1..c.n, NEW n \in 1..c.n, NEW m \in 1..c.n,
         Bk(c, n) = Bk(c, i), m < i, Window(c, L, n, m)
  PROVE  FALSE
<1>1. c.n \in Nat /\ Bk(c, m) = Bk(c, i)
  BY DEF Window, Context, Coded
<1>2. m + 1 \in c.blocks
  BY DEF Window, Context, Split, Ends
<1>3. m \in 0..(c.n + 1) /\ m + 1 \in 0..(c.n + 1) /\ i \in 0..(c.n + 1) /\ m <= m + 1 /\ m + 1 <= i /\ m < m + 1
  BY <1>1
<1> QED  BY <1>1, <1>2, <1>3, BkBetween

LEMMA PlainYet ==
  ASSUME NEW c, Context(c), NEW L, NEW i \in 1..c.n, NEW n \in 1..c.n,
         Bk(c, n) = Bk(c, i), n < i, Translated(c, L, i, n)
  PROVE  Plain(c, L, n)
<1>1. \A m \in 1..c.n : m < i => ~ Window(c, L, n, m)
  BY NoWindowYet
<1>2. \A j \in 1..c.n : ~ Window(c, L, j, n)
  <2> SUFFICES ASSUME NEW j \in 1..c.n, Window(c, L, j, n) PROVE FALSE
    OBVIOUS
  <2>1. Bk(c, j) = Bk(c, i)
    BY DEF Window
  <2> QED  BY <2>1, NoWindowYet
<1> QED  BY <1>1, <1>2 DEF Translated

\* While a block is being translated it is plain so far.
LEMMA PlainSoFar ==
  ASSUME NEW c, Context(c), NEW L, NEW i \in 1..c.n, Block(c, L, Bk(c, i), i, FALSE),
         NEW n \in 1..c.n, Bk(c, n) = Bk(c, i), n < i
  PROVE  Plain(c, L, n)
<1>1. Translated(c, L, i, n)
  BY DEF Block
<1> QED  BY <1>1, PlainYet

-----------------------------------------------------------------------------
(* What a step of the loop does to a block                                 *)

LEMMA BlockStale ==
  ASSUME NEW c, NEW L, NEW b, NEW u, NEW st \in BOOLEAN, NEW st1 \in BOOLEAN,
         Block(c, L, b, u, st), st => st1
  PROVE  Block(c, L, b, u, st1)
BY DEF Block

\* The first instruction of a block.
LEMMA BlockOpened ==
  ASSUME NEW c, Context(c), NEW L, NEW i \in 1..c.n, i \in c.blocks, NEW st \in BOOLEAN,
         Block(c, L, i, 0, st)
  PROVE  Block(c, L, i, i, st) /\ NotGrown(c, L, i)
<1>1. c.n \in Nat /\ i \in Nat
  BY DEF Context, Coded
<1>2. Sound(c, L, i, i)
  BY <1>1 DEF Block, Sound
<1>3. ASSUME NEW n \in 1..c.n, Bk(c, n) = i, n < i PROVE FALSE
  <2>1. n \in 0..(c.n + 1)
    BY <1>1
  <2>2. Bk(c, n) <= n
    BY <2>1, BkIs
  <2> QED  BY <1>1, <1>3, <2>2
<1>4. Block(c, L, i, i, st)
  BY <1>2, <1>3 DEF Block
<1>5. NotGrown(c, L, i)
  <2> SUFFICES ASSUME L # <<>>, L[Len(L)].op = "new" PROVE FALSE
    BY DEF NotGrown
  <2>1. Len(L) \in 1..Len(L)
    BY DEF Block, Sound
  <2>2. ~ (L[Len(L)].at \in 1..c.n /\ L[Len(L)].at < 0)
    BY <1>1
  <2>3. L[Len(L)] = InitIr
    BY <2>1, <2>2 DEF Block, Sound
  <2> QED  BY <2>3 DEF InitIr
<1> QED  BY <1>4, <1>5

\* The last one.
LEMMA BlockClosed ==
  ASSUME NEW c, Context(c), NEW L, NEW i \in 1..c.n, i + 1 \in c.blocks, NEW st \in BOOLEAN,
         Block(c, L, Bk(c, i), i + 1, st)
  PROVE  Block(c, L, Bk(c, i), c.n + 1, st)
<1>1. c.n \in Nat /\ i \in Nat /\ i + 1 <= c.n + 1
  BY DEF Context, Coded
<1>2. Sound(c, L, Bk(c, i), c.n + 1)
  <2>1. \A k \in 1..Len(L) : L[k].at \in 1..c.n /\ L[k].at < i + 1 => L[k].at < c.n + 1
    BY <1>1
  <2> QED  BY <2>1 DEF Block, Sound
<1>3. ASSUME NEW n \in 1..c.n, Bk(c, n) = Bk(c, i), ~ st PROVE Translated(c, L, c.n + 1, n)
  <2>1. n < i + 1
    <3> SUFFICES ASSUME ~ n < i + 1 PROVE FALSE
      OBVIOUS
    <3>1. i \in 0..(c.n + 1) /\ n \in 0..(c.n + 1) /\ i + 1 \in 0..(c.n + 1) /\ i <= i + 1 /\ i + 1 <= n /\ i < i + 1
      BY <1>1
    <3> QED  BY <1>3, <3>1, BkBetween
  <2>2. Translated(c, L, i + 1, n)
    BY <1>3, <2>1 DEF Block
  <2>3. \A m \in 1..c.n : m < i + 1 => m < c.n + 1
    BY <1>1
  <2> QED  BY <2>2, <2>3 DEF Translated
<1> QED  BY <1>2, <1>3 DEF Block

\* An instruction that emits nothing.
LEMMA BlockSkipped ==
  ASSUME NEW c, Context(c), NEW L, NEW i \in 1..c.n, NEW st \in BOOLEAN,
         Block(c, L, Bk(c, i), i, st), Quiet(c, i)
  PROVE  Block(c, L, Bk(c, i), i + 1, st)
<1>1. c.n \in Nat /\ i \in Nat
  BY DEF Context, Coded
<1>2. Sound(c, L, Bk(c, i), i + 1)
  <2>1. \A k \in 1..Len(L) : L[k].at \in 1..c.n /\ L[k].at < i => L[k].at < i + 1
    BY <1>1
  <2> QED  BY <2>1 DEF Block, Sound
<1>3. ASSUME NEW n \in 1..c.n, Bk(c, n) = Bk(c, i), n < i + 1, ~ st PROVE Plain(c, L, n)
  <2>1. CASE n < i
    BY <1>3, <2>1, PlainSoFar DEF Block
  <2>2. CASE ~ n < i
    <3>1. n = i
      BY <1>1, <1>3, <2>2
    <3>2. ~ Emitted(L, i)
      <4> SUFFICES ASSUME NEW k \in 1..Len(L), L[k].at = i PROVE FALSE
        BY DEF Emitted
      <4>1. L[k] = InitIr \/ L[k].at < i
        BY DEF Block, Sound
      <4>2. L[k].at # 0 /\ ~ L[k].at < i
        BY <1>1
      <4> QED  BY <4>1, <4>2 DEF InitIr
    <3> QED  BY <3>1, <3>2 DEF Plain
  <2> QED  BY <2>1, <2>2
<1> QED  BY <1>2, <1>3 DEF Block, Translated

LEMMA SoundAt ==
  ASSUME NEW c, Context(c), NEW L, NEW b, NEW u \in Nat, Sound(c, L, b, u), NEW k \in 1..Len(L)
  PROVE  /\ L[k] \in Irs(c) /\ L[k].at \in 0..c.n /\ c.n \in Nat /\ L[k].at \in Nat
         /\ L[k] # InitIr => L[k].at > 0 /\ L[k].at < u /\ Bk(c, L[k].at) = b
         /\ L[k] = InitIr => L[k].at = 0 /\ k = 1
<1>1. L[k] \in Irs(c) /\ c.n \in Nat
  BY ElementOfSeq DEF Sound, Context, Coded
<1>2. L[k].at \in 0..c.n
  BY <1>1 DEF Irs
<1>3. L[k] = InitIr => L[k].at = 0
  BY DEF InitIr
<1>4. L[k] = InitIr => k = 1
  <2> SUFFICES ASSUME L[k] = InitIr, k # 1 PROVE FALSE
    OBVIOUS
  <2>1. L[k].at \in 1..c.n
    BY DEF Sound
  <2> QED  BY <1>1, <1>3, <2>1
<1>5. L[k] # InitIr => L[k].at \in 1..c.n /\ L[k].at < u /\ Bk(c, L[k].at) = b
  BY DEF Sound
<1> QED  BY <1>1, <1>2, <1>3, <1>4, <1>5

LEMMA SoundAppended ==
  ASSUME NEW c, Context(c), NEW L, NEW i \in 1..c.n, Sound(c, L, Bk(c, i), i),
         NEW x, x \in {Normal(c, i), Folded(c, i)}, Range(To(c, i)) \subseteq c.splits
  PROVE  Sound(c, Append(L, x), Bk(c, i), i + 1)
<1> PICK M : M = Append(L, x)
  OBVIOUS
<1>1. /\ c.n \in Nat /\ i \in Nat /\ x \in Irs(c)
      /\ x.at = i /\ x.to = To(c, i)
  <2>1. c.n \in Nat /\ i \in 0..c.n /\ Op(c, i) \in Ops /\ To(c, i) \in Seq(1..c.n) /\ SlotOf(c, i) \in Nat
    BY CodedAt
  <2>2. "br" \in Ops
    BY DEF Ops, BranchTarget
  <2>3. 0 \in Nat
    OBVIOUS
  <2>4. Normal(c, i) \in Irs(c) /\ Folded(c, i) \in Irs(c)
    BY <2>1, <2>2, <2>3 DEF Normal, Folded, Irs
  <2> QED  BY <2>1, <2>4 DEF Normal, Folded
<1>2. L \in Seq(Irs(c))
  BY DEF Sound
<1>3. /\ M \in Seq(Irs(c)) /\ Len(M) = Len(L) + 1 /\ Len(L) \in Nat
      /\ \A k \in 1..Len(L) : M[k] = L[k]
      /\ M[Len(L) + 1] = x
  BY <1>1, <1>2, AppendIs
<1>4. \A k \in 1..Len(L) : L[k].at \in Nat /\ L[k].at < i
  <2> SUFFICES ASSUME NEW k \in 1..Len(L) PROVE L[k].at \in Nat /\ L[k].at < i
    OBVIOUS
  <2>1. L[k].at \in Nat /\ (L[k] = InitIr => L[k].at = 0) /\ (L[k] # InitIr => L[k].at < i)
    BY <1>1, SoundAt
  <2> QED  BY <1>1, <2>1
<1>5. ASSUME NEW k \in 1..Len(M), NEW l \in 1..Len(M), k < l PROVE M[k].at < M[l].at
  <2>1. k \in 1..Len(L)
    BY <1>3, <1>5
  <2>2. CASE l = Len(L) + 1
    BY <1>1, <1>3, <1>4, <2>1, <2>2
  <2>3. CASE l \in 1..Len(L)
    BY <1>3, <1>5, <2>1, <2>3 DEF Sound
  <2> QED  BY <1>3, <2>2, <2>3
<1>6. ASSUME NEW k \in 1..Len(M)
      PROVE  \/ k = 1 /\ M[k] = InitIr /\ Bk(c, i) = c.first /\ c.init
             \/ /\ M[k].at \in 1..c.n /\ M[k].at < i + 1 /\ Bk(c, M[k].at) = Bk(c, i)
                /\ Range(M[k].to) \subseteq c.splits
                /\ M[k] \in {Normal(c, M[k].at), Folded(c, M[k].at)}
  <2>1. CASE k = Len(L) + 1
    <3>1. M[k] = x
      BY <1>3, <2>1
    <3> QED  BY <1>1, <3>1
  <2>2. CASE k \in 1..Len(L)
    <3>1. M[k] = L[k]
      BY <1>3, <2>2
    <3>2. L[k].at \in 1..c.n /\ L[k].at < i => L[k].at < i + 1
      BY <1>1
    <3> QED  BY <2>2, <3>1, <3>2 DEF Sound
  <2> QED  BY <1>3, <2>1, <2>2
<1>7. Bk(c, i) = c.first /\ c.init => M # <<>> /\ M[1] = InitIr
  <2> SUFFICES ASSUME Bk(c, i) = c.first, c.init PROVE M # <<>> /\ M[1] = InitIr
    OBVIOUS
  <2>1. L # <<>> /\ L[1] = InitIr
    BY DEF Sound
  <2>2. 1 \in 1..Len(L)
    BY <1>2, <2>1
  <2> QED  BY <1>3, <2>1, <2>2
<1>8. Sound(c, M, Bk(c, i), i + 1)
  BY <1>3, <1>5, <1>6, <1>7 DEF Sound
<1> QED  BY <1>8

\* What was plain before position i stays so when IR of i is added.
LEMMA PlainAppended ==
  ASSUME NEW c, Context(c), NEW L \in Seq(Irs(c)), NEW i \in 1..c.n, NEW n \in 1..c.n, n # i,
         Plain(c, L, n), NEW x \in Irs(c), x.at = i
  PROVE  Plain(c, Append(L, x), n)
<1> PICK M : M = Append(L, x)
  OBVIOUS
<1>3. /\ M \in Seq(Irs(c)) /\ Len(M) = Len(L) + 1 /\ Len(L) \in Nat
      /\ \A k \in 1..Len(L) : M[k] = L[k]
      /\ M[Len(L) + 1] = x
  BY AppendIs
<1>2. CASE \E k \in 1..Len(L) : L[k] = Normal(c, n)
  <2>1. \E k \in 1..Len(M) : M[k] = Normal(c, n)
    BY <1>3, <1>2
  <2> QED  BY <2>1 DEF Plain
<1>4. CASE ~ Emitted(L, n) /\ Quiet(c, n)
  <2>1. ~ Emitted(M, n)
    <3> SUFFICES ASSUME NEW k \in 1..Len(M), M[k].at = n PROVE FALSE
      BY DEF Emitted
    <3>1. k = Len(L) + 1 \/ k \in 1..Len(L)
      BY <1>3
    <3>2. k \in 1..Len(L)
      BY <1>3, <3>1
    <3> QED  BY <1>3, <1>4, <3>2 DEF Emitted
  <2> QED  BY <1>4, <2>1 DEF Plain
<1> QED  BY <1>2, <1>4 DEF Plain

\* The IR of an instruction is added.
LEMMA BlockAppended ==
  ASSUME NEW c, Context(c), NEW L, NEW i \in 1..c.n, NEW st \in BOOLEAN,
         Block(c, L, Bk(c, i), i, st), Range(To(c, i)) \subseteq c.splits
  PROVE  /\ Block(c, Append(L, Normal(c, i)), Bk(c, i), i + 1, st)
         /\ NotGrown(c, Append(L, Normal(c, i)), i + 1)
<1> PICK x : x = Normal(c, i)
  OBVIOUS
<1> PICK M : M = Append(L, x)
  OBVIOUS
<1>1. c.n \in Nat /\ i \in Nat /\ x.at = i
  BY CodedAt DEF Normal
<1>2. Sound(c, M, Bk(c, i), i + 1) /\ Sound(c, L, Bk(c, i), i)
  BY SoundAppended DEF Block
<1>3. x \in Irs(c) /\ L \in Seq(Irs(c))
  <2>1. c.n \in Nat /\ i \in 0..c.n /\ Op(c, i) \in Ops /\ To(c, i) \in Seq(1..c.n) /\ SlotOf(c, i) \in Nat
    BY CodedAt
  <2>2. x \in Irs(c)
    BY <2>1 DEF Normal, Irs
  <2> QED  BY <1>2, <2>2 DEF Sound
<1>4. Len(M) = Len(L) + 1 /\ Len(L) \in Nat /\ M[Len(L) + 1] = x
  BY <1>3, AppendIs
<1>6. ASSUME NEW n \in 1..c.n, Bk(c, n) = Bk(c, i), n < i + 1, ~ st PROVE Plain(c, M, n)
  <2>1. CASE n < i
    <3>1. Plain(c, L, n)
      BY <1>6, <2>1, PlainSoFar DEF Block
    <3>2. n # i
      BY <1>1, <2>1
    <3> QED  BY <1>1, <1>3, <3>1, <3>2, PlainAppended
  <2>2. CASE ~ n < i
    <3>1. n = i
      BY <1>1, <1>6, <2>2
    <3>2. Len(L) + 1 \in 1..Len(M) /\ M[Len(L) + 1] = Normal(c, n)
      BY <1>4, <3>1
    <3> QED  BY <3>2 DEF Plain
  <2> QED  BY <2>1, <2>2
<1>7. Block(c, M, Bk(c, i), i + 1, st)
  BY <1>2, <1>6 DEF Block, Translated
<1>8. NotGrown(c, M, i + 1)
  <2> SUFFICES ASSUME NEW n \in 1..c.n, NEW m \in 1..c.n, i < n, n <= m, m <= i + 1
               PROVE  c.depth[m] <= c.depth[n]
    BY <1>1, <1>4 DEF NotGrown
  <2>1. n = m /\ c.depth[m] \in Nat
    BY <1>1, CodedAt
  <2> QED  BY <2>1
<1> QED  BY <1>7, <1>8

LEMMA NotGrownSkipped ==
  ASSUME NEW c, Context(c), NEW L, NEW i \in 1..c.n, NotGrown(c, L, i), Quiet(c, i)
  PROVE  /\ i + 1 <= c.n /\ c.depth[i + 1] = c.depth[i] - Popped(Op(c, i))
         /\ NotGrown(c, L, i + 1)
<1>1. c.n \in Nat /\ i \in Nat /\ c.depth[i] \in Nat /\ Popped(Op(c, i)) \in 0..2
  BY CodedAt
<1>2. /\ Op(c, i) \in {"pop", "br", "switch", "beq"} \cup Tests
      /\ Op(c, i) # "pop" => AwayOf(c, i) = {}
  BY DEF Quiet
<1>3. After(c, i) = c.depth[i] - Popped(Op(c, i))
  BY <1>1, <1>2 DEF After, Pushed, Tests
<1>4. i + 1 <= c.n /\ c.depth[i + 1] = After(c, i)
  <2>1. CASE Op(c, i) = "br"
    <3>2. To(c, i)[1] \in Range(To(c, i)) /\ To(c, i)[1] \in 1..c.n
      BY <2>1, OneTarget DEF BranchTarget
    <3>3. To(c, i)[1] = i + 1
      BY <1>2, <2>1, <3>2 DEF AwayOf
    <3>4. c.depth[To(c, i)[1]] = After(c, i)
      BY <3>2 DEF Context, Stacked
    <3> QED  BY <1>1, <3>2, <3>3, <3>4
  <2>2. CASE Op(c, i) # "br"
    <3>1. FallsThrough(c, i)
      BY <1>2, <2>2 DEF FallsThrough, Stops, StaticBranch, Tests
    <3> QED  BY <3>1 DEF Context, Stacked
  <2> QED  BY <2>1, <2>2
<1>5. NotGrown(c, L, i + 1)
  <2> SUFFICES ASSUME L # <<>>, L[Len(L)].op = "new", NEW n \in 1..c.n, NEW m \in 1..c.n,
                      L[Len(L)].at < n, n <= m, m <= i + 1
               PROVE  c.depth[m] <= c.depth[n]
    BY DEF NotGrown
  <2>1. c.depth[n] \in Nat /\ c.depth[m] \in Nat
    BY CodedAt
  <2>2. CASE m <= i
    BY <2>2 DEF NotGrown
  <2>3. CASE ~ m <= i /\ n = m
    BY <2>1, <2>3
  <2>4. CASE ~ m <= i /\ n # m
    <3>1. m = i + 1 /\ n <= i
      BY <1>1, <2>4
    <3>2. c.depth[i] <= c.depth[n]
      BY <1>1, <3>1 DEF NotGrown
    <3> QED  BY <1>1, <1>3, <1>4, <2>1, <3>1, <3>2
  <2> QED  BY <2>2, <2>3, <2>4
<1> QED  BY <1>3, <1>4, <1>5

LEMMA FrontIs ==
  ASSUME NEW T, NEW s \in Seq(T), s # <<>>
  PROVE  /\ Front(s) \in Seq(T) /\ Len(Front(s)) = Len(s) - 1 /\ Len(s) \in Nat /\ Len(s) > 0
         /\ \A k \in 1..(Len(s) - 1) : Front(s)[k] = s[k] /\ k \in 1..Len(s)
<1> PICK n : n = Len(s)
  OBVIOUS
<1>1. n \in Nat /\ n > 0 /\ \A k \in 1..n : s[k] \in T
  BY ElementOfSeq
<1>2. Front(s) = SubSeq(s, 1, n - 1) /\ n - 1 \in 0..n
  BY <1>1 DEF Front
<1>3. Front(s) \in Seq(T) /\ Len(Front(s)) = n - 1
  BY <1>1, <1>2
<1>4. \A k \in 1..(n - 1) : Front(s)[k] = s[k] /\ k \in 1..n
  BY <1>1, <1>2
<1> QED  BY <1>1, <1>3, <1>4

LEMMA SoundFront ==
  ASSUME NEW c, Context(c), NEW L, NEW b, NEW u \in Nat, Sound(c, L, b, u), L # <<>>,
         L[Len(L)] # InitIr
  PROVE  Sound(c, Front(L), b, u)
<1> PICK F : F = Front(L)
  OBVIOUS
<1>1. L \in Seq(Irs(c))
  BY DEF Sound
<1>2. /\ F \in Seq(Irs(c)) /\ Len(F) = Len(L) - 1 /\ Len(L) \in Nat /\ Len(L) > 0
      /\ \A k \in 1..(Len(L) - 1) : F[k] = L[k] /\ k \in 1..Len(L)
  BY <1>1, FrontIs
<1>3. \A k \in 1..Len(F) : F[k] = L[k] /\ k \in 1..Len(L)
  BY <1>2
<1>4. ASSUME NEW k \in 1..Len(F), NEW l \in 1..Len(F), k < l PROVE F[k].at < F[l].at
  <2>1. F[k] = L[k] /\ k \in 1..Len(L) /\ F[l] = L[l] /\ l \in 1..Len(L)
    BY <1>3
  <2> QED  BY <1>4, <2>1 DEF Sound
<1>5. ASSUME NEW k \in 1..Len(F)
      PROVE  \/ k = 1 /\ F[k] = InitIr /\ b = c.first /\ c.init
             \/ /\ F[k].at \in 1..c.n /\ F[k].at < u /\ Bk(c, F[k].at) = b
                /\ Range(F[k].to) \subseteq c.splits
                /\ F[k] \in {Normal(c, F[k].at), Folded(c, F[k].at)}
  <2>1. F[k] = L[k] /\ k \in 1..Len(L)
    BY <1>3
  <2> QED  BY <2>1 DEF Sound
<1>6. b = c.first /\ c.init => F # <<>> /\ F[1] = InitIr
  <2> SUFFICES ASSUME b = c.first, c.init PROVE F # <<>> /\ F[1] = InitIr
    OBVIOUS
  <2>1. L[1] = InitIr
    BY DEF Sound
  <2>2. Len(L) # 1
    BY <2>1
  <2>3. Len(F) # 0 /\ 1 \in 1..Len(F)
    BY <1>2, <2>2
  <2> QED  BY <1>3, <2>1, <2>3
<1>7. Sound(c, F, b, u)
  BY <1>2, <1>4, <1>5, <1>6 DEF Sound
<1> QED  BY <1>7

\* A branch is folded on the object on top of the stack.
LEMMA BlockFolded ==
  ASSUME NEW c, Context(c), NEW L, NEW i \in 1..c.n, NEW st \in BOOLEAN, NEW st1 \in BOOLEAN,
         Block(c, L, Bk(c, i), i, st), NotGrown(c, L, i), L # <<>>, L[Len(L)].op = "new",
         Op(c, i) \in Tests, AwayOf(c, i) # {},
         st => st1, ~ st1 => c.depth[i] = c.depth[L[Len(L)].at] + 1,
         NEW M, M = IF Op(c, i) = "brtrue" THEN Append(Front(L), Folded(c, i)) ELSE Front(L)
  PROVE  Block(c, M, Bk(c, i), i + 1, st1)
<1> PICK j : j = L[Len(L)].at
  OBVIOUS
<1> PICK F : F = Front(L)
  OBVIOUS
<1>0. Sound(c, L, Bk(c, i), i)
  BY DEF Block
<1>1. c.n \in Nat /\ i \in Nat /\ i \in 1..c.n
  BY CodedAt
<1>2. /\ L \in Seq(Irs(c)) /\ F \in Seq(Irs(c)) /\ Len(F) = Len(L) - 1 /\ Len(L) \in Nat /\ Len(L) > 0
      /\ \A k \in 1..(Len(L) - 1) : F[k] = L[k] /\ k \in 1..Len(L)
  BY <1>0, FrontIs DEF Sound
<1>3. \A k \in 1..Len(F) : F[k] = L[k] /\ k \in 1..Len(L) /\ k < Len(L)
  BY <1>2
<1>4. L[Len(L)] # InitIr /\ Len(L) \in 1..Len(L)
  BY <1>2 DEF InitIr
<1>5. j \in 1..c.n /\ j < i /\ Bk(c, j) = Bk(c, i) /\ L[Len(L)] = Normal(c, j) /\ Op(c, j) = "new"
  <2>1. /\ j \in 1..c.n /\ j < i /\ Bk(c, j) = Bk(c, i)
        /\ L[Len(L)] \in {Normal(c, j), Folded(c, j)}
    BY <1>0, <1>4 DEF Sound
  <2> QED  BY <2>1 DEF Normal, Folded
<1>6. Range(To(c, i)) \subseteq c.splits /\ i + 1 \in c.blocks
  BY DEF Context, Split, Ends
<1>7. Sound(c, F, Bk(c, i), i)
  BY <1>0, <1>1, <1>4, SoundFront
<1>8. Sound(c, M, Bk(c, i), i + 1)
  <2>1. CASE Op(c, i) = "brtrue"
    BY <1>6, <1>7, <2>1, SoundAppended
  <2>2. CASE Op(c, i) # "brtrue"
    <3>1. \A k \in 1..Len(F) : F[k].at \in 1..c.n /\ F[k].at < i => F[k].at < i + 1
      BY <1>1
    <3> QED  BY <1>7, <2>2, <3>1 DEF Sound
  <2> QED  BY <2>1, <2>2
<1>9. \A k \in 1..Len(F) : F[k].at < j
  BY <1>0, <1>3, <1>4 DEF Sound
<1>10. ASSUME NEW k \in 1..Len(L) PROVE L[k].at <= j /\ L[k].at \in Nat
  <2>1. L[k].at \in Nat /\ j \in Nat
    BY <1>0, <1>1, <1>4, SoundAt
  <2>2. k < Len(L) => L[k].at < j
    BY <1>0, <1>4 DEF Sound
  <2>3. k < Len(L) \/ k = Len(L)
    BY <1>2
  <2> QED  BY <2>1, <2>2, <2>3
<1>11. ASSUME NEW n \in 1..c.n, Emitted(M, n) PROVE (n < j \/ n = i) /\ (n = i => Op(c, i) = "brtrue")
  <2>1. PICK k \in 1..Len(M) : M[k].at = n
    BY <1>11 DEF Emitted
  <2>2. CASE Op(c, i) = "brtrue"
    <3>1. Folded(c, i) \in Irs(c) /\ Folded(c, i).at = i
      <4>1. c.n \in Nat /\ i \in 0..c.n /\ To(c, i) \in Seq(1..c.n)
        BY CodedAt
      <4>2. "br" \in Ops /\ 0 \in Nat
        BY DEF Ops, BranchTarget
      <4> QED  BY <4>1, <4>2 DEF Folded, Irs
    <3>2. /\ Len(M) = Len(F) + 1 /\ \A q \in 1..Len(F) : M[q] = F[q]
          /\ M[Len(F) + 1] = Folded(c, i)
      BY <1>2, <2>2, <3>1, AppendIs
    <3>3. k \in 1..Len(F) \/ k = Len(F) + 1
      BY <1>2, <3>2
    <3> QED  BY <1>9, <2>1, <2>2, <3>1, <3>2, <3>3
  <2>3. CASE Op(c, i) # "brtrue"
    <3>1. n < j
      BY <1>9, <2>1, <2>3
    <3> QED  BY <1>1, <1>5, <3>1
  <2> QED  BY <2>2, <2>3
<1>12. ASSUME NEW n \in 1..c.n, ~ Emitted(L, n), n # i PROVE ~ Emitted(M, n)
  <2>1. Emitted(M, n) => \E k \in 1..Len(F) : F[k].at = n
    <3> SUFFICES ASSUME NEW k \in 1..Len(M), M[k].at = n PROVE \E q \in 1..Len(F) : F[q].at = n
      BY DEF Emitted
    <3>1. CASE Op(c, i) = "brtrue"
      <4>1. Folded(c, i) \in Irs(c) /\ Folded(c, i).at = i
        <5>1. c.n \in Nat /\ i \in 0..c.n /\ To(c, i) \in Seq(1..c.n)
          BY CodedAt
        <5>2. "br" \in Ops /\ 0 \in Nat
          BY DEF Ops, BranchTarget
        <5> QED  BY <5>1, <5>2 DEF Folded, Irs
      <4>2. /\ Len(M) = Len(F) + 1 /\ \A q \in 1..Len(F) : M[q] = F[q]
            /\ M[Len(F) + 1] = Folded(c, i)
        BY <1>2, <3>1, <4>1, AppendIs
      <4>3. k \in 1..Len(F) \/ k = Len(F) + 1
        BY <1>2, <4>2
      <4> QED  BY <1>12, <4>1, <4>2, <4>3
    <3>2. CASE Op(c, i) # "brtrue"
      BY <3>2
    <3> QED  BY <3>1, <3>2
  <2> QED  BY <1>3, <1>12, <2>1 DEF Emitted
<1>13. ASSUME ~ st1 PROVE Window(c, M, j, i)
  <2>0. c.depth[i] = c.depth[j] + 1 /\ c.depth[i] \in Nat /\ c.depth[j] \in Nat /\ ~ st
    BY <1>5, <1>13, CodedAt
  <2>1. j + 1 \in 1..c.n /\ c.depth[j + 1] = c.depth[j] + 1
    <3>1. FallsThrough(c, j) /\ After(c, j) = c.depth[j] + 1
      BY <1>5, <2>0 DEF FallsThrough, After, Pushed, Popped, Stops, StaticBranch
    <3>2. j + 1 <= c.n /\ c.depth[j + 1] = After(c, j)
      BY <1>5, <3>1 DEF Context, Stacked
    <3> QED  BY <1>1, <1>5, <3>1, <3>2
  <2>2. ASSUME NEW n \in (j + 1)..i PROVE n \in 1..c.n /\ j < n /\ c.depth[n] = c.depth[j] + 1
    <3>1. n \in 1..c.n /\ j < n /\ n <= i /\ j + 1 <= n /\ j < j + 1 /\ i <= i
      BY <1>1, <1>5
    <3>2. c.depth[n] \in Nat
      BY <3>1, CodedAt
    <3>3. c.depth[i] <= c.depth[n] /\ c.depth[n] <= c.depth[j + 1]
      BY <1>1, <2>1, <3>1 DEF NotGrown
    <3> QED  BY <2>0, <2>1, <3>1, <3>2, <3>3
  <2>3. ASSUME NEW n \in (j + 1)..(i - 1) PROVE Op(c, n) = "br" /\ AwayOf(c, n) = {} /\ ~ Emitted(M, n)
    <3>1. n \in (j + 1)..i /\ n + 1 \in (j + 1)..i /\ n < i /\ j < n
      BY <1>1, <1>5
    <3>2. n \in 1..c.n /\ c.depth[n] = c.depth[j] + 1 /\ c.depth[n + 1] = c.depth[j] + 1
      BY <2>2, <3>1
    <3>3. Bk(c, n) = Bk(c, i)
      <4>1. j \in 0..(c.n + 1) /\ n \in 0..(c.n + 1) /\ i \in 0..(c.n + 1) /\ j <= n /\ n <= i
        BY <1>1, <1>5, <3>1
      <4> QED  BY <1>5, <4>1, BkBetween
    <3>4. Plain(c, L, n)
      BY <2>0, <3>1, <3>2, <3>3, PlainSoFar
    <3>5. ~ Emitted(L, n)
      BY <1>1, <1>5, <1>10, <3>1 DEF Emitted
    <3>6. ASSUME NEW k \in 1..Len(L), L[k] = Normal(c, n) PROVE FALSE
      <4>1. L[k].at = n
        BY <3>6 DEF Normal
      <4> QED  BY <3>5, <4>1 DEF Emitted
    <3>7. Quiet(c, n)
      BY <3>4, <3>6 DEF Plain
    <3>8. ~ Emitted(M, n)
      BY <1>1, <1>12, <3>1, <3>2, <3>5
    <3>9. Op(c, n) = "br"
      <4> SUFFICES ASSUME Op(c, n) # "br" PROVE FALSE
        OBVIOUS
      <4>1. FallsThrough(c, n) /\ Pushed(Op(c, n)) = 0 /\ Popped(Op(c, n)) \in {1, 2} /\ Op(c, n) # "leave"
        BY <3>7 DEF Quiet, Tests, FallsThrough, Stops, StaticBranch, Pushed, Popped
      <4>2. c.depth[n + 1] = c.depth[n] - Popped(Op(c, n)) + Pushed(Op(c, n))
        BY <3>2, <4>1 DEF Context, Stacked, After
      <4> QED  BY <2>0, <3>2, <4>1, <4>2
    <3> QED  BY <3>7, <3>8, <3>9 DEF Quiet
  <2>4. ~ Emitted(M, j)
    BY <1>1, <1>5, <1>11
  <2>5. \A n \in j..(i - 1) : ~ Emitted(M, n)
    <3> SUFFICES ASSUME NEW n \in j..(i - 1) PROVE ~ Emitted(M, n)
      OBVIOUS
    <3>1. n = j \/ n \in (j + 1)..(i - 1)
      BY <1>1, <1>5
    <3> QED  BY <2>3, <2>4, <3>1
  <2>6. Op(c, i) = "brfalse" => ~ Emitted(M, i)
    BY <1>11
  <2>7. Op(c, i) = "brtrue" => \E k \in 1..Len(M) : M[k] = Folded(c, i)
    <3> SUFFICES ASSUME Op(c, i) = "brtrue" PROVE \E k \in 1..Len(M) : M[k] = Folded(c, i)
      OBVIOUS
    <3>1. Len(M) = Len(F) + 1 /\ M[Len(F) + 1] = Folded(c, i) /\ Len(F) \in Nat
      BY <1>2
    <3>2. Len(F) + 1 \in 1..Len(M)
      BY <3>1
    <3> QED  BY <3>1, <3>2
  <2> QED  BY <1>5, <2>2, <2>3, <2>5, <2>6, <2>7 DEF Window
<1>14. ASSUME ~ st1, NEW n \in 1..c.n, Bk(c, n) = Bk(c, i), n < i + 1
       PROVE  Translated(c, M, i + 1, n)
  <2>1. CASE n = j
    <3>1. i < i + 1
      BY <1>1
    <3> QED  BY <1>13, <1>14, <2>1, <3>1 DEF Translated
  <2>2. CASE n = i
    BY <1>5, <1>13, <1>14, <2>2 DEF Translated
  <2>3. CASE n # i /\ n # j
    <3>0. n < i
      BY <1>1, <1>14, <2>3
    <3>1. Plain(c, L, n)
      BY <1>14, <3>0, PlainSoFar
    <3>2. CASE ~ Emitted(L, n) /\ Quiet(c, n)
      BY <1>12, <2>3, <3>2 DEF Translated, Plain
    <3>3. CASE \E k \in 1..Len(L) : L[k] = Normal(c, n)
      <4>1. PICK k \in 1..Len(L) : L[k] = Normal(c, n)
        BY <3>3
      <4>2. L[k].at = n
        BY <4>1 DEF Normal
      <4>3. k # Len(L)
        BY <2>3, <4>2
      <4>4. k \in 1..Len(F)
        BY <1>2, <4>3
      <4>5. k \in 1..Len(M) /\ M[k] = F[k]
        <5>1. CASE Op(c, i) = "brtrue"
          BY <1>2, <4>4, <5>1
        <5>2. CASE Op(c, i) # "brtrue"
          BY <4>4, <5>2
        <5> QED  BY <5>1, <5>2
      <4>6. M[k] = Normal(c, n)
        BY <1>3, <4>1, <4>4, <4>5
      <4> QED  BY <4>5, <4>6 DEF Translated, Plain
    <3> QED  BY <3>1, <3>2, <3>3 DEF Plain
  <2> QED  BY <2>1, <2>2, <2>3
<1> QED  BY <1>8, <1>14 DEF Block

-----------------------------------------------------------------------------
(* The loop                                                                *)

Looping == phase \in {"clauses", "flow"}
Middle(c) == phase = "flow" /\ Bk(c, ip) = lastBb
Upto(c, b) == IF b \notin visited THEN 0
              ELSE IF Middle(c) /\ b = lastBb THEN ip ELSE c.n + 1

\* A stack of the depth of position n; whoever pushed a value had it on top.
StackOk(c, n, s) ==
  /\ s \in Seq(0..c.n) /\ Len(s) = c.depth[n]
  /\ \A p \in 1..Len(s) : s[p] # 0 => c.depth[s[p]] + 1 = p

FlowRecords(c) == [offset : 1..c.n, stack : Seq(0..c.n)]
FlowOk(c, f) == f \in FlowRecords(c) /\ f.offset \in c.splits /\ StackOk(c, f.offset, f.stack)

Pending(c) ==
  /\ pending \in Seq(FlowRecords(c)) /\ nextFlow \in Nat
  /\ 1 <= nextFlow /\ nextFlow <= Len(pending) + 1
  /\ \A k \in 1..Len(pending) : FlowOk(c, pending[k])
  /\ inPending \subseteq c.blocks /\ visited \subseteq c.blocks

\* The block of the next instruction begins there or is being translated.
Position(c) ==
  /\ ip \in 1..c.n /\ StackOk(c, ip, stack)
  /\ Bk(c, ip) \in {ip, lastBb} /\ lastBb \in visited
  /\ Middle(c) => NotGrown(c, insts[lastBb], ip)

Translation(c) ==
  /\ stale \in BOOLEAN
  /\ insts \in [c.blocks -> Seq(Irs(c))]
  /\ \A b \in c.blocks : Block(c, insts[b], b, Upto(c, b), stale)

\* Whatever control can reach from what is translated is translated or will be.
Waits(c, flows, from, b) == \E k \in from..Len(flows) : Bk(c, flows[k].offset) = b
Known(c, b) == b \in visited \/ (Looping /\ (Waits(c, pending, nextFlow, b) \/ Bk(c, ip) = b))
Succ(c, n) == Range(To(c, n)) \cup (IF FallsThrough(c, n) THEN {n + 1} ELSE {})

Coverage(c) ==
  /\ Known(c, 1)
  /\ \A b \in inPending : Known(c, b)
  /\ \A n \in 1..c.n : Bk(c, n) \in visited /\ n < Upto(c, Bk(c, n)) =>
       \A t \in Succ(c, n) : Known(c, Bk(c, t))
  /\ \A k \in 1..Len(exClauses) :
       /\ Known(c, c.clauses[k].handler)
       /\ c.clauses[k].flags = "filter" => Known(c, c.clauses[k].filter)

LEMMA CtxSame ==
  ASSUME program' = program, splits' = splits
  PROVE  Ctx' = Ctx
BY DEF Ctx, Depth, Body, Blocks, End, Prologue

LEMMA CtxIs ==
  ASSUME NEW c, c = Ctx
  PROVE  /\ c.code = Body /\ c.n = Len(Body) /\ c.init = program.init /\ c.clauses = program.clauses
         /\ c.splits = splits /\ c.blocks = Blocks /\ c.first = Prologue /\ End = c.n + 1
         /\ \A o : BlockOf(o) = Bk(c, o)
         /\ \A n : Away(n) = AwayOf(c, n) /\ Body[n].op = Op(c, n) /\ Body[n].to = To(c, n)
BY DEF Ctx, Bk, BlockOf, Op, To, Away, AwayOf, End

LEMMA Popping ==
  ASSUME NEW c, c = Ctx, Context(c), phase = "flow", PopBranch,
         pending' \in Seq(FlowRecords(c)), nextFlow \in Nat, 1 <= nextFlow, nextFlow <= Len(pending') + 1
  PROVE  \/ /\ phase' = "relocate" /\ UNCHANGED <<ip, stack, nextFlow>>
            /\ \A k \in nextFlow..Len(pending') : Bk(c, pending'[k].offset) \in visited'
         \/ \E m \in nextFlow..Len(pending') :
              /\ ip' = pending'[m].offset /\ stack' = pending'[m].stack /\ nextFlow' = m + 1
              /\ phase' = "flow" /\ Bk(c, pending'[m].offset) \notin visited'
              /\ \A k \in nextFlow..(m - 1) : Bk(c, pending'[k].offset) \in visited'
<1> PICK open : open = {i \in nextFlow..Len(pending') : BlockOf(pending'[i].offset) \notin visited'}
  OBVIOUS
<1>1. \A o : BlockOf(o) = Bk(c, o)
  BY CtxIs
<1>2. Len(pending') \in Nat
  OBVIOUS
<1>3. CASE open = {}
  <2>1. phase' = "relocate" /\ UNCHANGED <<ip, stack, nextFlow>>
    BY <1>3 DEF PopBranch
  <2> QED  BY <1>1, <1>3, <2>1
<1>4. CASE open # {}
  <2> PICK m : m = Min(open)
    OBVIOUS
  <2>1. ip' = pending'[m].offset /\ stack' = pending'[m].stack /\ nextFlow' = m + 1 /\ phase' = "flow"
    BY <1>4 DEF PopBranch
  <2>2. m \in open /\ \A j \in open : m <= j
    <3>1. open \subseteq Nat
      BY <1>2
    <3> QED  BY <1>4, <3>1, MinIs
  <2>3. ASSUME NEW k \in nextFlow..(m - 1) PROVE Bk(c, pending'[k].offset) \in visited'
    <3>1. k \in nextFlow..Len(pending') /\ ~ m <= k
      BY <1>2, <2>2
    <3> QED  BY <1>1, <2>2, <3>1
  <2>4. m \in nextFlow..Len(pending') /\ Bk(c, pending'[m].offset) \notin visited'
    BY <1>1, <2>2
  <2> QED  BY <2>1, <2>3, <2>4
<1> QED  BY <1>3, <1>4

\* Taking the next flow loses no block.
LEMMA PoppingKnown ==
  ASSUME NEW c, c = Ctx, Context(c), phase = "flow", PopBranch,
         pending' \in Seq(FlowRecords(c)), nextFlow \in Nat, 1 <= nextFlow, nextFlow <= Len(pending') + 1,
         NEW b, b \in visited' \/ Waits(c, pending', nextFlow, b)
  PROVE  Known(c, b)'
<1> SUFFICES ASSUME b \notin visited' PROVE Looping' /\ (Waits(c, pending', nextFlow', b) \/ Bk(c, ip') = b)
  BY DEF Known
<1>1. PICK k \in nextFlow..Len(pending') : Bk(c, pending'[k].offset) = b
  BY DEF Waits
<1>2. PICK m \in nextFlow..Len(pending') :
              /\ ip' = pending'[m].offset /\ nextFlow' = m + 1
              /\ phase' = "flow"
              /\ \A q \in nextFlow..(m - 1) : Bk(c, pending'[q].offset) \in visited'
  BY <1>1, Popping
<1>3. k = m \/ k \in (m + 1)..Len(pending')
  <2>1. k \notin nextFlow..(m - 1)
    BY <1>1, <1>2
  <2>2. Len(pending') \in Nat
    OBVIOUS
  <2> QED  BY <2>1, <2>2
<1> QED  BY <1>1, <1>2, <1>3 DEF Looping, Waits

\* The place the next flow begins at.
LEMMA PoppingPosition ==
  ASSUME NEW c, c = Ctx, Context(c), phase = "flow", PopBranch,
         pending' \in Seq(FlowRecords(c)), nextFlow \in Nat, 1 <= nextFlow, nextFlow <= Len(pending') + 1,
         \A k \in 1..Len(pending') : FlowOk(c, pending'[k]), lastBb' \in visited',
         ip \in 1..c.n, stack \in Seq(0..c.n)
  PROVE  /\ phase' \in {"flow", "relocate"} /\ ip' \in 1..c.n /\ stack' \in Seq(0..c.n)
         /\ phase' = "flow" => Position(c)' /\ Bk(c, ip') \notin visited'
         /\ nextFlow' \in Nat /\ 1 <= nextFlow' /\ nextFlow' <= Len(pending') + 1
<1>1. CASE phase' = "relocate"
  <2>1. UNCHANGED <<ip, stack, nextFlow>>
    BY <1>1, Popping
  <2> QED  BY <1>1, <2>1
<1>2. CASE phase' # "relocate"
  <2>1. PICK m \in nextFlow..Len(pending') :
              /\ ip' = pending'[m].offset /\ stack' = pending'[m].stack /\ nextFlow' = m + 1
              /\ phase' = "flow" /\ Bk(c, pending'[m].offset) \notin visited'
    BY <1>2, Popping
  <2>2. m \in 1..Len(pending') /\ Len(pending') \in Nat
    OBVIOUS
  <2>3. FlowOk(c, pending'[m])
    BY <2>2
  <2>4. /\ ip' \in 1..c.n /\ ip' \in c.splits /\ stack' \in Seq(0..c.n) /\ StackOk(c, ip', stack')
    BY <2>1, <2>3 DEF FlowOk, FlowRecords
  <2>5. ip' \in c.blocks /\ Bk(c, ip') = ip'
    BY <2>4, BkBlock DEF Context, Split
  <2>6. Position(c)'
    BY <2>1, <2>4, <2>5 DEF Position, Middle
  <2> QED  BY <2>1, <2>2, <2>4, <2>6
<1> QED  BY <1>1, <1>2

\* One instruction: L becomes the IR of its block, flows are added, and control
\* goes to the next instruction or the next flow.
Step(c, L) ==
  /\ Bk(c, ip) = lastBb \/ Bk(c, ip) \notin visited
  /\ lastBb' = Bk(c, ip) /\ visited' = visited \cup {Bk(c, ip)}
  /\ insts' = [insts EXCEPT ![Bk(c, ip)] = L]
  /\ stale' \in BOOLEAN /\ (stale => stale') /\ Block(c, L, Bk(c, ip), ip + 1, stale')
  /\ pending' \in Seq(FlowRecords(c)) /\ Len(pending) <= Len(pending')
  /\ \A k \in 1..Len(pending) : pending'[k] = pending[k]
  /\ \A k \in 1..Len(pending') : FlowOk(c, pending'[k])
  /\ inPending' \subseteq c.blocks
  /\ \A b \in inPending' : b \in inPending \/ Waits(c, pending', Len(pending) + 1, b)
  /\ exClauses' = exClauses
  /\ \/ /\ ip' = ip + 1 /\ ip + 1 <= c.n /\ StackOk(c, ip + 1, stack')
        /\ phase' = "flow" /\ nextFlow' = nextFlow
        /\ ip + 1 \notin c.blocks => NotGrown(c, L, ip + 1)
        /\ \A t \in Succ(c, ip) : t = ip + 1 \/ Bk(c, t) \in inPending'
     \/ /\ PopBranch /\ ip + 1 \in c.blocks
        /\ \A t \in Succ(c, ip) : Bk(c, t) \in inPending'

LEMMA StepPending ==
  ASSUME NEW c, c = Ctx, Context(c), phase = "flow", Pending(c), Position(c), Translation(c),
         NEW L, Step(c, L)
  PROVE  /\ Pending(c)'
         /\ phase' \in {"flow", "relocate"} /\ ip' \in 1..c.n /\ stack' \in Seq(0..c.n)
         /\ phase' = "flow" /\ PopBranch => Bk(c, ip') \notin visited'
         /\ phase' = "flow" => Position(c)'
<1>1. c.n \in Nat /\ ip \in 1..c.n /\ stack \in Seq(0..c.n) /\ ip \in 0..(c.n + 1)
  BY DEF Context, Coded, Position, StackOk
<1>2. Bk(c, ip) \in c.blocks /\ visited' \subseteq c.blocks /\ lastBb' \in visited'
  BY <1>1, BkIs DEF Step, Pending
<1>3. nextFlow \in Nat /\ 1 <= nextFlow /\ nextFlow <= Len(pending') + 1
  <2>1. Len(pending) \in Nat /\ Len(pending') \in Nat /\ Len(pending) <= Len(pending')
    BY DEF Pending, Step
  <2> QED  BY <2>1 DEF Pending
<1>4. CASE PopBranch
  <2>1. /\ phase' \in {"flow", "relocate"} /\ ip' \in 1..c.n /\ stack' \in Seq(0..c.n)
        /\ phase' = "flow" => Position(c)' /\ Bk(c, ip') \notin visited'
        /\ nextFlow' \in Nat /\ 1 <= nextFlow' /\ nextFlow' <= Len(pending') + 1
    BY <1>1, <1>2, <1>3, <1>4, PoppingPosition DEF Step
  <2>2. Pending(c)'
    BY <1>2, <2>1 DEF Pending, Step
  <2> QED  BY <2>1, <2>2
<1>5. CASE ~ PopBranch
  <2>1. /\ ip' = ip + 1 /\ ip + 1 <= c.n /\ StackOk(c, ip + 1, stack')
        /\ phase' = "flow" /\ nextFlow' = nextFlow
        /\ ip + 1 \notin c.blocks => NotGrown(c, L, ip + 1)
    BY <1>5 DEF Step
  <2>2. Pending(c)'
    BY <1>2, <1>3, <2>1 DEF Pending, Step
  <2>3. ip' \in 1..c.n /\ stack' \in Seq(0..c.n)
    BY <1>1, <2>1 DEF StackOk
  <2>4. Bk(c, ip') \in {ip', lastBb'}
    <3>1. ip \in 0..c.n
      BY <1>1
    <3> QED  BY <2>1, <3>1, BkNext DEF Step
  <2>5. ip' \in c.blocks => Bk(c, ip') # lastBb'
    <3>1. Bk(c, ip) <= ip /\ Bk(c, ip) \in Nat
      BY <1>1, BkIs
    <3> QED  BY <1>1, <2>1, <3>1, BkBlock DEF Step
  <2>6. insts'[lastBb'] = L
    BY <1>2 DEF Step, Translation
  <2>7. Middle(c)' => NotGrown(c, insts[lastBb], ip)'
    BY <2>1, <2>5, <2>6 DEF Middle
  <2>8. Position(c)'
    BY <1>2, <2>1, <2>3, <2>4, <2>7 DEF Position
  <2> QED  BY <1>5, <2>1, <2>2, <2>3, <2>8
<1> QED  BY <1>4, <1>5

LEMMA StepTranslation ==
  ASSUME NEW c, c = Ctx, Context(c), phase = "flow", Pending(c), Position(c), Translation(c),
         NEW L, Step(c, L)
  PROVE  Translation(c)'
<1>1. c.n \in Nat /\ ip \in 1..c.n /\ ip \in 0..c.n
  BY DEF Context, Coded, Position
<1> PICK h : h = Bk(c, ip)
  OBVIOUS
<1>2. h \in c.blocks /\ h <= ip /\ h \in Nat /\ visited' = visited \cup {h} /\ lastBb' = h
  BY <1>1, BkIs DEF Step
<1>3. /\ phase' \in {"flow", "relocate"}
      /\ phase' = "flow" /\ PopBranch => Bk(c, ip') \notin visited'
  BY StepPending
<1>4. insts' \in [c.blocks -> Seq(Irs(c))] /\ insts'[h] = L
  <2>1. L \in Seq(Irs(c))
    BY DEF Step, Block, Sound
  <2> QED  BY <1>2, <2>1 DEF Step, Translation
<1>5. Block(c, L, h, Upto(c, h)', stale')
  <2>1. Block(c, L, h, ip + 1, stale') /\ stale' \in BOOLEAN
    BY DEF Step
  <2>2. CASE ip + 1 \in c.blocks
    <3>1. Block(c, L, h, c.n + 1, stale')
      BY <1>1, <2>1, <2>2, BlockClosed
    <3>2. ~ Middle(c)'
      <4>1. CASE PopBranch
        BY <1>2, <1>3, <4>1 DEF Middle
      <4>2. CASE ~ PopBranch
        <5>1. ip' = ip + 1
          BY <4>2 DEF Step
        <5>2. Bk(c, ip') = ip + 1
          BY <2>2, <5>1, BkBlock
        <5> QED  BY <1>1, <1>2, <5>2 DEF Middle
      <4> QED  BY <4>1, <4>2
    <3>3. Upto(c, h)' = c.n + 1
      BY <1>2, <3>2 DEF Upto
    <3> QED  BY <3>1, <3>3
  <2>3. CASE ip + 1 \notin c.blocks
    <3>1. ip' = ip + 1 /\ phase' = "flow"
      BY <2>3 DEF Step
    <3>2. Bk(c, ip') = h
      BY <1>1, <2>3, <3>1, BkNext
    <3>3. Upto(c, h)' = ip + 1
      BY <1>2, <3>1, <3>2 DEF Upto, Middle
    <3> QED  BY <2>1, <3>3
  <2> QED  BY <2>2, <2>3
<1>6. ASSUME NEW b \in c.blocks, b # h
      PROVE  Block(c, insts'[b], b, Upto(c, b)', stale')
  <2>1. insts'[b] = insts[b]
    BY <1>6, <1>2 DEF Step, Translation
  <2>2. Upto(c, b)' = Upto(c, b)
    BY <1>2, <1>6 DEF Upto, Middle
  <2>3. Block(c, insts[b], b, Upto(c, b), stale)
    BY DEF Translation
  <2>4. Block(c, insts[b], b, Upto(c, b), stale')
    BY <2>3, BlockStale DEF Step, Translation
  <2> QED  BY <2>1, <2>2, <2>4
<1>7. \A b \in c.blocks : Block(c, insts'[b], b, Upto(c, b)', stale')
  BY <1>4, <1>5, <1>6
<1>8. stale' \in BOOLEAN
  BY DEF Step
<1> QED  BY <1>4, <1>7, <1>8 DEF Translation

LEMMA StepCoverage ==
  ASSUME NEW c, c = Ctx, Context(c), phase = "flow", Pending(c), Position(c), Translation(c), Coverage(c),
         NEW L, Step(c, L)
  PROVE  Coverage(c)'
<1>1. c.n \in Nat /\ ip \in 1..c.n /\ ip \in 0..c.n
  BY DEF Context, Coded, Position
<1> PICK h : h = Bk(c, ip)
  OBVIOUS
<1>2. h \in c.blocks /\ h <= ip /\ h \in Nat /\ visited' = visited \cup {h} /\ lastBb' = h
  BY <1>1, BkIs DEF Step
<1>3. /\ pending' \in Seq(FlowRecords(c)) /\ nextFlow \in Nat /\ 1 <= nextFlow
      /\ Len(pending) \in Nat /\ Len(pending') \in Nat /\ Len(pending) <= Len(pending')
      /\ nextFlow <= Len(pending) + 1 /\ nextFlow <= Len(pending') + 1
  <2>1. /\ pending' \in Seq(FlowRecords(c)) /\ nextFlow \in Nat /\ 1 <= nextFlow
        /\ Len(pending) \in Nat /\ Len(pending') \in Nat /\ Len(pending) <= Len(pending')
        /\ nextFlow <= Len(pending) + 1
    BY DEF Step, Pending
  <2> QED  BY <2>1
<1>4. ASSUME NEW b, b \in visited' \/ Waits(c, pending', nextFlow, b)
      PROVE  Known(c, b)'
  <2>1. CASE PopBranch
    BY <1>3, <1>4, <2>1, PoppingKnown
  <2>2. CASE ~ PopBranch
    BY <1>4, <2>2 DEF Known, Looping, Step
  <2> QED  BY <2>1, <2>2
<1>5. ASSUME NEW b, Known(c, b) PROVE Known(c, b)'
  <2>1. CASE b \in visited \/ Bk(c, ip) = b
    BY <1>2, <1>4, <2>1
  <2>2. CASE Waits(c, pending, nextFlow, b)
    <3>1. PICK k \in nextFlow..Len(pending) : Bk(c, pending[k].offset) = b
      BY <2>2 DEF Waits
    <3>2. k \in nextFlow..Len(pending') /\ k \in 1..Len(pending)
      BY <1>3
    <3>3. pending'[k] = pending[k]
      BY <3>2 DEF Step
    <3>4. Waits(c, pending', nextFlow, b)
      BY <3>1, <3>2, <3>3 DEF Waits
    <3> QED  BY <1>4, <3>4
  <2> QED  BY <1>5, <2>1, <2>2 DEF Known
<1>6. ASSUME NEW b \in inPending' PROVE Known(c, b)'
  <2>1. CASE b \in inPending
    BY <1>5, <2>1 DEF Coverage
  <2>2. CASE Waits(c, pending', Len(pending) + 1, b)
    <3>1. PICK k \in (Len(pending) + 1)..Len(pending') : Bk(c, pending'[k].offset) = b
      BY <2>2 DEF Waits
    <3>2. k \in nextFlow..Len(pending')
      BY <1>3
    <3>3. Waits(c, pending', nextFlow, b)
      BY <3>1, <3>2 DEF Waits
    <3> QED  BY <1>4, <3>3
  <2> QED  BY <2>1, <2>2 DEF Step
<1>7. ASSUME NEW n \in 1..c.n, Bk(c, n) \in visited', n < Upto(c, Bk(c, n))', NEW t \in Succ(c, n)
      PROVE  Known(c, Bk(c, t))'
  <2>1. CASE n = ip
    <3>1. \/ t = ip + 1 /\ ip' = ip + 1 /\ phase' = "flow"
          \/ Bk(c, t) \in inPending'
      BY <1>7, <2>1 DEF Step
    <3> QED  BY <1>6, <3>1 DEF Known, Looping
  <2>2. CASE n # ip /\ Bk(c, n) # h
    <3>1. Bk(c, n) \in visited /\ Upto(c, Bk(c, n)) = Upto(c, Bk(c, n))'
      BY <1>2, <1>7, <2>2 DEF Upto, Middle
    <3>2. Known(c, Bk(c, t))
      BY <1>7, <3>1 DEF Coverage
    <3> QED  BY <1>5, <3>2
  <2>3. CASE n < ip /\ Bk(c, n) = h
    <3>1. n \in 0..(c.n + 1) /\ ip \in 0..(c.n + 1) /\ n < ip /\ ip <= ip /\ n <= ip
      BY <1>1, <2>3
    <3>2. ip \notin c.blocks
      BY <2>3, <3>1, BkBetween
    <3>3. lastBb = h /\ h \in visited
      <4>1. Bk(c, ip) # ip
        BY <1>1, <1>2, <3>2
      <4> QED  BY <4>1 DEF Position
    <3>4. Upto(c, h) = ip
      BY <3>3 DEF Upto, Middle
    <3>5. Known(c, Bk(c, t))
      BY <2>3, <3>3, <3>4 DEF Coverage
    <3> QED  BY <1>5, <3>5
  <2>4. CASE ip < n /\ Bk(c, n) = h
    <3>1. ip \in 0..(c.n + 1) /\ n \in 0..(c.n + 1) /\ ip + 1 \in 0..(c.n + 1) /\ ip <= ip + 1 /\ ip < ip + 1 /\ ip + 1 <= n
      BY <1>1, <2>4
    <3>2. ip + 1 \notin c.blocks
      BY <2>4, <3>1, BkBetween
    <3>3. ip' = ip + 1 /\ phase' = "flow"
      BY <3>2 DEF Step
    <3>4. Bk(c, ip') = h
      BY <1>1, <3>2, <3>3, BkNext
    <3>5. Upto(c, h)' = ip + 1
      BY <1>2, <3>3, <3>4 DEF Upto, Middle
    <3>6. n < ip + 1
      BY <1>7, <2>4, <3>5
    <3> QED  BY <1>1, <2>4, <3>6
  <2>5. n = ip \/ n < ip \/ ip < n
    BY <1>1
  <2> QED  BY <2>1, <2>2, <2>3, <2>4, <2>5
<1>8. Known(c, 1)'
  BY <1>5 DEF Coverage
<1>9. ASSUME NEW k \in 1..Len(exClauses')
      PROVE  /\ Known(c, c.clauses[k].handler)'
             /\ c.clauses[k].flags = "filter" => Known(c, c.clauses[k].filter)'
  <2>1. k \in 1..Len(exClauses)
    BY DEF Step
  <2> QED  BY <1>5, <2>1 DEF Coverage
<1> QED  BY <1>6, <1>7, <1>8, <1>9 DEF Coverage

-----------------------------------------------------------------------------
(* The steps of the loop                                                   *)

Loop(c) ==
  /\ Pending(c) /\ Translation(c) /\ Coverage(c)
  /\ ip \in 1..c.n /\ stack \in Seq(0..c.n)
  /\ Looping => Position(c)

\* Control has run into a block that is there already.
LEMMA LoopReached ==
  ASSUME NEW c, c = Ctx, Context(c), Loop(c), ReachVisited
  PROVE  Loop(c)' /\ phase' \in {"flow", "relocate"}
<1>1. phase = "flow" /\ Position(c) /\ Pending(c) /\ Translation(c) /\ Coverage(c) /\ PopBranch
  BY DEF ReachVisited, Loop, Looping
<1>2. Bk(c, ip) # lastBb /\ Bk(c, ip) \in visited
  BY CtxIs DEF ReachVisited, Arrived
<1>3. /\ UNCHANGED <<pending, inPending, visited, lastBb, insts, stale>>
      /\ exClauses' = exClauses
  BY DEF ReachVisited, outside
<1>4. pending' \in Seq(FlowRecords(c)) /\ nextFlow \in Nat /\ 1 <= nextFlow /\ nextFlow <= Len(pending') + 1
  BY <1>1, <1>3 DEF Pending
<1>5. /\ phase' \in {"flow", "relocate"} /\ ip' \in 1..c.n /\ stack' \in Seq(0..c.n)
      /\ phase' = "flow" => Position(c)' /\ Bk(c, ip') \notin visited'
      /\ nextFlow' \in Nat /\ 1 <= nextFlow' /\ nextFlow' <= Len(pending') + 1
  <2>1. /\ \A k \in 1..Len(pending') : FlowOk(c, pending'[k])
        /\ lastBb' \in visited' /\ ip \in 1..c.n /\ stack \in Seq(0..c.n)
    BY <1>1, <1>3 DEF Pending, Position, Loop
  <2> QED  BY <1>1, <1>4, <2>1, PoppingPosition
<1>6. Pending(c)'
  BY <1>1, <1>3, <1>5 DEF Pending
<1>7. Translation(c)'
  <2>1. ~ Middle(c) /\ ~ Middle(c)'
    BY <1>1, <1>2, <1>3, <1>5 DEF Middle, Position
  <2>2. \A b \in c.blocks : Upto(c, b)' = Upto(c, b)
    BY <1>3, <2>1 DEF Upto
  <2> QED  BY <1>1, <1>3, <2>2 DEF Translation
<1>8. Coverage(c)'
  <2>1. ASSUME NEW b, Known(c, b) PROVE Known(c, b)'
    <3>1. b \in visited' \/ Waits(c, pending', nextFlow, b)
      BY <1>2, <1>3, <2>1 DEF Known
    <3> QED  BY <1>1, <1>4, <3>1, PoppingKnown
  <2>2. ~ Middle(c) /\ ~ Middle(c)'
    BY <1>1, <1>2, <1>3, <1>5 DEF Middle, Position
  <2>3. \A b : Upto(c, b)' = Upto(c, b)
    BY <1>3, <2>2 DEF Upto
  <2> QED  BY <1>1, <1>3, <2>1, <2>3 DEF Coverage
<1> QED  BY <1>5, <1>6, <1>7, <1>8 DEF Loop, Looping

LEMMA LoopStep ==
  ASSUME NEW c, c = Ctx, Context(c), Loop(c), phase = "flow", NEW L, Step(c, L)
  PROVE  Loop(c)' /\ phase' \in {"flow", "relocate"}
<1>1. Position(c) /\ Pending(c) /\ Translation(c) /\ Coverage(c)
  BY DEF Loop, Looping
<1>2. /\ Pending(c)'
      /\ phase' \in {"flow", "relocate"} /\ ip' \in 1..c.n /\ stack' \in Seq(0..c.n)
      /\ phase' = "flow" => Position(c)'
  BY <1>1, StepPending
<1>3. Translation(c)' /\ Coverage(c)'
  BY <1>1, StepTranslation, StepCoverage
<1> QED  BY <1>2, <1>3 DEF Loop, Looping

\* What every instruction of the loop finds.
LEMMA AtIs ==
  ASSUME NEW c, c = Ctx, Context(c), Loop(c), NEW ops, At(ops)
  PROVE  /\ phase = "flow" /\ ip \in 1..c.n /\ c.n \in Nat /\ Op(c, ip) \in ops
         /\ Body[ip].op = Op(c, ip) /\ Body[ip].to = To(c, ip) /\ Away(ip) = AwayOf(c, ip)
         /\ Here = Bk(c, ip) /\ Here \in c.blocks
         /\ Bk(c, ip) = lastBb \/ Bk(c, ip) \notin visited
         /\ StackOk(c, ip, stack) /\ Top = c.depth[ip] /\ c.depth[ip] \in Nat
         /\ insts \in [c.blocks -> Seq(Irs(c))] /\ stale \in BOOLEAN
         /\ Block(c, insts[Here], Here, ip, stale) /\ NotGrown(c, insts[Here], ip)
<1>1. phase = "flow" /\ Position(c) /\ Pending(c) /\ Translation(c)
  BY DEF At, Loop, Looping
<1>2. /\ ip \in 1..c.n /\ c.n \in Nat /\ Body[ip].op = Op(c, ip) /\ Body[ip].to = To(c, ip)
      /\ Away(ip) = AwayOf(c, ip) /\ Here = Bk(c, ip) /\ Op(c, ip) \in ops
  BY <1>1, CtxIs DEF Position, Context, Coded, Here, At
<1>3. Bk(c, ip) = lastBb \/ Bk(c, ip) \notin visited
  BY CtxIs DEF At, Arrived
<1>4. StackOk(c, ip, stack) /\ Top = c.depth[ip] /\ c.depth[ip] \in Nat
  BY <1>1, <1>2, CodedAt DEF Position, StackOk, Top
<1>5. Bk(c, ip) \in c.blocks
  <2>1. ip \in 0..(c.n + 1)
    BY <1>2
  <2> QED  BY <2>1, BkIs
<1>6. Block(c, insts[Here], Here, ip, stale) /\ NotGrown(c, insts[Here], ip)
  <2>1. Block(c, insts[Here], Here, Upto(c, Here), stale) /\ stale \in BOOLEAN
    BY <1>1, <1>2, <1>5 DEF Translation
  <2>2. CASE Bk(c, ip) = lastBb
    <3>1. Upto(c, Here) = ip /\ NotGrown(c, insts[Here], ip)
      BY <1>1, <1>2, <2>2 DEF Upto, Middle, Position
    <3> QED  BY <2>1, <3>1
  <2>3. CASE Bk(c, ip) # lastBb
    <3>1. Upto(c, Here) = 0 /\ Here = ip /\ ip \in c.blocks
      BY <1>1, <1>2, <1>3, <1>5, <2>3 DEF Upto, Position
    <3> QED  BY <1>2, <2>1, <3>1, BlockOpened
  <2> QED  BY <2>2, <2>3
<1> QED  BY <1>1, <1>2, <1>3, <1>4, <1>5, <1>6 DEF Translation

LEMMA SubSeqIs ==
  ASSUME NEW T, NEW s \in Seq(T), NEW m \in 0..Len(s)
  PROVE  /\ SubSeq(s, 1, m) \in Seq(T) /\ Len(SubSeq(s, 1, m)) = m
         /\ \A p \in 1..m : SubSeq(s, 1, m)[p] = s[p]
<1>1. \A p \in 1..Len(s) : s[p] \in T
  BY ElementOfSeq
<1>2. Len(s) \in Nat
  OBVIOUS
<1> QED  BY <1>1, <1>2

LEMMA PoppedOk ==
  ASSUME NEW c, Context(c), NEW i \in 1..c.n, NEW t \in 1..c.n, NEW s, StackOk(c, i, s),
         NEW k \in Nat, k <= c.depth[i], c.depth[t] = c.depth[i] - k
  PROVE  StackOk(c, t, SubSeq(s, 1, Len(s) - k))
<1> PICK T : T = 0..c.n
  OBVIOUS
<1> PICK m : m = Len(s) - k
  OBVIOUS
<1> PICK r : r = SubSeq(s, 1, m)
  OBVIOUS
<1>1. s \in Seq(T) /\ Len(s) = c.depth[i] /\ c.depth[i] \in Nat
  BY CodedAt DEF StackOk
<1>2. m \in 0..Len(s)
  BY <1>1
<1>3. r \in Seq(T) /\ Len(r) = m /\ \A p \in 1..m : r[p] = s[p]
  BY <1>1, <1>2, SubSeqIs
<1>4. ASSUME NEW p \in 1..Len(r), r[p] # 0 PROVE c.depth[r[p]] + 1 = p
  <2>1. p \in 1..Len(s) /\ r[p] = s[p]
    BY <1>1, <1>2, <1>3
  <2> QED  BY <1>4, <2>1 DEF StackOk
<1>5. StackOk(c, t, r)
  BY <1>1, <1>3, <1>4 DEF StackOk
<1> QED  BY <1>5

LEMMA PushedOk ==
  ASSUME NEW c, Context(c), NEW i \in 1..c.n, NEW t \in 1..c.n, NEW s, StackOk(c, i, s),
         c.depth[t] = c.depth[i] + 1
  PROVE  StackOk(c, t, Append(s, i))
<1> PICK T : T = 0..c.n
  OBVIOUS
<1> PICK r : r = Append(s, i)
  OBVIOUS
<1>1. s \in Seq(T) /\ Len(s) = c.depth[i] /\ i \in T /\ i \in Nat
  BY CodedAt DEF StackOk
<1>2. r \in Seq(T) /\ Len(r) = Len(s) + 1 /\ Len(s) \in Nat /\ (\A p \in 1..Len(s) : r[p] = s[p]) /\ r[Len(s) + 1] = i
  BY <1>1, AppendIs
<1>3. ASSUME NEW p \in 1..Len(r), r[p] # 0 PROVE c.depth[r[p]] + 1 = p
  <2>1. CASE p \in 1..Len(s)
    BY <1>2, <1>3, <2>1 DEF StackOk
  <2>2. CASE p = Len(s) + 1
    BY <1>1, <1>2, <2>2
  <2> QED  BY <1>2, <2>1, <2>2
<1>4. StackOk(c, t, r)
  BY <1>1, <1>2, <1>3 DEF StackOk
<1> QED  BY <1>4

\* What PushBranch leaves pending.
LEMMA Pushing ==
  ASSUME NEW c, c = Ctx, Context(c), Pending(c), ip \in 1..c.n,
         NEW S \in SUBSET Range(To(c, ip)), NEW s, PushBranch(S, s),
         \A t \in S : t \in 1..c.n /\ t \in c.splits /\ StackOk(c, t, s)
  PROVE  /\ pending' \in Seq(FlowRecords(c)) /\ Len(pending) <= Len(pending')
         /\ \A k \in 1..Len(pending) : pending'[k] = pending[k]
         /\ \A k \in 1..Len(pending') : FlowOk(c, pending'[k])
         /\ inPending' \subseteq c.blocks
         /\ \A b \in inPending' : b \in inPending \/ Waits(c, pending', Len(pending) + 1, b)
         /\ \A t \in S : Bk(c, t) \in inPending'
<1> PICK to : to = To(c, ip)
  OBVIOUS
<1> PICK I : I = Fresh(S)
  OBVIOUS
<1>1. /\ Body[ip].to = to /\ \A o : BlockOf(o) = Bk(c, o)
      /\ c.n \in Nat /\ to \in Seq(1..c.n)
  BY CtxIs, CodedAt
<1>2. I = {k \in 1..Len(to) : /\ to[k] \in S /\ Bk(c, to[k]) \notin inPending
                              /\ \A j \in 1..(k - 1) : to[j] \in S => Bk(c, to[j]) # Bk(c, to[k])}
  BY <1>1 DEF Fresh
<1>3. PICK list \in Ascending(I) :
        pending' = pending \o [q \in DOMAIN list |-> Flow(to[list[q]], s)]
  BY <1>1 DEF PushBranch
<1> PICK m : m = Cardinality(I)
  OBVIOUS
<1>4. m \in Nat
  <2>1. Len(to) \in Nat /\ I \subseteq 1..Len(to)
    BY <1>1, <1>2
  <2>2. IsFiniteSet(1..Len(to))
    <3>1. 1 \in Int /\ Len(to) \in Int
      BY <2>1
    <3> QED  BY <3>1, FS_Interval
  <2>3. IsFiniteSet(I)
    BY <2>1, <2>2, FS_Subset
  <2> QED  BY <2>3, FS_CardinalityType
<1>5. list \in [1..m -> I] /\ I = Range(list)
  BY <1>3 DEF Ascending
<1> PICK new : new = [q \in 1..m |-> Flow(to[list[q]], s)]
  OBVIOUS
<1>6. pending' = pending \o new
  BY <1>3, <1>5
<1>7. ASSUME NEW q \in 1..m PROVE FlowOk(c, new[q]) /\ to[list[q]] \in S /\ new[q].offset = to[list[q]]
  <2>1. list[q] \in I /\ new[q] = Flow(to[list[q]], s)
    BY <1>5
  <2>2. to[list[q]] \in S
    BY <1>2, <2>1
  <2>3. to[list[q]] \in 1..c.n /\ to[list[q]] \in c.splits /\ StackOk(c, to[list[q]], s) /\ s \in Seq(0..c.n)
    BY <2>2 DEF StackOk
  <2> QED  BY <2>1, <2>2, <2>3 DEF FlowOk, Flow, FlowRecords
<1>8. new \in Seq(FlowRecords(c)) /\ Len(new) = m
  BY <1>4, <1>7 DEF FlowOk
<1>9. /\ pending \in Seq(FlowRecords(c)) /\ Len(pending) \in Nat
      /\ \A k \in 1..Len(pending) : FlowOk(c, pending[k])
  BY DEF Pending
<1>10. /\ pending' \in Seq(FlowRecords(c)) /\ Len(pending') = Len(pending) + m
       /\ \A k \in 1..Len(pending) : pending'[k] = pending[k]
       /\ \A q \in 1..m : pending'[Len(pending) + q] = new[q]
  <2> HIDE DEF FlowRecords
  <2> PICK R : R = FlowRecords(c)
    OBVIOUS
  <2>1. pending \in Seq(R) /\ new \in Seq(R)
    BY <1>8, <1>9
  <2> QED  BY <1>4, <1>6, <1>8, <1>9, <2>1
<1>11. ASSUME NEW k \in 1..Len(pending') PROVE FlowOk(c, pending'[k])
  <2>1. CASE k \in 1..Len(pending)
    BY <1>9, <1>10, <2>1
  <2>2. CASE k \notin 1..Len(pending)
    <3>1. k - Len(pending) \in 1..m /\ k = Len(pending) + (k - Len(pending))
      BY <1>4, <1>9, <1>10, <2>2
    <3> QED  BY <1>7, <1>10, <3>1
  <2> QED  BY <2>1, <2>2
<1>12. inPending' = inPending \cup {Bk(c, t) : t \in S}
  BY <1>1 DEF PushBranch
<1>13. inPending' \subseteq c.blocks
  <2>1. \A t \in S : t \in 0..(c.n + 1)
    BY <1>1
  <2>2. \A t \in S : Bk(c, t) \in c.blocks
    BY <2>1, BkIs
  <2> QED  BY <1>12, <2>2 DEF Pending
<1>14. ASSUME NEW b \in inPending', b \notin inPending
       PROVE  Waits(c, pending', Len(pending) + 1, b)
  <2>1. PICK t \in S : b = Bk(c, t)
    BY <1>12, <1>14
  <2>2. PICK q0 \in 1..Len(to) : to[q0] = t
    BY <1>1 DEF Range
  <2> PICK K : K = {k \in 1..Len(to) : to[k] \in S /\ Bk(c, to[k]) = b}
    OBVIOUS
  <2>3. K \subseteq Nat /\ K # {}
    BY <2>1, <2>2
  <2>4. PICK k \in K : \A j \in K : k <= j
    BY <2>3, LeastOf
  <2>5. \A j \in 1..(k - 1) : to[j] \in S => Bk(c, to[j]) # Bk(c, to[k])
    <3> SUFFICES ASSUME NEW j \in 1..(k - 1), to[j] \in S, Bk(c, to[j]) = Bk(c, to[k]) PROVE FALSE
      OBVIOUS
    <3>1. j \in 1..Len(to) /\ ~ k <= j /\ Len(to) \in Nat
      BY <1>1, <2>4
    <3>2. j \in K
      BY <2>4, <3>1
    <3> QED  BY <2>4, <3>1, <3>2
  <2>6. k \in I
    BY <1>2, <1>14, <2>4, <2>5
  <2>7. PICK q \in 1..m : list[q] = k
    <3>1. DOMAIN list = 1..m /\ k \in Range(list)
      BY <1>5, <2>6
    <3> QED  BY <3>1 DEF Range
  <2>8. Len(pending) + q \in (Len(pending) + 1)..Len(pending') /\ pending'[Len(pending) + q] = new[q]
    BY <1>4, <1>9, <1>10
  <2>9. Bk(c, new[q].offset) = b
    BY <1>7, <2>4, <2>7
  <2> QED  BY <2>8, <2>9 DEF Waits
<1>15. Len(pending) <= Len(pending')
  BY <1>4, <1>9, <1>10
<1> QED  BY <1>10, <1>11, <1>12, <1>13, <1>14, <1>15

\* Pushing nothing.
LEMMA NotPushing ==
  ASSUME NEW c, Pending(c), pending' = pending, inPending' = inPending
  PROVE  /\ pending' \in Seq(FlowRecords(c)) /\ Len(pending) <= Len(pending')
         /\ \A k \in 1..Len(pending) : pending'[k] = pending[k]
         /\ \A k \in 1..Len(pending') : FlowOk(c, pending'[k])
         /\ inPending' \subseteq c.blocks
         /\ \A b \in inPending' : b \in inPending \/ Waits(c, pending', Len(pending) + 1, b)
<1>1. Len(pending) \in Nat
  BY DEF Pending
<1> QED  BY <1>1 DEF Pending

LEMMA EdgeIs ==
  ASSUME NEW c, Context(c), NEW i \in 1..c.n
  PROVE  /\ FallsThrough(c, i) => i + 1 \in 1..c.n /\ i + 1 <= c.n /\ c.depth[i + 1] = After(c, i)
         /\ \A t \in Range(To(c, i)) : t \in 1..c.n /\ c.depth[t] = After(c, i)
         /\ Ends(c, i) => i + 1 \in c.blocks /\ Range(To(c, i)) \subseteq c.splits
<1>1. c.n \in Nat /\ To(c, i) \in Seq(1..c.n)
  BY CodedAt
<1>2. \A t \in Range(To(c, i)) : t \in 1..c.n
  BY <1>1 DEF Range
<1> QED  BY <1>1, <1>2 DEF Context, Stacked, Split

LEMMA NoTargets ==
  ASSUME NEW c, Context(c), NEW i \in 1..c.n, Op(c, i) \notin BranchTarget \cup {"switch"}
  PROVE  Range(To(c, i)) = {} /\ AwayOf(c, i) = {}
<1>1. To(c, i) = <<>>
  BY DEF Context, Coded
<1> QED  BY <1>1 DEF Range, AwayOf

\* Control goes on with the next instruction: s is the stack it finds.
LEMMA Going ==
  ASSUME NEW c, Context(c), NEW i \in 1..c.n, FallsThrough(c, i), NEW s, StackOk(c, i, s)
  PROVE  /\ Pushed(Op(c, i)) = 0 =>
              StackOk(c, i + 1, SubSeq(s, 1, Len(s) - Popped(Op(c, i))))
         /\ Pushed(Op(c, i)) = 0 => \A t \in Range(To(c, i)) :
              StackOk(c, t, SubSeq(s, 1, Len(s) - Popped(Op(c, i))))
         /\ Op(c, i) \in {"push", "new", "dup"} => StackOk(c, i + 1, Append(s, i))
         /\ Op(c, i) = "work" => StackOk(c, i + 1, s)
<1>1. /\ c.depth[i] \in Nat /\ Popped(Op(c, i)) \in Nat /\ Popped(Op(c, i)) <= c.depth[i]
      /\ i + 1 \in 1..c.n /\ c.depth[i + 1] = After(c, i)
      /\ \A t \in Range(To(c, i)) : t \in 1..c.n /\ c.depth[t] = After(c, i)
  BY CodedAt, EdgeIs DEF Context, Stacked
<1>2. /\ Pushed(Op(c, i)) = 0 => After(c, i) = c.depth[i] - Popped(Op(c, i))
      /\ Op(c, i) \in {"push", "new", "dup"} => After(c, i) = c.depth[i] + 1
      /\ Op(c, i) = "work" => After(c, i) = c.depth[i]
  BY <1>1 DEF After, Pushed, Popped, FallsThrough
<1>3. Pushed(Op(c, i)) = 0 => StackOk(c, i + 1, SubSeq(s, 1, Len(s) - Popped(Op(c, i))))
  BY <1>1, <1>2, PoppedOk
<1>4. ASSUME Pushed(Op(c, i)) = 0, NEW t \in Range(To(c, i))
      PROVE StackOk(c, t, SubSeq(s, 1, Len(s) - Popped(Op(c, i))))
  BY <1>1, <1>2, <1>4, PoppedOk
<1>5. Op(c, i) \in {"push", "new", "dup"} => StackOk(c, i + 1, Append(s, i))
  BY <1>1, <1>2, PushedOk
<1>6. Op(c, i) = "work" => StackOk(c, i + 1, s)
  BY <1>1, <1>2 DEF StackOk
<1> QED  BY <1>3, <1>4, <1>5, <1>6

\* AddIr translates the instruction as it stands.
LEMMA Adding ==
  ASSUME NEW c, c = Ctx, Context(c), Loop(c), NEW ops, At(ops), AddIr(SlotOf(c, ip)),
         Range(To(c, ip)) \subseteq c.splits, NEW L, L = Append(insts[Here], Normal(c, ip))
  PROVE  /\ insts' = [insts EXCEPT ![Bk(c, ip)] = L]
         /\ Block(c, L, Bk(c, ip), ip + 1, stale) /\ NotGrown(c, L, ip + 1)
<1>1. /\ ip \in 1..c.n /\ Here = Bk(c, ip) /\ Here \in c.blocks
      /\ Body[ip].op = Op(c, ip) /\ Body[ip].to = To(c, ip)
      /\ Block(c, insts[Here], Here, ip, stale) /\ stale \in BOOLEAN
  BY AtIs
<1>2. [op |-> Body[ip].op, at |-> ip, to |-> Body[ip].to, slot |-> SlotOf(c, ip)] = Normal(c, ip)
  BY <1>1 DEF Normal
<1>3. insts' = [insts EXCEPT ![Here] = Append(@, Normal(c, ip))]
  BY <1>2 DEF AddIr
<1>4. insts' = [insts EXCEPT ![Here] = L]
  BY <1>3
<1>5. Block(c, L, Bk(c, ip), ip + 1, stale) /\ NotGrown(c, L, ip + 1)
  BY <1>1, BlockAppended
<1> QED  BY <1>1, <1>4, <1>5

\* What Enter says of the step.
LEMMA Entering ==
  ASSUME NEW c, c = Ctx, Context(c), Loop(c), NEW ops, At(ops), Enter
  PROVE  /\ Bk(c, ip) = lastBb \/ Bk(c, ip) \notin visited
         /\ lastBb' = Bk(c, ip) /\ visited' = visited \cup {Bk(c, ip)}
<1>1. Here = Bk(c, ip) /\ (Bk(c, ip) = lastBb \/ Bk(c, ip) \notin visited)
  BY AtIs
<1> QED  BY <1>1 DEF Enter

LEMMA WorkSteps ==
  ASSUME NEW c, c = Ctx, Context(c), Loop(c), Work
  PROVE  \E L : Step(c, L)
<1> PICK L : L = Append(insts[Here], Normal(c, ip))
  OBVIOUS
<1>0. At({"work"}) /\ Enter /\ AddIr(0) /\ Proceed(stack) /\ UNCHANGED <<pending, inPending, stale, exClauses>>
  BY DEF Work, outside
<1>1. /\ phase = "flow" /\ ip \in 1..c.n /\ Op(c, ip) = "work" /\ StackOk(c, ip, stack) /\ stale \in BOOLEAN
  BY <1>0, AtIs
<1>2. Range(To(c, ip)) = {} /\ FallsThrough(c, ip) /\ SlotOf(c, ip) = 0
  BY <1>1, NoTargets DEF BranchTarget, FallsThrough, Stops, StaticBranch, SlotOf
<1>3. /\ insts' = [insts EXCEPT ![Bk(c, ip)] = L]
      /\ Block(c, L, Bk(c, ip), ip + 1, stale) /\ NotGrown(c, L, ip + 1)
  BY <1>0, <1>2, Adding
<1>4. StackOk(c, ip + 1, stack) /\ ip + 1 <= c.n
  BY <1>1, <1>2, Going, EdgeIs
<1>5. /\ Bk(c, ip) = lastBb \/ Bk(c, ip) \notin visited
      /\ lastBb' = Bk(c, ip) /\ visited' = visited \cup {Bk(c, ip)}
  BY <1>0, Entering
<1>6. /\ pending' \in Seq(FlowRecords(c)) /\ Len(pending) <= Len(pending')
      /\ \A k \in 1..Len(pending) : pending'[k] = pending[k]
      /\ \A k \in 1..Len(pending') : FlowOk(c, pending'[k])
      /\ inPending' \subseteq c.blocks
      /\ \A b \in inPending' : b \in inPending \/ Waits(c, pending', Len(pending) + 1, b)
  BY <1>0, NotPushing DEF Loop
<1>7. ip' = ip + 1 /\ stack' = stack /\ phase' = "flow" /\ nextFlow' = nextFlow
  BY <1>0, <1>1 DEF Proceed
<1>8. \A t \in Succ(c, ip) : t = ip + 1
  BY <1>2 DEF Succ
<1>9. Step(c, L)
  BY <1>0, <1>1, <1>3, <1>4, <1>5, <1>6, <1>7, <1>8 DEF Step
<1> QED  BY <1>9

LEMMA PushSteps ==
  ASSUME NEW c, c = Ctx, Context(c), Loop(c), Push
  PROVE  \E L : Step(c, L)
<1> PICK L : L = Append(insts[Here], Normal(c, ip))
  OBVIOUS
<1>0. /\ At({"push", "new", "dup"}) /\ Enter /\ AddIr(Top + 1) /\ Proceed(Append(stack, ip))
      /\ UNCHANGED <<pending, inPending, stale, exClauses>>
  BY DEF Push, outside
<1>1. /\ phase = "flow" /\ ip \in 1..c.n /\ Op(c, ip) \in {"push", "new", "dup"}
      /\ StackOk(c, ip, stack) /\ stale \in BOOLEAN /\ Top = c.depth[ip]
  BY <1>0, AtIs
<1>2. Range(To(c, ip)) = {} /\ FallsThrough(c, ip) /\ SlotOf(c, ip) = Top + 1
  BY <1>1, NoTargets DEF BranchTarget, FallsThrough, Stops, StaticBranch, SlotOf, Pushed
<1>3. /\ insts' = [insts EXCEPT ![Bk(c, ip)] = L]
      /\ Block(c, L, Bk(c, ip), ip + 1, stale) /\ NotGrown(c, L, ip + 1)
  BY <1>0, <1>2, Adding
<1>4. StackOk(c, ip + 1, Append(stack, ip)) /\ ip + 1 <= c.n
  BY <1>1, <1>2, Going, EdgeIs
<1>5. /\ Bk(c, ip) = lastBb \/ Bk(c, ip) \notin visited
      /\ lastBb' = Bk(c, ip) /\ visited' = visited \cup {Bk(c, ip)}
  BY <1>0, Entering
<1>6. /\ pending' \in Seq(FlowRecords(c)) /\ Len(pending) <= Len(pending')
      /\ \A k \in 1..Len(pending) : pending'[k] = pending[k]
      /\ \A k \in 1..Len(pending') : FlowOk(c, pending'[k])
      /\ inPending' \subseteq c.blocks
      /\ \A b \in inPending' : b \in inPending \/ Waits(c, pending', Len(pending) + 1, b)
  BY <1>0, NotPushing DEF Loop
<1>7. ip' = ip + 1 /\ stack' = Append(stack, ip) /\ phase' = "flow" /\ nextFlow' = nextFlow
  BY <1>0, <1>1 DEF Proceed
<1>8. \A t \in Succ(c, ip) : t = ip + 1
  BY <1>2 DEF Succ
<1>9. Step(c, L)
  BY <1>0, <1>1, <1>3, <1>4, <1>5, <1>6, <1>7, <1>8 DEF Step
<1> QED  BY <1>9

LEMMA SkipSteps ==
  ASSUME NEW c, c = Ctx, Context(c), Loop(c), Skip
  PROVE  \E L : Step(c, L)
<1> DEFINE ops == {"pop", "br", "brtrue", "brfalse", "beq", "switch"}
<1> PICK L : L = insts[Here]
  OBVIOUS
<1>0. /\ At(ops) /\ Enter /\ Away(ip) = {} /\ Proceed(PopStackN(Popped(Body[ip].op)))
      /\ UNCHANGED <<pending, inPending, insts, stale, exClauses>>
  BY DEF Skip, outside
<1>1. /\ phase = "flow" /\ ip \in 1..c.n /\ c.n \in Nat /\ Op(c, ip) \in ops /\ AwayOf(c, ip) = {}
      /\ Body[ip].op = Op(c, ip)
      /\ StackOk(c, ip, stack) /\ stale \in BOOLEAN /\ Top = c.depth[ip] /\ Here = Bk(c, ip) /\ Here \in c.blocks
      /\ insts \in [c.blocks -> Seq(Irs(c))]
      /\ Block(c, L, Bk(c, ip), ip, stale) /\ NotGrown(c, L, ip)
  BY <1>0, AtIs
<1>2. Quiet(c, ip)
  BY <1>1 DEF Quiet, Tests
<1>3. /\ insts' = [insts EXCEPT ![Bk(c, ip)] = L]
      /\ Block(c, L, Bk(c, ip), ip + 1, stale) /\ NotGrown(c, L, ip + 1)
      /\ ip + 1 <= c.n /\ c.depth[ip + 1] = c.depth[ip] - Popped(Op(c, ip))
  BY <1>0, <1>1, <1>2, BlockSkipped, NotGrownSkipped
<1>4. StackOk(c, ip + 1, PopStackN(Popped(Op(c, ip))))
  <2>1. /\ Popped(Op(c, ip)) \in Nat /\ Popped(Op(c, ip)) <= c.depth[ip] /\ c.depth[ip] \in Nat
        /\ ip + 1 \in 1..c.n
    BY <1>1, <1>3, CodedAt DEF Context, Stacked
  <2> QED  BY <1>1, <1>3, <2>1, PoppedOk DEF PopStackN
<1>5. /\ Bk(c, ip) = lastBb \/ Bk(c, ip) \notin visited
      /\ lastBb' = Bk(c, ip) /\ visited' = visited \cup {Bk(c, ip)}
  BY <1>0, Entering
<1>6. /\ pending' \in Seq(FlowRecords(c)) /\ Len(pending) <= Len(pending')
      /\ \A k \in 1..Len(pending) : pending'[k] = pending[k]
      /\ \A k \in 1..Len(pending') : FlowOk(c, pending'[k])
      /\ inPending' \subseteq c.blocks
      /\ \A b \in inPending' : b \in inPending \/ Waits(c, pending', Len(pending) + 1, b)
  BY <1>0, NotPushing DEF Loop
<1>7. /\ ip' = ip + 1 /\ stack' = PopStackN(Popped(Op(c, ip))) /\ phase' = "flow"
      /\ nextFlow' = nextFlow
  BY <1>0, <1>1 DEF Proceed
<1>8. \A t \in Succ(c, ip) : t = ip + 1
  BY <1>1 DEF Succ, AwayOf
<1>9. Step(c, L)
  BY <1>0, <1>1, <1>3, <1>4, <1>5, <1>6, <1>7, <1>8 DEF Step
<1> QED  BY <1>9

LEMMA BranchSteps ==
  ASSUME NEW c, c = Ctx, Context(c), Loop(c), Branch
  PROVE  \E L : Step(c, L)
<1> PICK L : L = Append(insts[Here], Normal(c, ip))
  OBVIOUS
<1>0. /\ At({"br"}) /\ Enter /\ Away(ip) # {} /\ AddIr(0) /\ PushBranch(Away(ip), stack) /\ PopBranch
      /\ UNCHANGED <<stale, exClauses>>
  BY DEF Branch, outside
<1>1. /\ phase = "flow" /\ ip \in 1..c.n /\ c.n \in Nat /\ Op(c, ip) = "br" /\ Away(ip) = AwayOf(c, ip)
      /\ StackOk(c, ip, stack) /\ stale \in BOOLEAN /\ c.depth[ip] \in Nat
  BY <1>0, AtIs
<1>2. Ends(c, ip) /\ SlotOf(c, ip) = 0 /\ ip + 1 \in c.blocks /\ Range(To(c, ip)) \subseteq c.splits
  BY <1>0, <1>1, EdgeIs DEF Ends, SlotOf
<1>3. /\ insts' = [insts EXCEPT ![Bk(c, ip)] = L]
      /\ Block(c, L, Bk(c, ip), ip + 1, stale)
  BY <1>0, <1>2, Adding
<1>4. AwayOf(c, ip) = Range(To(c, ip))
  BY <1>0, <1>1, OneTarget DEF AwayOf, BranchTarget
<1>5. /\ Bk(c, ip) = lastBb \/ Bk(c, ip) \notin visited
      /\ lastBb' = Bk(c, ip) /\ visited' = visited \cup {Bk(c, ip)}
  BY <1>0, Entering
<1>6. \A t \in Range(To(c, ip)) : t \in 1..c.n /\ t \in c.splits /\ StackOk(c, t, stack)
  <2>1. After(c, ip) = c.depth[ip]
    BY <1>1 DEF After, Pushed, Popped
  <2> QED  BY <1>1, <1>2, <2>1, EdgeIs DEF StackOk
<1>7. /\ pending' \in Seq(FlowRecords(c)) /\ Len(pending) <= Len(pending')
      /\ \A k \in 1..Len(pending) : pending'[k] = pending[k]
      /\ \A k \in 1..Len(pending') : FlowOk(c, pending'[k])
      /\ inPending' \subseteq c.blocks
      /\ \A b \in inPending' : b \in inPending \/ Waits(c, pending', Len(pending) + 1, b)
      /\ \A t \in Range(To(c, ip)) : Bk(c, t) \in inPending'
  <2> PICK S : S = Range(To(c, ip))
    OBVIOUS
  <2>1. c = Ctx /\ Context(c) /\ Pending(c) /\ ip \in 1..c.n /\ PushBranch(S, stack)
    BY <1>0, <1>1, <1>4 DEF Loop
  <2>2. S \in SUBSET Range(To(c, ip)) /\ \A t \in S : t \in 1..c.n /\ t \in c.splits /\ StackOk(c, t, stack)
    BY <1>6
  <2>3. S = Range(To(c, ip))
    OBVIOUS
  <2> QED  BY ONLY <2>1, <2>2, <2>3, Pushing
<1>8. Succ(c, ip) = Range(To(c, ip))
  BY <1>1 DEF Succ, FallsThrough
<1>9. Step(c, L)
  BY <1>0, <1>1, <1>2, <1>3, <1>5, <1>7, <1>8 DEF Step
<1> QED  BY <1>9

LEMMA LeaveSteps ==
  ASSUME NEW c, c = Ctx, Context(c), Loop(c), Leave
  PROVE  \E L : Step(c, L)
<1> PICK L : L = Append(insts[Here], Normal(c, ip))
  OBVIOUS
<1>0. /\ At({"leave"}) /\ Enter /\ AddIr(0) /\ PushBranch(Range(Body[ip].to), <<>>) /\ PopBranch
      /\ UNCHANGED <<stale, exClauses>>
  BY DEF Leave, outside
<1>1. /\ phase = "flow" /\ ip \in 1..c.n /\ c.n \in Nat /\ Op(c, ip) = "leave" /\ Body[ip].to = To(c, ip)
      /\ stale \in BOOLEAN
  BY <1>0, AtIs
<1>2. Ends(c, ip) /\ SlotOf(c, ip) = 0 /\ ip + 1 \in c.blocks /\ Range(To(c, ip)) \subseteq c.splits
  BY <1>0, <1>1, EdgeIs DEF Ends, SlotOf
<1>3. /\ insts' = [insts EXCEPT ![Bk(c, ip)] = L]
      /\ Block(c, L, Bk(c, ip), ip + 1, stale)
  BY <1>0, <1>2, Adding
<1>5. /\ Bk(c, ip) = lastBb \/ Bk(c, ip) \notin visited
      /\ lastBb' = Bk(c, ip) /\ visited' = visited \cup {Bk(c, ip)}
  BY <1>0, Entering
<1>6. \A t \in Range(To(c, ip)) : t \in 1..c.n /\ t \in c.splits /\ StackOk(c, t, <<>>)
  <2>1. After(c, ip) = 0
    BY <1>1 DEF After
  <2> QED  BY <1>1, <1>2, <2>1, EdgeIs DEF StackOk
<1>7. /\ pending' \in Seq(FlowRecords(c)) /\ Len(pending) <= Len(pending')
      /\ \A k \in 1..Len(pending) : pending'[k] = pending[k]
      /\ \A k \in 1..Len(pending') : FlowOk(c, pending'[k])
      /\ inPending' \subseteq c.blocks
      /\ \A b \in inPending' : b \in inPending \/ Waits(c, pending', Len(pending) + 1, b)
      /\ \A t \in Range(To(c, ip)) : Bk(c, t) \in inPending'
  BY <1>0, <1>1, <1>6, Pushing DEF Loop
<1>8. Succ(c, ip) = Range(To(c, ip))
  BY <1>1 DEF Succ, FallsThrough
<1>9. Step(c, L)
  BY <1>0, <1>1, <1>2, <1>3, <1>5, <1>7, <1>8 DEF Step
<1> QED  BY <1>9

\* A branch or a switch that may also fall through.
LEMMA Forking ==
  ASSUME NEW c, c = Ctx, Context(c), Loop(c), NEW ops, ops \subseteq {"brtrue", "brfalse", "beq", "switch"},
         At(ops), Away(ip) # {}, NEW s, s = PopStackN(Popped(Body[ip].op)),
         Enter, PushBranch(Away(ip), s), Proceed(s), exClauses' = exClauses,
         NEW L, insts' = [insts EXCEPT ![Bk(c, ip)] = L],
         stale' \in BOOLEAN, stale => stale', Block(c, L, Bk(c, ip), ip + 1, stale')
  PROVE  Step(c, L)
<1>1. /\ phase = "flow" /\ ip \in 1..c.n /\ c.n \in Nat /\ Op(c, ip) \in ops
      /\ Away(ip) = AwayOf(c, ip) /\ Body[ip].op = Op(c, ip)
      /\ StackOk(c, ip, stack)
  BY AtIs
<1>2. ip + 1 \in c.blocks /\ Range(To(c, ip)) \subseteq c.splits /\ FallsThrough(c, ip)
  BY <1>1, EdgeIs DEF Ends, FallsThrough, Stops, StaticBranch
<1>3. /\ Bk(c, ip) = lastBb \/ Bk(c, ip) \notin visited
      /\ lastBb' = Bk(c, ip) /\ visited' = visited \cup {Bk(c, ip)}
  BY Entering
<1>4. StackOk(c, ip + 1, s) /\ ip + 1 <= c.n /\ \A t \in Range(To(c, ip)) : StackOk(c, t, s)
  <2>1. Pushed(Op(c, ip)) = 0
    BY <1>1 DEF Pushed
  <2> QED  BY <1>1, <1>2, <2>1, Going, EdgeIs DEF PopStackN
<1>5. \A t \in AwayOf(c, ip) : t \in 1..c.n /\ t \in c.splits /\ StackOk(c, t, s)
  BY <1>1, <1>2, <1>4, EdgeIs DEF AwayOf
<1>6. /\ pending' \in Seq(FlowRecords(c)) /\ Len(pending) <= Len(pending')
      /\ \A k \in 1..Len(pending) : pending'[k] = pending[k]
      /\ \A k \in 1..Len(pending') : FlowOk(c, pending'[k])
      /\ inPending' \subseteq c.blocks
      /\ \A b \in inPending' : b \in inPending \/ Waits(c, pending', Len(pending) + 1, b)
      /\ \A t \in AwayOf(c, ip) : Bk(c, t) \in inPending'
  <2>1. AwayOf(c, ip) \in SUBSET Range(To(c, ip))
    BY DEF AwayOf
  <2>2. PushBranch(AwayOf(c, ip), s) /\ Pending(c) /\ ip \in 1..c.n
    BY <1>1 DEF Loop
  <2> QED  BY <1>5, <2>1, <2>2, Pushing
<1>7. ip' = ip + 1 /\ stack' = s /\ phase' = "flow" /\ nextFlow' = nextFlow
  BY <1>1 DEF Proceed
<1>8. \A t \in Succ(c, ip) : t = ip + 1 \/ Bk(c, t) \in inPending'
  BY <1>6 DEF Succ, AwayOf
<1> QED  BY <1>2, <1>3, <1>4, <1>6, <1>7, <1>8 DEF Step

LEMMA CondBranchSteps ==
  ASSUME NEW c, c = Ctx, Context(c), Loop(c), CondBranch
  PROVE  \E L : Step(c, L)
<1> DEFINE ops == {"brtrue", "brfalse", "beq"}
<1> PICK L : L = Append(insts[Here], Normal(c, ip))
  OBVIOUS
<1> PICK s : s = PopStackN(Popped(Body[ip].op))
  OBVIOUS
<1>0. /\ At(ops) /\ Enter /\ Away(ip) # {} /\ AddIr(Top) /\ PushBranch(Away(ip), s) /\ Proceed(s)
      /\ UNCHANGED <<stale, exClauses>>
  BY DEF CondBranch, outside
<1>1. /\ ip \in 1..c.n /\ Op(c, ip) \in ops /\ Away(ip) = AwayOf(c, ip) /\ Top = c.depth[ip]
      /\ c.depth[ip] \in Nat /\ stale \in BOOLEAN
  BY <1>0, AtIs
<1>2. SlotOf(c, ip) = Top /\ Range(To(c, ip)) \subseteq c.splits
  BY <1>0, <1>1, EdgeIs DEF SlotOf, Pushed, Ends
<1>3. insts' = [insts EXCEPT ![Bk(c, ip)] = L] /\ Block(c, L, Bk(c, ip), ip + 1, stale)
  BY <1>0, <1>2, Adding
<1>4. Step(c, L)
  BY <1>0, <1>1, <1>3, Forking
<1> QED  BY <1>4

LEMMA SwitchSteps ==
  ASSUME NEW c, c = Ctx, Context(c), Loop(c), Switch
  PROVE  \E L : Step(c, L)
<1> DEFINE ops == {"switch"}
<1> PICK L : L = Append(insts[Here], Normal(c, ip))
  OBVIOUS
<1> PICK s : s = PopStackN(1)
  OBVIOUS
<1>0. /\ At(ops) /\ Enter /\ Away(ip) # {} /\ AddIr(Top) /\ PushBranch(Away(ip), s) /\ Proceed(s)
      /\ UNCHANGED <<stale, exClauses>>
  BY DEF Switch, outside
<1>1. /\ ip \in 1..c.n /\ Op(c, ip) \in ops /\ Away(ip) = AwayOf(c, ip) /\ Top = c.depth[ip]
      /\ c.depth[ip] \in Nat /\ stale \in BOOLEAN /\ Body[ip].op = Op(c, ip)
  BY <1>0, AtIs
<1>2. SlotOf(c, ip) = Top /\ Range(To(c, ip)) \subseteq c.splits /\ Popped(Body[ip].op) = 1
  BY <1>0, <1>1, EdgeIs DEF SlotOf, Pushed, Ends, Popped
<1>3. insts' = [insts EXCEPT ![Bk(c, ip)] = L] /\ Block(c, L, Bk(c, ip), ip + 1, stale)
  BY <1>0, <1>2, Adding
<1>4. Step(c, L)
  BY <1>0, <1>1, <1>2, <1>3, Forking
<1> QED  BY <1>4

LEMMA FoldedBranchSteps ==
  ASSUME NEW c, c = Ctx, Context(c), Loop(c), FoldedBranch
  PROVE  \E L : Step(c, L)
<1> DEFINE ops == {"brtrue", "brfalse"}
<1> PICK s : s = PopStackN(1)
  OBVIOUS
<1> PICK K : K = insts[Here]
  OBVIOUS
<1> PICK F : F = Front(K)
  OBVIOUS
<1> PICK x : x = Folded(c, ip)
  OBVIOUS
<1> PICK L : L = IF Op(c, ip) = "brtrue" THEN Append(F, x) ELSE F
  OBVIOUS
<1>0. /\ At(ops) /\ Enter /\ Away(ip) # {} /\ LastIsFresh /\ PushBranch(Away(ip), s) /\ Proceed(s)
      /\ exClauses' = exClauses /\ stale' = (stale \/ Last(K).at # stack[Top])
  BY DEF FoldedBranch, outside
<1>1. /\ ip \in 1..c.n /\ Op(c, ip) \in ops /\ Away(ip) = AwayOf(c, ip) /\ Top = c.depth[ip]
      /\ c.depth[ip] \in Nat /\ stale \in BOOLEAN /\ Body[ip].op = Op(c, ip) /\ Body[ip].to = To(c, ip)
      /\ Here = Bk(c, ip) /\ Here \in c.blocks /\ insts \in [c.blocks -> Seq(Irs(c))]
      /\ StackOk(c, ip, stack) /\ Block(c, K, Bk(c, ip), ip, stale) /\ NotGrown(c, K, ip)
  BY <1>0, AtIs
<1>2. Popped(Body[ip].op) = 1 /\ Top \in 1..Len(stack) /\ c.n \in Nat
  <2>1. Popped(Op(c, ip)) = 1
    BY <1>1 DEF Popped
  <2>2. c.depth[ip] >= 1
    BY <1>1, <2>1 DEF Context, Stacked
  <2> QED  BY <1>1, <2>1, <2>2, CodedAt DEF Top
<1>3. K # <<>> /\ K \in Seq(Irs(c)) /\ K[Len(K)].op = "new" /\ Last(K) = K[Len(K)]
  <2>1. Last(K) = K[Len(K)]
    BY DEF Last
  <2> QED  BY <1>0, <1>1, <2>1 DEF LastIsFresh
<1>4. stale' \in BOOLEAN /\ (stale => stale')
  BY <1>0, <1>1
<1>5. ASSUME ~ stale' PROVE c.depth[ip] = c.depth[K[Len(K)].at] + 1
  <2>1. stack[Top] = K[Len(K)].at
    BY <1>0, <1>3, <1>5
  <2>2. K[Len(K)].at # 0
    <3>1. Len(K) \in 1..Len(K) /\ Sound(c, K, Bk(c, ip), ip)
      BY <1>1, <1>3 DEF Block
    <3>2. K[Len(K)] # InitIr
      BY <1>3 DEF InitIr
    <3>3. K[Len(K)].at > 0 /\ K[Len(K)].at \in Nat /\ ip \in Nat
      BY <1>1, <1>2, <3>1, <3>2, SoundAt
    <3> QED  BY <3>3
  <2>3. c.depth[stack[Top]] + 1 = Top
    BY <1>1, <1>2, <2>1, <2>2 DEF StackOk
  <2> QED  BY <1>1, <2>1, <2>3
<1>6. Block(c, L, Bk(c, ip), ip + 1, stale')
  BY <1>0, <1>1, <1>3, <1>4, <1>5, BlockFolded DEF Tests
<1>7. insts' = [insts EXCEPT ![Bk(c, ip)] = L]
  <2>1. insts' = [insts EXCEPT ![Here] = F \o (IF Op(c, ip) = "brtrue" THEN <<x>> ELSE <<>>)]
    <3>1. x = [op |-> "br", at |-> ip, to |-> Body[ip].to, slot |-> 0]
      BY <1>1 DEF Folded
    <3> QED  BY <1>1, <3>1 DEF FoldedBranch
  <2>2. F \o (IF Op(c, ip) = "brtrue" THEN <<x>> ELSE <<>>) = L
    <3>1. F \in Seq(Irs(c))
      BY <1>3, FrontIs
    <3>2. x \in Irs(c)
      <4>1. c.n \in Nat /\ ip \in 0..c.n /\ To(c, ip) \in Seq(1..c.n)
        BY <1>1, CodedAt
      <4>2. "br" \in Ops /\ 0 \in Nat
        BY DEF Ops, BranchTarget
      <4> QED  BY <4>1, <4>2 DEF Folded, Irs
    <3> QED  BY <3>1, <3>2
  <2> QED  BY <1>1, <2>1, <2>2
<1>8. Step(c, L)
  BY <1>0, <1>2, <1>4, <1>6, <1>7, Forking
<1> QED  BY <1>8

LEMMA StopSteps ==
  ASSUME NEW c, c = Ctx, Context(c), Loop(c), Stop
  PROVE  \E L : Step(c, L)
<1> PICK L : L = Append(insts[Here], Normal(c, ip))
  OBVIOUS
<1>0. At(Stops) /\ Enter /\ AddIr(Top) /\ PopBranch /\ UNCHANGED <<pending, inPending, stale, exClauses>>
  BY DEF Stop, outside
<1>1. /\ phase = "flow" /\ ip \in 1..c.n /\ Op(c, ip) \in Stops /\ Top = c.depth[ip]
      /\ c.depth[ip] \in Nat /\ stale \in BOOLEAN
  BY <1>0, AtIs
<1>2. Range(To(c, ip)) = {} /\ ~ FallsThrough(c, ip) /\ SlotOf(c, ip) = Top /\ ip + 1 \in c.blocks
  BY <1>1, NoTargets, EdgeIs DEF BranchTarget, FallsThrough, Stops, StaticBranch, SlotOf, Pushed, Ends
<1>3. /\ insts' = [insts EXCEPT ![Bk(c, ip)] = L]
      /\ Block(c, L, Bk(c, ip), ip + 1, stale)
  BY <1>0, <1>2, Adding
<1>5. /\ Bk(c, ip) = lastBb \/ Bk(c, ip) \notin visited
      /\ lastBb' = Bk(c, ip) /\ visited' = visited \cup {Bk(c, ip)}
  BY <1>0, Entering
<1>6. /\ pending' \in Seq(FlowRecords(c)) /\ Len(pending) <= Len(pending')
      /\ \A k \in 1..Len(pending) : pending'[k] = pending[k]
      /\ \A k \in 1..Len(pending') : FlowOk(c, pending'[k])
      /\ inPending' \subseteq c.blocks
      /\ \A b \in inPending' : b \in inPending \/ Waits(c, pending', Len(pending) + 1, b)
  BY <1>0, NotPushing DEF Loop
<1>8. Succ(c, ip) = {}
  BY <1>2 DEF Succ
<1>9. Step(c, L)
  BY <1>0, <1>1, <1>2, <1>3, <1>5, <1>6, <1>8 DEF Step
<1> QED  BY <1>9

Looped == \/ ReachVisited \/ Work \/ Push \/ Skip \/ Branch \/ Leave
          \/ CondBranch \/ FoldedBranch \/ Switch \/ Stop

LEMMA LoopLooped ==
  ASSUME NEW c, c = Ctx, Context(c), Loop(c), Looped
  PROVE  /\ Loop(c)' /\ phase = "flow" /\ phase' \in {"flow", "relocate"}
         /\ UNCHANGED outside
<1>1. phase = "flow" /\ UNCHANGED outside
  BY DEF Looped, ReachVisited, Work, Push, Skip, Branch, Leave, CondBranch, FoldedBranch, Switch, Stop, At
<1>2. ReachVisited \/ \E L : Step(c, L)
  BY WorkSteps, PushSteps, SkipSteps, BranchSteps, LeaveSteps, CondBranchSteps, FoldedBranchSteps,
     SwitchSteps, StopSteps DEF Looped
<1> QED  BY <1>1, <1>2, LoopReached, LoopStep

-----------------------------------------------------------------------------
(* Up to the loop                                                          *)

Begin ==
  /\ ip = 1 /\ lastBb = End /\ stack = <<>> /\ pending = <<>> /\ nextFlow = 1
  /\ inPending = {} /\ visited = {} /\ insts = <<>> /\ stale = FALSE /\ exClauses = <<>>

LEMMA LoopBegun ==
  ASSUME NEW c, c = Ctx, Context(c), Begin, Header
  PROVE  Loop(c)' /\ ip' = 1 /\ lastBb' = c.n + 1
<1>1. c.n \in Nat /\ c.n > 0 /\ 1 \in 1..c.n /\ 1 \in c.blocks /\ c.n + 1 \in c.blocks /\ 0 \in Nat
  BY DEF Context, Coded, Split
<1>2. /\ End = c.n + 1 /\ Blocks = c.blocks /\ program.init = c.init /\ Prologue = c.first
  BY CtxIs
<1>3. /\ ip' = 1 /\ lastBb' = c.n + 1 /\ stack' = <<>> /\ pending' = <<>> /\ nextFlow' = 1
      /\ inPending' = {} /\ visited' = {c.n + 1} /\ stale' = FALSE /\ exClauses' = <<>>
      /\ insts' = [b \in c.blocks |-> IF c.init /\ b = c.first THEN <<InitIr>> ELSE <<>>]
      /\ phase' \in {"clauses", "flow"}
  <2>1. phase' \in {"clauses", "flow"}
    BY DEF Header, ClausesDone
  <2>2. /\ UNCHANGED <<ip, lastBb, stack, pending, inPending, nextFlow, stale, exClauses>>
        /\ visited' = {End}
    BY DEF Header, outside
  <2>3. insts' = [b \in Blocks |-> IF program.init /\ b = Prologue THEN <<InitIr>> ELSE <<>>]
    BY DEF Header, InitIr
  <2> QED  BY <1>2, <2>1, <2>2, <2>3 DEF Begin
<1>4. Bk(c, 1) = 1
  BY <1>1, BkBlock
<1>5. ~ Middle(c)'
  BY <1>1, <1>3, <1>4 DEF Middle
<1>6. Pending(c)'
  <2>1. pending' \in Seq(FlowRecords(c)) /\ Len(pending') = 0
    BY <1>3
  <2> QED  BY <1>1, <1>3, <2>1 DEF Pending
<1>7. Position(c)'
  <2>1. StackOk(c, 1, <<>>)
    BY DEF StackOk, Context, Stacked
  <2> QED  BY <1>1, <1>3, <1>4, <1>5, <2>1 DEF Position
<1>8. ASSUME NEW n \in 1..c.n PROVE Bk(c, n) \in Nat /\ Bk(c, n) # c.n + 1
  <2>1. n \in 0..(c.n + 1) /\ n < c.n + 1 /\ n \in Nat
    BY <1>1
  <2>2. Bk(c, n) \in Nat /\ Bk(c, n) <= n
    BY <2>1, BkIs
  <2> QED  BY <1>1, <2>1, <2>2
<1>9. Translation(c)'
  <2>1. InitIr \in Irs(c)
    BY <1>1 DEF InitIr, Irs
  <2>2. <<InitIr>> \in Seq(Irs(c)) /\ <<>> \in Seq(Irs(c))
    BY <2>1
  <2>3. insts' \in [c.blocks -> Seq(Irs(c))]
    BY <1>3, <2>2
  <2>4. ASSUME NEW b \in c.blocks PROVE Block(c, insts'[b], b, Upto(c, b)', stale')
    <3>1. CASE c.init /\ b = c.first
      <4>1. insts'[b] = <<InitIr>>
        BY <1>3, <3>1
      <4>2. Sound(c, <<InitIr>>, b, Upto(c, b)')
        BY <2>2, <3>1 DEF Sound
      <4>3. ASSUME NEW n \in 1..c.n, Bk(c, n) = b, n < Upto(c, b)' PROVE FALSE
        <5>1. Upto(c, b)' = 0
          BY <1>3, <1>8, <4>3 DEF Upto
        <5> QED  BY <1>1, <4>3, <5>1
      <4> QED  BY <4>1, <4>2, <4>3 DEF Block
    <3>2. CASE ~ (c.init /\ b = c.first)
      <4>1. insts'[b] = <<>>
        BY <1>3, <3>2
      <4>2. Sound(c, <<>>, b, Upto(c, b)')
        BY <2>2, <3>2 DEF Sound
      <4>3. ASSUME NEW n \in 1..c.n, Bk(c, n) = b, n < Upto(c, b)' PROVE FALSE
        <5>1. Upto(c, b)' = 0
          BY <1>3, <1>8, <4>3 DEF Upto
        <5> QED  BY <1>1, <4>3, <5>1
      <4> QED  BY <4>1, <4>2, <4>3 DEF Block
    <3> QED  BY <3>1, <3>2
  <2> QED  BY <1>3, <2>3, <2>4 DEF Translation
<1>10. Coverage(c)'
  <2>1. Known(c, 1)'
    BY <1>3, <1>4 DEF Known, Looping
  <2>2. \A n \in 1..c.n : Bk(c, n) \notin visited'
    BY <1>3, <1>8
  <2> QED  BY <1>3, <2>1, <2>2 DEF Coverage
<1>11. ip' \in 1..c.n /\ stack' \in Seq(0..c.n)
  BY <1>1, <1>3
<1> QED  BY <1>3, <1>6, <1>7, <1>9, <1>10, <1>11 DEF Loop

LEMMA ConcatIs ==
  ASSUME NEW T, NEW s \in Seq(T), NEW t \in Seq(T)
  PROVE  /\ s \o t \in Seq(T) /\ Len(s \o t) = Len(s) + Len(t) /\ Len(s) \in Nat /\ Len(t) \in Nat
         /\ \A k \in 1..Len(s) : (s \o t)[k] = s[k]
         /\ \A k \in 1..Len(t) : (s \o t)[Len(s) + k] = t[k]
         /\ \A k \in 1..Len(s \o t) : k \in 1..Len(s) \/ (k - Len(s) \in 1..Len(t) /\ (s \o t)[k] = t[k - Len(s)])
OBVIOUS

LEMMA ClauseAt ==
  ASSUME NEW c, Context(c), NEW k \in 1..Len(c.clauses), NEW x, x = c.clauses[k]
  PROVE  /\ x \in ClauseRecords(c.n) /\ x.handler \in 1..c.n /\ x.handler \in c.splits
         /\ c.depth[x.handler] = Caught(x) /\ x.tryBegin \in c.splits /\ x.tryEnd \in c.splits
         /\ x.handlerEnd \in c.splits
         /\ x.flags = "filter" => x.filter \in 1..c.n /\ x.filter \in c.splits /\ c.depth[x.filter] = 1
<1>1. x \in ClauseRecords(c.n)
  BY ElementOfSeq DEF Context, Clauses
<1>2. /\ {x.tryBegin, x.tryEnd, x.handler, x.handlerEnd} \subseteq c.splits
      /\ c.depth[x.handler] = Caught(x)
      /\ x.flags = "filter" => x.filter \in 1..c.n /\ x.filter \in c.splits /\ c.depth[x.filter] = 1
  BY DEF Context, Clauses
<1> QED  BY <1>1, <1>2 DEF ClauseRecords

\* The flows of a clause begin at its handler and its filter.
LEMMA HandlerFlowsAre ==
  ASSUME NEW c, Context(c), NEW k \in 1..Len(c.clauses), NEW x, x = c.clauses[k],
         NEW f, f = HandlerFlows(x)
  PROVE  /\ f \in Seq(FlowRecords(c)) /\ Len(f) \in Nat /\ 1 \in 1..Len(f)
         /\ \A q \in 1..Len(f) : FlowOk(c, f[q])
         /\ \E q \in 1..Len(f) : f[q].offset = x.handler
         /\ x.flags = "filter" => \E q \in 1..Len(f) : f[q].offset = x.filter
<1>1. /\ x \in ClauseRecords(c.n) /\ x.handler \in 1..c.n /\ x.handler \in c.splits
      /\ c.depth[x.handler] = Caught(x)
      /\ x.flags = "filter" => x.filter \in 1..c.n /\ x.filter \in c.splits /\ c.depth[x.filter] = 1
  BY ClauseAt
<1>2. 0 \in 0..c.n
  BY DEF Context, Coded
<1>3. <<0>> \in Seq(0..c.n) /\ <<>> \in Seq(0..c.n)
  BY <1>2
<1>4. FlowOk(c, Flow(x.handler, IF Caught(x) = 1 THEN <<0>> ELSE <<>>))
  <2>1. StackOk(c, x.handler, IF Caught(x) = 1 THEN <<0>> ELSE <<>>)
    <3>1. CASE Caught(x) = 1
      BY <1>1, <1>3, <3>1 DEF StackOk
    <3>2. CASE Caught(x) # 1
      <4>1. Caught(x) = 0
        BY <3>2 DEF Caught
      <4> QED  BY <1>1, <1>3, <4>1 DEF StackOk
    <3> QED  BY <3>1, <3>2
  <2> QED  BY <1>1, <1>3, <2>1 DEF FlowOk, FlowRecords, Flow
<1>5. x.flags = "filter" => FlowOk(c, Flow(x.filter, <<0>>))
  BY <1>1, <1>3 DEF FlowOk, FlowRecords, Flow, StackOk
<1>6. /\ Flow(x.handler, <<0>>).offset = x.handler /\ Flow(x.handler, <<>>).offset = x.handler
      /\ Flow(x.filter, <<0>>).offset = x.filter
  BY DEF Flow
<1>7. CASE x.flags = "filter"
  <2>1. f = <<Flow(x.filter, <<0>>), Flow(x.handler, <<0>>)>>
    BY <1>7 DEF HandlerFlows
  <2>2. FlowOk(c, f[1]) /\ FlowOk(c, f[2])
    BY <1>4, <1>5, <1>7, <2>1 DEF Caught
  <2>3. f \in Seq(FlowRecords(c)) /\ Len(f) = 2
    BY <2>1, <2>2 DEF FlowOk
  <2>4. f[1].offset = x.filter /\ f[2].offset = x.handler
    BY <1>6, <2>1
  <2>5. 1..2 = {1, 2}
    OBVIOUS
  <2> QED  BY <2>2, <2>3, <2>4, <2>5
<1>8. CASE x.flags # "filter"
  <2>1. f = <<Flow(x.handler, IF Caught(x) = 1 THEN <<0>> ELSE <<>>)>>
    <3>1. CASE x.flags = "catch"
      BY <3>1 DEF HandlerFlows, Caught
    <3>2. CASE x.flags # "catch"
      BY <1>8, <3>2 DEF HandlerFlows, Caught
    <3> QED  BY <3>1, <3>2
  <2>2. FlowOk(c, f[1])
    BY <1>4, <2>1
  <2>3. f \in Seq(FlowRecords(c)) /\ Len(f) = 1
    BY <2>1, <2>2 DEF FlowOk
  <2>4. f[1].offset = x.handler
    BY <1>6, <2>1
  <2>5. 1..1 = {1}
    OBVIOUS
  <2> QED  BY <1>8, <2>2, <2>3, <2>4, <2>5
<1> QED  BY <1>7, <1>8

LEMMA LoopClause ==
  ASSUME NEW c, c = Ctx, Context(c), Loop(c), Clause, ip = 1, lastBb = c.n + 1,
         Len(exClauses) \in Nat, Len(exClauses) < Len(c.clauses),
         Len(exClauses') = Len(exClauses) + 1
  PROVE  Loop(c)' /\ phase' \in {"clauses", "flow"}
<1> PICK k : k = Len(exClauses) + 1
  OBVIOUS
<1> PICK x : x = c.clauses[k]
  OBVIOUS
<1> PICK f : f = HandlerFlows(x)
  OBVIOUS
<1>1. k \in 1..Len(c.clauses)
  <2>1. Len(c.clauses) \in Nat
    BY DEF Context, Clauses
  <2> QED  BY <2>1
<1>2. /\ pending' = pending \o f /\ inPending' = inPending \cup {Bk(c, f[1].offset)}
      /\ UNCHANGED <<ip, lastBb, stack, nextFlow, visited, insts, stale>>
      /\ phase = "clauses" /\ phase' \in {"clauses", "flow"}
  BY CtxIs DEF Clause, ClausesDone
<1>3. /\ f \in Seq(FlowRecords(c)) /\ Len(f) \in Nat /\ 1 \in 1..Len(f)
      /\ \A q \in 1..Len(f) : FlowOk(c, f[q])
      /\ \E q \in 1..Len(f) : f[q].offset = x.handler
      /\ x.flags = "filter" => \E q \in 1..Len(f) : f[q].offset = x.filter
  <2>1. k \in 1..Len(c.clauses) /\ x = c.clauses[k] /\ f = HandlerFlows(x) /\ Context(c)
    BY ONLY <1>1, x = c.clauses[k], f = HandlerFlows(x), Context(c)
  <2> QED  BY ONLY <2>1, HandlerFlowsAre, SMTT(40)
<1>4. /\ pending \in Seq(FlowRecords(c)) /\ Len(pending) \in Nat /\ nextFlow \in Nat
      /\ 1 <= nextFlow /\ nextFlow <= Len(pending) + 1
      /\ \A j \in 1..Len(pending) : FlowOk(c, pending[j])
      /\ inPending \subseteq c.blocks /\ visited \subseteq c.blocks
      /\ Position(c) /\ Translation(c) /\ Coverage(c)
  BY <1>2 DEF Loop, Pending, Looping
<1>5. /\ pending' \in Seq(FlowRecords(c)) /\ Len(pending') = Len(pending) + Len(f)
      /\ \A j \in 1..Len(pending) : pending'[j] = pending[j]
      /\ \A q \in 1..Len(f) : pending'[Len(pending) + q] = f[q]
      /\ \A j \in 1..Len(pending') : j \in 1..Len(pending) \/ (j - Len(pending) \in 1..Len(f) /\ pending'[j] = f[j - Len(pending)])
  BY <1>2, <1>3, <1>4, ConcatIs
<1>6. c.n \in Nat /\ c.n > 0 /\ 1 \in c.blocks /\ c.splits \subseteq c.blocks
  BY DEF Context, Coded, Split
<1>7. ~ Middle(c) /\ ~ Middle(c)'
  <2>1. Bk(c, 1) = 1
    BY <1>6, BkBlock
  <2> QED  BY <1>2, <1>6, <2>1 DEF Middle
<1>8. ASSUME NEW b, Known(c, b) PROVE Known(c, b)'
  <2>1. CASE Waits(c, pending, nextFlow, b)
    <3>1. PICK j \in nextFlow..Len(pending) : Bk(c, pending[j].offset) = b
      BY <2>1 DEF Waits
    <3>2. j \in nextFlow..Len(pending') /\ pending'[j] = pending[j]
      BY <1>3, <1>4, <1>5
    <3>3. Waits(c, pending', nextFlow, b)
      BY <3>1, <3>2 DEF Waits
    <3> QED  BY <1>2, <3>3 DEF Known, Looping
  <2>2. CASE b \in visited \/ Bk(c, ip) = b
    BY <1>2, <2>2 DEF Known, Looping
  <2> QED  BY <1>8, <2>1, <2>2 DEF Known
<1>9. ASSUME NEW q \in 1..Len(f) PROVE Known(c, Bk(c, f[q].offset))'
  <2>1. Len(pending) + q \in nextFlow..Len(pending')
    BY <1>3, <1>4, <1>5
  <2>2. Waits(c, pending', nextFlow, Bk(c, f[q].offset))
    BY <1>5, <2>1 DEF Waits
  <2> QED  BY <1>2, <2>2 DEF Known, Looping
<1>10. Pending(c)'
  <2>1. ASSUME NEW j \in 1..Len(pending') PROVE FlowOk(c, pending'[j])
    BY <1>3, <1>4, <1>5
  <2>2. Bk(c, f[1].offset) \in c.blocks
    <3>1. f[1].offset \in 1..c.n
      BY <1>3 DEF FlowOk, FlowRecords
    <3>2. f[1].offset \in 0..(c.n + 1)
      BY <1>6, <3>1
    <3> QED  BY <3>2, BkIs
  <2>3. nextFlow <= Len(pending') + 1
    BY <1>3, <1>4, <1>5
  <2> QED  BY <1>2, <1>4, <1>5, <2>1, <2>2, <2>3 DEF Pending
<1>11. Translation(c)'
  <2>1. \A b : Upto(c, b)' = Upto(c, b)
    BY <1>2, <1>7 DEF Upto
  <2> QED  BY <1>2, <1>4, <2>1 DEF Translation
<1>12. Position(c)'
  BY <1>2, <1>4, <1>7 DEF Position
<1>13. Coverage(c)'
  <2>1. \A b : Upto(c, b)' = Upto(c, b)
    BY <1>2, <1>7 DEF Upto
  <2>2. Known(c, 1)'
    BY <1>4, <1>8 DEF Coverage
  <2>3. ASSUME NEW b \in inPending' PROVE Known(c, b)'
    BY <1>2, <1>3, <1>4, <1>8, <1>9, <2>3 DEF Coverage
  <2>4. ASSUME NEW n \in 1..c.n, Bk(c, n) \in visited', n < Upto(c, Bk(c, n))', NEW t \in Succ(c, n)
        PROVE  Known(c, Bk(c, t))'
    BY <1>2, <1>4, <1>8, <2>1, <2>4 DEF Coverage
  <2>5. ASSUME NEW j \in 1..Len(exClauses')
        PROVE  /\ Known(c, c.clauses[j].handler)'
               /\ c.clauses[j].flags = "filter" => Known(c, c.clauses[j].filter)'
    <3>1. CASE j \in 1..Len(exClauses)
      BY <1>4, <1>8, <3>1 DEF Coverage
    <3>2. CASE j = k
      <4>1. /\ x.handler \in c.splits
            /\ x.flags = "filter" => x.filter \in c.splits
        BY <1>1, ClauseAt
      <4>2. /\ Bk(c, x.handler) = x.handler
            /\ x.flags = "filter" => Bk(c, x.filter) = x.filter
        BY <1>6, <4>1, BkBlock
      <4> QED  BY <1>3, <1>9, <3>2, <4>2
    <3>3. j \in 1..Len(exClauses) \/ j = k
      OBVIOUS
    <3> QED  BY <3>1, <3>2, <3>3
  <2> QED  BY <2>2, <2>3, <2>4, <2>5 DEF Coverage
<1>14. ip' \in 1..c.n /\ stack' \in Seq(0..c.n)
  BY <1>2 DEF Loop
<1> QED  BY <1>2, <1>10, <1>11, <1>12, <1>13, <1>14 DEF Loop

-----------------------------------------------------------------------------
(* The blocks placed one behind the other                                  *)

Out == [insts |-> insts, at |-> codeOffset, code |-> code, clauses |-> exClauses, visited |-> visited]

Size(g, b) == Len(g.insts[b])

\* Some of the blocks, from the first, have their place: g.at
Spread(c, g) ==
  /\ g.insts \in [c.blocks -> Seq(Irs(c))]
  /\ g.at \in [DOMAIN g.at -> Nat] /\ DOMAIN g.at \subseteq c.blocks
  /\ \A a \in c.blocks, b \in DOMAIN g.at : a < b => a \in DOMAIN g.at
  /\ \A a \in DOMAIN g.at : g.at[a] >= 1
  /\ 0 \in DOMAIN g.at => g.at[0] = 1
  /\ \A a, b \in DOMAIN g.at : a < b => g.at[a] + Size(g, a) <= g.at[b]
  /\ \A a, b \in DOMAIN g.at :
       a < b /\ (\A x \in c.blocks : x <= a \/ b <= x) => g.at[a] + Size(g, a) = g.at[b]

\* Their code fills the emitted code.
Filled(c, g) ==
  /\ g.code \in Seq(Irs(c))
  /\ DOMAIN g.at = {} => Len(g.code) = 0
  /\ \A a \in DOMAIN g.at : (\A b \in DOMAIN g.at : b <= a) => g.at[a] + Size(g, a) = Len(g.code) + 1
  /\ \A a \in DOMAIN g.at : \A k \in 1..Size(g, a) :
       g.at[a] + k - 1 \in 1..Len(g.code) /\ g.code[g.at[a] + k - 1] = g.insts[a][k]
  /\ \A i \in 1..Len(g.code) : \E a \in DOMAIN g.at : \E k \in 1..Size(g, a) : i = g.at[a] + k - 1

LEMMA UnplacedIs ==
  ASSUME NEW c, c = Ctx, Context(c), NEW D, D = DOMAIN codeOffset, Unplaced # {}, D \subseteq c.blocks,
         \A a \in c.blocks, b \in D : a < b => a \in D,
         NEW m, m = Min(Unplaced)
  PROVE  /\ m \in c.blocks /\ m \in Nat /\ m \notin D
         /\ \A a \in D : a \in Nat /\ a < m
         /\ \A a \in c.blocks : a \in Nat /\ (a < m => a \in D)
         /\ D = {} => m = 0
<1>1. /\ Unplaced = c.blocks \ D /\ c.n \in Nat /\ c.blocks \subseteq 0..(c.n + 1) /\ 0 \in c.blocks
  BY CtxIs DEF Unplaced, Context, Coded, Split
<1>2. c.blocks \subseteq Nat
  BY <1>1
<1>3. m \in Unplaced /\ \A j \in Unplaced : m <= j
  <2>1. Unplaced \subseteq Nat
    BY <1>1, <1>2
  <2> QED  BY <2>1, MinIs
<1>4. \A a \in D : a \in Nat /\ a < m
  <2> SUFFICES ASSUME NEW a \in D PROVE a \in Nat /\ a < m
    OBVIOUS
  <2>1. a \in Nat /\ m \in Nat /\ a # m /\ ~ m < a
    BY <1>1, <1>2, <1>3
  <2> QED  BY <2>1
<1>5. \A a \in c.blocks : a \in Nat /\ (a < m => a \in D)
  <2> SUFFICES ASSUME NEW a \in c.blocks PROVE a \in Nat /\ (a < m => a \in D)
    OBVIOUS
  <2>1. a \in Nat /\ m \in Nat /\ (a \in Unplaced => m <= a)
    BY <1>1, <1>2, <1>3
  <2> QED  BY <1>1, <2>1
<1>6. D = {} => m = 0
  <2> SUFFICES ASSUME D = {} PROVE m = 0
    OBVIOUS
  <2>1. 0 \in Unplaced /\ m \in Nat
    BY <1>1, <1>2, <1>3
  <2> QED  BY <1>3, <2>1
<1> QED  BY <1>1, <1>2, <1>3, <1>4, <1>5, <1>6

LEMMA PlacedMore ==
  ASSUME NEW c, c = Ctx, Context(c), Spread(c, Out), Filled(c, Out), PlaceBlock
  PROVE  Spread(c, Out)' /\ Filled(c, Out)'
<1> PICK D : D = DOMAIN codeOffset
  OBVIOUS
<1> PICK m : m = Min(Unplaced)
  OBVIOUS
<1> PICK g : g = Out
  OBVIOUS
<1> PICK h : h = Out'
  OBVIOUS
<1> PICK N : N = Len(code)
  OBVIOUS
<1>1. /\ g.insts = insts /\ g.at = codeOffset /\ g.code = code
      /\ h.insts = insts /\ h.at = codeOffset' /\ h.code = code'
  BY DEF Out, PlaceBlock, flow
<1>2. /\ insts \in [c.blocks -> Seq(Irs(c))]
      /\ codeOffset \in [D -> Nat] /\ D \subseteq c.blocks
      /\ \A a \in c.blocks, b \in D : a < b => a \in D
      /\ \A a \in D : codeOffset[a] >= 1
      /\ 0 \in D => codeOffset[0] = 1
      /\ \A a, b \in D : a < b => codeOffset[a] + Size(g, a) <= codeOffset[b]
      /\ \A a, b \in D : a < b /\ (\A x \in c.blocks : x <= a \/ b <= x) => codeOffset[a] + Size(g, a) = codeOffset[b]
  BY <1>1 DEF Spread
<1>3. /\ code \in Seq(Irs(c)) /\ N \in Nat
      /\ D = {} => N = 0
      /\ \A a \in D : (\A b \in D : b <= a) => codeOffset[a] + Size(g, a) = N + 1
      /\ \A a \in D : \A k \in 1..Size(g, a) :
           codeOffset[a] + k - 1 \in 1..N /\ code[codeOffset[a] + k - 1] = insts[a][k]
      /\ \A i \in 1..N : \E a \in D : \E k \in 1..Size(g, a) : i = codeOffset[a] + k - 1
  BY <1>1 DEF Filled
<1>4. /\ m \in c.blocks /\ m \in Nat /\ m \notin D
      /\ \A a \in D : a \in Nat /\ a < m
      /\ \A a \in c.blocks : a \in Nat /\ (a < m => a \in D)
      /\ D = {} => m = 0
  <2>1. Unplaced # {}
    BY DEF PlaceBlock
  <2> QED  BY <1>2, <2>1, UnplacedIs
<1> PICK L : L = insts[m]
  OBVIOUS
<1>5. L \in Seq(Irs(c)) /\ Len(L) \in Nat
  BY <1>2, <1>4
<1>6. /\ DOMAIN codeOffset' = D \cup {m} /\ codeOffset'[m] = N + 1
      /\ \A a \in D : codeOffset'[a] = codeOffset[a]
      /\ codeOffset' \in [D \cup {m} -> Nat]
  <2>2. codeOffset' = [x \in D \cup {m} |-> IF x = m THEN N + 1 ELSE codeOffset[x]]
    BY DEF PlaceBlock, Put
  <2>3. N + 1 \in Nat
    BY <1>3
  <2> QED  BY <1>2, <1>4, <2>2, <2>3
<1>7. /\ code' \in Seq(Irs(c)) /\ Len(code') = N + Len(L)
      /\ \A k \in 1..N : code'[k] = code[k]
      /\ \A k \in 1..Len(L) : code'[N + k] = L[k]
      /\ \A k \in 1..Len(code') : k \in 1..N \/ (k - N \in 1..Len(L) /\ code'[k] = L[k - N])
  <2>1. code' = code \o L
    BY DEF PlaceBlock
  <2> QED  BY <1>3, <1>5, <2>1, ConcatIs
<1>8. \A a \in D : Size(h, a) = Size(g, a) /\ Size(g, a) = Len(insts[a]) /\ Size(g, a) \in Nat /\ codeOffset[a] \in Nat
  BY <1>1, <1>2 DEF Size
<1>9. Size(h, m) = Len(L)
  BY <1>1 DEF Size
<1>10. ASSUME NEW a \in D PROVE codeOffset[a] + Size(g, a) <= N + 1
  <2>1. CASE Size(g, a) = 0
    <3>1. CASE \A b \in D : b <= a
      <4>1. codeOffset[a] + Size(g, a) = N + 1
        BY <1>3, <3>1
      <4> QED  BY <1>3, <4>1
    <3>2. CASE ~ \A b \in D : b <= a
      <4>2. D \subseteq 0..(c.n + 1) /\ c.n + 1 \in Nat /\ D # {}
        <5>1. c.blocks \subseteq 0..(c.n + 1) /\ c.n + 1 \in Nat
          <6>1. c.n \in Nat /\ c.n > 0 /\ c.splits \subseteq 1..(c.n + 1) /\ c.blocks = c.splits \cup {0, 1}
            BY DEF Context, Split, Coded
          <6> QED  BY <6>1
        <5> QED  BY <1>2, <5>1
      <4>3. Max(D) \in D /\ \A j \in D : j <= Max(D)
        BY <4>2, MaxIs
      <4>4. a \in Nat /\ Max(D) \in Nat /\ a < Max(D)
        <5>1. PICK b \in D : ~ b <= a
          BY <3>2
        <5>2. b \in Nat /\ a \in Nat /\ Max(D) \in Nat /\ b <= Max(D)
          BY <1>4, <4>3
        <5> QED  BY <5>1, <5>2
      <4>5. codeOffset[a] + Size(g, a) <= codeOffset[Max(D)]
        BY <1>2, <4>3, <4>4
      <4>6. codeOffset[Max(D)] + Size(g, Max(D)) = N + 1
        BY <1>3, <4>3
      <4> QED  BY <1>3, <1>8, <4>3, <4>5, <4>6
    <3> QED  BY <3>1, <3>2
  <2>2. CASE Size(g, a) # 0
    <3>1. Size(g, a) \in 1..Size(g, a)
      BY <1>8, <2>2
    <3>2. codeOffset[a] + Size(g, a) - 1 \in 1..N
      BY <1>3, <3>1
    <3> QED  BY <1>3, <1>8, <3>2
  <2> QED  BY <2>1, <2>2
<1>11. Spread(c, h)
  <2>1. \A a \in c.blocks, b \in D \cup {m} : a < b => a \in D \cup {m}
    BY <1>2, <1>4
  <2>2. \A a \in D \cup {m} : codeOffset'[a] >= 1
    BY <1>2, <1>3, <1>6
  <2>3. 0 \in D \cup {m} => codeOffset'[0] = 1
    <3>1. CASE D = {}
      BY <1>3, <1>4, <1>6, <3>1
    <3>2. CASE D # {}
      <4>1. m # 0
        <5>1. PICK a \in D : TRUE
          BY <3>2
        <5> QED  BY <1>4, <5>1
      <4> QED  BY <1>2, <1>6, <4>1
    <3> QED  BY <3>1, <3>2
  <2>4. ASSUME NEW a \in D \cup {m}, NEW b \in D \cup {m}, a < b
        PROVE  codeOffset'[a] + Size(h, a) <= codeOffset'[b]
    <3>1. a \in D
      <4> SUFFICES ASSUME a = m PROVE FALSE
        OBVIOUS
      <4>1. b < m \/ b = m
        BY <1>4
      <4> QED  BY <1>4, <2>4, <4>1
    <3>2. CASE b = m
      BY <1>6, <1>8, <1>10, <3>1, <3>2
    <3>3. CASE b \in D
      BY <1>2, <1>6, <1>8, <2>4, <3>1, <3>3
    <3> QED  BY <3>2, <3>3
  <2>5. ASSUME NEW a \in D \cup {m}, NEW b \in D \cup {m}, a < b, \A x \in c.blocks : x <= a \/ b <= x
        PROVE  codeOffset'[a] + Size(h, a) = codeOffset'[b]
    <3>1. a \in D
      <4> SUFFICES ASSUME a = m PROVE FALSE
        OBVIOUS
      <4>1. b < m \/ b = m
        BY <1>4
      <4> QED  BY <1>4, <2>5, <4>1
    <3>2. CASE b = m
      <4>1. \A x \in D : x <= a
        <5> SUFFICES ASSUME NEW x \in D PROVE x <= a
          OBVIOUS
        <5>1. x \in c.blocks /\ x < m /\ x \in Nat /\ m \in Nat
          BY <1>2, <1>4
        <5>2. ~ m <= x
          BY <5>1
        <5> QED  BY <2>5, <3>2, <5>1, <5>2
      <4> QED  BY <1>3, <1>6, <1>8, <3>1, <3>2, <4>1
    <3>3. CASE b \in D
      BY <1>2, <1>6, <1>8, <2>5, <3>1, <3>3
    <3> QED  BY <3>2, <3>3
  <2>6. D \cup {m} \subseteq c.blocks
    BY <1>2, <1>4
  <2> QED  BY <1>1, <1>2, <1>6, <2>1, <2>2, <2>3, <2>4, <2>5, <2>6 DEF Spread
<1>12. Filled(c, h)
  <2>1. ASSUME NEW a \in D \cup {m}, \A b \in D \cup {m} : b <= a
        PROVE  codeOffset'[a] + Size(h, a) = N + Len(L) + 1
    <3>1. a = m
      <4> SUFFICES ASSUME a \in D PROVE FALSE
        OBVIOUS
      <4>1. a < m /\ m <= a /\ a \in Nat /\ m \in Nat
        BY <1>4, <2>1
      <4> QED  BY <4>1
    <3>2. codeOffset'[a] = N + 1 /\ Size(h, a) = Len(L)
      BY <1>6, <1>9, <3>1
    <3>3. \A p, q \in Nat : p + 1 + q = p + q + 1
      OBVIOUS
    <3>4. N \in Nat /\ Len(L) \in Nat
      BY <1>3, <1>5
    <3> QED  BY <3>2, <3>3, <3>4
  <2>2. ASSUME NEW a \in D \cup {m}, NEW k \in 1..Size(h, a)
        PROVE  /\ codeOffset'[a] + k - 1 \in 1..(N + Len(L))
               /\ code'[codeOffset'[a] + k - 1] = insts[a][k]
    <3>1. CASE a = m
      <4>1. k \in 1..Len(L) /\ codeOffset'[a] = N + 1
        BY <1>6, <1>9, <3>1
      <4>2. codeOffset'[a] + k - 1 = N + k
        BY <1>3, <1>5, <4>1
      <4>3. N + k \in 1..(N + Len(L))
        BY <1>3, <1>5, <4>1
      <4> QED  BY <1>7, <3>1, <4>1, <4>2, <4>3
    <3>2. CASE a \in D
      <4>1. codeOffset'[a] = codeOffset[a] /\ k \in 1..Size(g, a)
        BY <1>6, <1>8, <3>2
      <4>2. codeOffset[a] + k - 1 \in 1..N /\ code[codeOffset[a] + k - 1] = insts[a][k]
        BY <1>3, <3>2, <4>1
      <4>3. codeOffset[a] + k - 1 \in 1..(N + Len(L))
        BY <1>3, <1>5, <4>2
      <4> QED  BY <1>7, <4>1, <4>2, <4>3
    <3> QED  BY <3>1, <3>2
  <2>3. ASSUME NEW i \in 1..Len(code')
        PROVE  \E a \in D \cup {m} : \E k \in 1..Size(h, a) : i = codeOffset'[a] + k - 1
    <3>1. CASE i \in 1..N
      <4>1. PICK a \in D : \E k \in 1..Size(g, a) : i = codeOffset[a] + k - 1
        BY <1>3, <3>1
      <4> QED  BY <1>6, <1>8, <4>1
    <3>2. CASE i - N \in 1..Len(L)
      <4>1. i = codeOffset'[m] + (i - N) - 1
        BY <1>3, <1>6, <1>7
      <4> QED  BY <1>9, <3>2, <4>1
    <3> QED  BY <1>7, <3>1, <3>2
  <2>4. Len(code') = N + Len(L) /\ code' \in Seq(Irs(c))
    BY <1>7
  <2>5. DOMAIN h.at # {}
    BY <1>1, <1>6
  <2> QED  BY <1>1, <1>6, <2>1, <2>2, <2>3, <2>4, <2>5 DEF Filled
<1> QED  BY <1>11, <1>12

-----------------------------------------------------------------------------
(* The result                                                              *)

\* The emitted instruction i is x with its targets relocated.
Moved(c, g, x, i) ==
  /\ i.op = x.op /\ i.at = x.at /\ i.slot = x.slot
  /\ DOMAIN i.to = DOMAIN x.to
  /\ \A j \in DOMAIN x.to : i.to[j] = g.at[Bk(c, x.to[j])]

Emission(c, g) ==
  /\ \A b \in c.blocks : Sound(c, g.insts[b], b, c.n + 1)
  /\ \A a \in c.blocks : \A k \in 1..Size(g, a) :
       g.at[a] + k - 1 \in DOMAIN g.code /\ Moved(c, g, g.insts[a][k], g.code[g.at[a] + k - 1])
  /\ \A i \in DOMAIN g.code : \E a \in c.blocks : \E k \in 1..Size(g, a) : i = g.at[a] + k - 1

\* Every block control can reach was visited.
Closed(c, g) ==
  /\ 1 \in g.visited
  /\ \A n \in 1..c.n : Bk(c, n) \in g.visited => \A t \in Succ(c, n) : Bk(c, t) \in g.visited
  /\ \A k \in 1..Len(c.clauses) :
       /\ c.clauses[k].handler \in g.visited
       /\ c.clauses[k].flags = "filter" => c.clauses[k].filter \in g.visited

Protection(c, g) ==
  /\ DOMAIN g.clauses = 1..Len(c.clauses)
  /\ \A k \in 1..Len(c.clauses) :
       LET x == c.clauses[k]
       IN  /\ g.clauses[k].tryBegin = g.at[x.tryBegin] /\ g.clauses[k].tryEnd = g.at[x.tryEnd]
           /\ g.clauses[k].handler = g.at[x.handler]
           /\ x.flags = "filter" => g.clauses[k].filter = g.at[x.filter]

Result(c, g) ==
  /\ Spread(c, g) /\ DOMAIN g.at = c.blocks
  /\ Emission(c, g) /\ Closed(c, g) /\ Protection(c, g)

Faithful(c, g) ==
  \A n \in 1..c.n : Bk(c, n) \in g.visited => Translated(c, g.insts[Bk(c, n)], c.n + 1, n)

\* The clauses so far are those of the body.
Copied(c) ==
  /\ DOMAIN exClauses = 1..Len(exClauses) /\ Len(exClauses) \in Nat
  /\ \A k \in 1..Len(exClauses) : exClauses[k] = c.clauses[k]

LEMMA SoundGrows ==
  ASSUME NEW c, NEW L, NEW b, NEW u, NEW v, Sound(c, L, b, u),
         \A n \in 1..c.n : n < u => n < v
  PROVE  Sound(c, L, b, v)
BY DEF Sound

LEMMA Relocated ==
  ASSUME NEW c, c = Ctx, Context(c), Loop(c), Spread(c, Out), Filled(c, Out),
         Copied(c), Len(exClauses) = Len(c.clauses), Relocate
  PROVE  Result(c, Out)' /\ (~ stale' => Faithful(c, Out)')
<1> PICK g : g = Out
  OBVIOUS
<1> PICK h : h = Out'
  OBVIOUS
<1>1. /\ g.insts = insts /\ g.at = codeOffset /\ g.code = code
      /\ h.insts = insts /\ h.at = codeOffset /\ h.code = code' /\ h.clauses = exClauses'
      /\ h.visited = visited /\ stale' = stale
  BY DEF Out, Relocate, flow
<1>2. phase = "relocate" /\ Unplaced = {} /\ DOMAIN codeOffset = c.blocks
  <2>1. DOMAIN codeOffset \subseteq c.blocks
    BY <1>1 DEF Spread
  <2>2. Unplaced = c.blocks \ DOMAIN codeOffset
    BY CtxIs DEF Unplaced
  <2> QED  BY <2>1, <2>2 DEF Relocate
<1>3. /\ c.n \in Nat /\ c.n > 0 /\ c.splits \subseteq c.blocks /\ 1 \in c.blocks
      /\ ~ Looping /\ \A b : ~ Middle(c)
  BY <1>2 DEF Context, Coded, Split, Looping, Middle
<1>4. \A o : Reloc(o) = codeOffset[Bk(c, o)]
  BY CtxIs DEF Reloc
<1>5. /\ insts \in [c.blocks -> Seq(Irs(c))]
      /\ \A b \in c.blocks : Block(c, insts[b], b, Upto(c, b), stale)
  BY DEF Loop, Translation
<1>6. \A b : Upto(c, b) = IF b \in visited THEN c.n + 1 ELSE 0
  BY <1>3 DEF Upto
<1>7. Spread(c, h)
  <2>1. Size(h, 0) = Size(g, 0) /\ \A b : Size(h, b) = Size(g, b)
    BY <1>1 DEF Size
  <2> QED  BY <1>1, <2>1 DEF Spread
<1>8. ASSUME NEW b \in c.blocks PROVE Sound(c, insts[b], b, c.n + 1)
  <2>1. Sound(c, insts[b], b, Upto(c, b))
    BY <1>5 DEF Block
  <2>2. \A n \in 1..c.n : n < Upto(c, b) => n < c.n + 1
    BY <1>3, <1>6
  <2> QED  BY <2>1, <2>2, SoundGrows
<1>9. ASSUME NEW a \in c.blocks, NEW k \in 1..Size(h, a)
      PROVE  /\ codeOffset[a] + k - 1 \in DOMAIN code'
             /\ Moved(c, h, insts[a][k], code'[codeOffset[a] + k - 1])
  <2> PICK i : i = codeOffset[a] + k - 1
    OBVIOUS
  <2>1. i \in 1..Len(code) /\ code[i] = insts[a][k] /\ code \in Seq(Irs(c))
    <3>1. k \in 1..Size(g, a)
      BY <1>1 DEF Size
    <3> QED  BY <1>1, <1>2, <3>1 DEF Filled
  <2>2. i \in DOMAIN code' /\ code'[i] = [code[i] EXCEPT !.to = [j \in DOMAIN code[i].to |-> Reloc(code[i].to[j])]]
    <3>1. DOMAIN code = 1..Len(code)
      BY <2>1
    <3>2. code' = [q \in DOMAIN code |-> [code[q] EXCEPT !.to = [j \in DOMAIN code[q].to |-> Reloc(code[q].to[j])]]]
      BY DEF Relocate
    <3> QED  BY ONLY <2>1, <3>1, <3>2
  <2>3. code[i] \in Irs(c)
    BY <2>1, ElementOfSeq
  <2>4. /\ code'[i].op = code[i].op /\ code'[i].at = code[i].at /\ code'[i].slot = code[i].slot
        /\ code'[i].to = [j \in DOMAIN code[i].to |-> Reloc(code[i].to[j])]
    BY <2>2, <2>3 DEF Irs
  <2> QED  BY <1>1, <1>4, <2>1, <2>2, <2>4 DEF Moved
<1>10. Emission(c, h)
  <2>1. ASSUME NEW i \in DOMAIN code' PROVE \E a \in c.blocks : \E k \in 1..Size(h, a) : i = codeOffset[a] + k - 1
    <3>0. DOMAIN code' = DOMAIN code
      BY DEF Relocate
    <3>1. i \in 1..Len(code)
      BY <1>1, <3>0 DEF Filled
    <3>2. \A a : Size(h, a) = Size(g, a)
      BY <1>1 DEF Size
    <3> QED  BY <1>1, <1>2, <3>1, <3>2 DEF Filled
  <2> QED  BY <1>1, <1>8, <1>9, <2>1 DEF Emission
<1>11. Closed(c, h)
  <2>1. \A b : Known(c, b) => b \in visited
    BY <1>3 DEF Known
  <2>2. ASSUME NEW n \in 1..c.n, Bk(c, n) \in visited PROVE n < Upto(c, Bk(c, n))
    BY <1>3, <1>6, <2>2
  <2> QED  BY <1>1, <2>1, <2>2 DEF Closed, Loop, Coverage
<1>12. Protection(c, h)
  <2>1. DOMAIN exClauses' = 1..Len(c.clauses)
    BY DEF Relocate, Copied
  <2>2. ASSUME NEW k \in 1..Len(c.clauses), NEW x, x = c.clauses[k]
        PROVE  /\ exClauses'[k].tryBegin = codeOffset[x.tryBegin] /\ exClauses'[k].tryEnd = codeOffset[x.tryEnd]
               /\ exClauses'[k].handler = codeOffset[x.handler]
               /\ x.flags = "filter" => exClauses'[k].filter = codeOffset[x.filter]
    <3>1. /\ x \in ClauseRecords(c.n) /\ x.handler \in c.splits /\ x.tryBegin \in c.splits /\ x.tryEnd \in c.splits
          /\ x.flags = "filter" => x.filter \in c.splits
      BY <2>2, ClauseAt
    <3>2. \A o \in c.splits : Reloc(o) = codeOffset[o]
      BY <1>3, <1>4, BkBlock
    <3>3. exClauses[k] = x /\ k \in DOMAIN exClauses
      BY <2>2 DEF Copied
    <3>4. exClauses'[k] = [x EXCEPT
                        !.tryBegin = Reloc(x.tryBegin), !.tryEnd = Reloc(x.tryEnd),
                        !.handler = Reloc(x.handler), !.handlerEnd = Reloc(x.handlerEnd),
                        !.filter = IF x.flags = "filter" THEN Reloc(x.filter) ELSE x.filter]
      BY <3>3 DEF Relocate
    <3>5. /\ exClauses'[k].tryBegin = Reloc(x.tryBegin) /\ exClauses'[k].tryEnd = Reloc(x.tryEnd)
          /\ exClauses'[k].handler = Reloc(x.handler)
          /\ x.flags = "filter" => exClauses'[k].filter = Reloc(x.filter)
      BY <3>1, <3>4 DEF ClauseRecords
    <3> QED  BY <3>1, <3>2, <3>5
  <2> QED  BY <1>1, <2>1, <2>2 DEF Protection
<1>13. Result(c, h)
  BY <1>1, <1>2, <1>7, <1>10, <1>11, <1>12 DEF Result
<1>14. ASSUME ~ stale PROVE Faithful(c, h)
  <2> SUFFICES ASSUME NEW n \in 1..c.n, Bk(c, n) \in visited
               PROVE  Translated(c, insts[Bk(c, n)], c.n + 1, n)
    BY <1>1 DEF Faithful
  <2>1. Bk(c, n) \in c.blocks /\ n < c.n + 1
    BY <1>3 DEF Loop, Pending
  <2>2. Block(c, insts[Bk(c, n)], Bk(c, n), c.n + 1, stale)
    BY <1>5, <1>6, <2>1
  <2> QED  BY <1>14, <2>1, <2>2 DEF Block
<1> QED  BY <1>1, <1>13, <1>14

-----------------------------------------------------------------------------
(* Positions in the emitted code                                           *)

\* r is where the code of position n, or of what follows it in its block, begins.
AtPos(c, g, n, r) ==
  LET b == Bk(c, n)
  IN  /\ r >= g.at[b] /\ r <= g.at[b] + Size(g, b) /\ r \in Nat
      /\ \A k \in 1..Size(g, b) : g.at[b] + k - 1 < r <=> g.insts[b][k].at < n

LEMMA BlockIs ==
  ASSUME NEW c, Context(c), NEW g, Result(c, g), NEW b \in c.blocks
  PROVE  /\ Size(g, b) \in Nat /\ g.at[b] \in Nat /\ g.at[b] >= 1 /\ b \in Nat
         /\ Sound(c, g.insts[b], b, c.n + 1)
         /\ \A k \in 1..Size(g, b) :
              LET x == g.insts[b][k]
              IN  /\ x.at \in 0..c.n /\ x.at \in Nat
                  /\ x # InitIr => /\ x.at \in 1..c.n /\ Bk(c, x.at) = b /\ b <= x.at
                                   /\ Range(x.to) \subseteq c.splits
                                   /\ x \in {Normal(c, x.at), Folded(c, x.at)}
                  /\ x = InitIr => k = 1 /\ b = c.first /\ c.init /\ x.at = 0
<1>1. /\ c.n \in Nat /\ c.n + 1 \in Nat /\ b \in 0..(c.n + 1)
  BY BkBlock DEF Context, Coded
<1>2. Size(g, b) \in Nat /\ g.at[b] \in Nat /\ g.at[b] >= 1
  <2>1. g.insts[b] \in Seq(Irs(c))
    BY DEF Result, Spread
  <2>2. Len(g.insts[b]) \in Nat
    BY <2>1
  <2> QED  BY <2>2 DEF Result, Spread, Size
<1>3. Sound(c, g.insts[b], b, c.n + 1)
  BY DEF Result, Emission
<1>4. ASSUME NEW k \in 1..Size(g, b), NEW x, x = g.insts[b][k]
      PROVE   /\ x.at \in 0..c.n /\ x.at \in Nat
              /\ x # InitIr => /\ x.at \in 1..c.n /\ Bk(c, x.at) = b /\ b <= x.at
                               /\ Range(x.to) \subseteq c.splits
                               /\ x \in {Normal(c, x.at), Folded(c, x.at)}
              /\ x = InitIr => k = 1 /\ b = c.first /\ c.init /\ x.at = 0
  <2>1. k \in 1..Len(g.insts[b])
    BY DEF Size
  <2>2. /\ x.at \in 0..c.n /\ x.at \in Nat
        /\ x = InitIr => x.at = 0 /\ k = 1
    BY <1>1, <1>3, <1>4, <2>1, SoundAt
  <2>3. \/ k = 1 /\ x = InitIr /\ b = c.first /\ c.init
        \/ /\ x.at \in 1..c.n /\ Bk(c, x.at) = b
           /\ Range(x.to) \subseteq c.splits
           /\ x \in {Normal(c, x.at), Folded(c, x.at)}
    BY <1>3, <1>4, <2>1 DEF Sound
  <2>4. x = InitIr => ~ x.at \in 1..c.n
    BY <1>1, <2>2
  <2>5. x # InitIr => b <= x.at
    <3> SUFFICES ASSUME x # InitIr PROVE b <= x.at
      OBVIOUS
    <3>1. x.at \in 0..(c.n + 1) /\ Bk(c, x.at) = b
      BY <1>1, <2>3
    <3> QED  BY <3>1, BkIs
  <2> QED  BY <2>2, <2>3, <2>4, <2>5
<1> QED  BY <1>1, <1>2, <1>3, <1>4

LEMMA SplitIs ==
  ASSUME NEW c, Context(c), NEW t \in c.splits
  PROVE  t \in c.blocks /\ t \in Nat /\ t >= 1 /\ Bk(c, t) = t /\ t # c.first
<1>1. c.n \in Nat /\ c.splits \subseteq 1..(c.n + 1) /\ t \in c.blocks
  BY DEF Context, Coded, Split
<1>2. t # c.first
  <2>1. c.first = IF 1 \in c.splits THEN 0 ELSE 1
    BY DEF Context, Split
  <2>2. t \in Nat /\ t >= 1
    BY <1>1
  <2> QED  BY <2>1, <2>2
<1> QED  BY <1>1, <1>2, BkBlock

\* Control enters a block at its first code.
LEMMA AtStart ==
  ASSUME NEW c, Context(c), NEW g, Result(c, g), NEW t \in c.splits
  PROVE  AtPos(c, g, t, g.at[t])
<1>1. t \in c.blocks /\ t \in Nat /\ Bk(c, t) = t /\ t # c.first
  BY SplitIs
<1>2. Size(g, t) \in Nat /\ g.at[t] \in Nat
  BY <1>1, BlockIs
<1>3. ASSUME NEW k \in 1..Size(g, t) PROVE g.insts[t][k].at \in Nat /\ t <= g.insts[t][k].at
  <2>1. g.insts[t][k] # InitIr
    BY <1>1, BlockIs
  <2> QED  BY <1>1, <2>1, BlockIs
<1>4. ASSUME NEW k \in 1..Size(g, t) PROVE g.at[t] + k - 1 < g.at[t] <=> g.insts[t][k].at < t
  <2>1. ~ g.insts[t][k].at < t
    BY <1>1, <1>3
  <2>2. ~ g.at[t] + k - 1 < g.at[t]
    BY <1>2
  <2> QED  BY <2>1, <2>2
<1> QED  BY <1>1, <1>2, <1>4 DEF AtPos

\* What is at the position of n, when n has code.
LEMMA AtCode ==
  ASSUME NEW c, Context(c), NEW g, Result(c, g), NEW n \in 1..c.n, NEW r, AtPos(c, g, n, r),
         NEW b, b = Bk(c, n), NEW k \in 1..Size(g, b), g.insts[b][k].at = n
  PROVE  /\ r = g.at[b] + k - 1 /\ r \in DOMAIN g.code
         /\ Moved(c, g, g.insts[b][k], g.code[r]) /\ g.code[r].at = n
<1> PICK L : L = g.insts[b]
  OBVIOUS
<1> PICK S : S = g.at[b]
  OBVIOUS
<1>1. c.n \in Nat /\ n \in 0..(c.n + 1) /\ n \in Nat
  BY DEF Context, Coded
<1>2. b \in c.blocks
  BY <1>1, BkIs
<1>3. /\ Size(g, b) \in Nat /\ S \in Nat /\ Sound(c, L, b, c.n + 1) /\ Size(g, b) = Len(L)
      /\ \A j \in 1..Size(g, b) : L[j].at \in Nat
  BY <1>2, BlockIs DEF Size
<1>4. /\ r >= S /\ r <= S + Size(g, b) /\ r \in Nat
      /\ \A j \in 1..Size(g, b) : S + j - 1 < r <=> L[j].at < n
  BY DEF AtPos
<1>5. ~ S + k - 1 < r
  BY <1>1, <1>4
<1>6. r = S + k - 1
  <2>1. CASE k = 1
    BY <1>3, <1>4, <1>5, <2>1
  <2>2. CASE k # 1
    <3>1. k - 1 \in 1..Size(g, b) /\ k - 1 < k
      BY <1>3, <2>2
    <3>2. L[k - 1].at < n
      BY <1>3, <3>1 DEF Sound
    <3>3. S + (k - 1) - 1 < r
      BY <1>4, <3>1, <3>2
    <3>4. \A x, y, w \in Nat : y >= 1 /\ ~ x + y - 1 < w /\ x + (y - 1) - 1 < w => w = x + y - 1
      OBVIOUS
    <3>5. k \in Nat /\ k >= 1
      BY <1>3
    <3> QED  BY <1>3, <1>4, <1>5, <3>3, <3>4, <3>5
  <2> QED  BY <2>1, <2>2
<1>7. r \in DOMAIN g.code /\ Moved(c, g, L[k], g.code[r])
  BY <1>2, <1>6 DEF Result, Emission
<1>8. g.code[r].at = n
  BY <1>7 DEF Moved
<1> QED  BY <1>6, <1>7, <1>8

\* The emitted code is at n exactly if n has code.
LEMMA AtEmitted ==
  ASSUME NEW c, Context(c), NEW g, Result(c, g), NEW n \in 1..c.n, NEW r, AtPos(c, g, n, r)
  PROVE  (r \in DOMAIN g.code /\ g.code[r].at = n) <=> Emitted(g.insts[Bk(c, n)], n)
<1>1. c.n \in Nat /\ n \in 0..(c.n + 1) /\ n \in Nat /\ n # 0
  BY DEF Context, Coded
<1>2. ASSUME Emitted(g.insts[Bk(c, n)], n) PROVE r \in DOMAIN g.code /\ g.code[r].at = n
  <2>1. PICK k \in 1..Len(g.insts[Bk(c, n)]) : g.insts[Bk(c, n)][k].at = n
    BY <1>2 DEF Emitted
  <2>2. k \in 1..Size(g, Bk(c, n))
    BY DEF Size
  <2> QED  BY <2>1, <2>2, AtCode
<1>3. ASSUME r \in DOMAIN g.code, g.code[r].at = n PROVE Emitted(g.insts[Bk(c, n)], n)
  <2>0. PICK a \in c.blocks : \E k \in 1..Size(g, a) : r = g.at[a] + k - 1
    BY <1>3 DEF Result, Emission
  <2>1. PICK k \in 1..Size(g, a) : r = g.at[a] + k - 1
    BY <2>0
  <2>2. Moved(c, g, g.insts[a][k], g.code[r])
    BY <2>1 DEF Result, Emission
  <2>3. g.insts[a][k].at = n
    BY <1>3, <2>2 DEF Moved
  <2>4. g.insts[a][k] # InitIr
    BY <1>1, <2>3 DEF InitIr
  <2>5. Bk(c, n) = a
    BY <2>3, <2>4, BlockIs
  <2> QED  BY <2>3, <2>5 DEF Emitted, Size
<1> QED  BY <1>2, <1>3

\* From n to n + 1.
LEMMA AtNext ==
  ASSUME NEW c, Context(c), NEW g, Result(c, g), NEW n \in 1..c.n, n + 1 \in 1..c.n,
         NEW r, AtPos(c, g, n, r),
         NEW q, q = IF Emitted(g.insts[Bk(c, n)], n) THEN r + 1 ELSE r
  PROVE  AtPos(c, g, n + 1, q)
<1> PICK b : b = Bk(c, n)
  OBVIOUS
<1> PICK L : L = g.insts[b]
  OBVIOUS
<1> PICK S : S = g.at[b]
  OBVIOUS
<1> PICK z : z = Size(g, b)
  OBVIOUS
<1>1. c.n \in Nat /\ n \in 0..(c.n + 1) /\ n \in Nat /\ n \in 0..c.n /\ n > 0
  BY DEF Context, Coded
<1>2. b \in c.blocks /\ b <= n /\ \A x \in c.blocks : x <= n => x <= b
  BY <1>1, BkIs
<1>3. /\ z \in Nat /\ S \in Nat /\ b \in Nat /\ z = Len(L)
      /\ \A j \in 1..z : L[j].at \in Nat
      /\ \A j, k \in 1..z : j < k => L[j].at < L[k].at
  <2>1. z = Len(L)
    BY DEF Size
  <2>2. z \in Nat /\ S \in Nat /\ b \in Nat /\ Sound(c, L, b, c.n + 1) /\ \A j \in 1..z : L[j].at \in Nat
    BY <1>2, BlockIs
  <2> QED  BY <2>1, <2>2 DEF Sound
<1>4. /\ r >= S /\ r <= S + z /\ r \in Nat
      /\ \A j \in 1..z : S + j - 1 < r <=> L[j].at < n
  BY DEF AtPos
<1>5. /\ q >= S /\ q <= S + z /\ q \in Nat
      /\ \A j \in 1..z : S + j - 1 < q <=> L[j].at < n + 1
  <2>1. CASE Emitted(L, n)
    <3>1. PICK k \in 1..z : L[k].at = n
      BY <1>3, <2>1 DEF Emitted
    <3>2. r = S + k - 1
      BY <3>1, AtCode
    <3>3. q = S + k /\ q \in Nat
      BY <1>3, <2>1, <3>2
    <3>4. ASSUME NEW j \in 1..z PROVE S + j - 1 < q <=> L[j].at < n + 1
      <4>1. j < k => L[j].at < n
        BY <1>3, <3>1
      <4>2. k < j => n < L[j].at
        BY <1>3, <3>1
      <4>3. j < k \/ j = k \/ k < j
        BY <1>3
      <4>4. L[j].at \in Nat
        BY <1>3
      <4>5. \A x, y, w \in Nat : x + y - 1 < x + w <=> y <= w
        OBVIOUS
      <4>6. j \in Nat /\ k \in Nat
        BY <1>3
      <4>7. S + j - 1 < q <=> j <= k
        BY <1>3, <3>3, <4>5, <4>6
      <4>8. L[j].at < n + 1 <=> ~ n < L[j].at
        BY <1>1, <4>4
      <4>9. j <= k <=> ~ k < j
        BY <4>6
      <4>10. L[j].at < n => ~ n < L[j].at
        BY <1>1, <4>4
      <4>11. j = k => L[j].at = n /\ ~ n < n
        BY <1>1, <3>1
      <4>12. j <= k => ~ n < L[j].at
        BY <4>1, <4>3, <4>9, <4>10, <4>11
      <4> QED  BY <4>2, <4>7, <4>8, <4>9, <4>12
    <3>5. q >= S /\ q <= S + z
      <4>1. \A x, y, w \in Nat : y <= w => x + y >= x /\ x + y <= x + w
        OBVIOUS
      <4>2. k \in Nat /\ k <= z
        BY <1>3
      <4> QED  BY <1>3, <3>3, <4>1, <4>2
    <3> QED  BY <3>3, <3>4, <3>5
  <2>2. CASE ~ Emitted(L, n)
    <3>1. \A j \in 1..z : L[j].at # n /\ L[j].at \in Nat
      BY <1>3, <2>2 DEF Emitted
    <3>2. \A j \in 1..z : L[j].at < n <=> L[j].at < n + 1
      BY <1>1, <3>1
    <3> QED  BY <1>4, <2>2, <3>2
  <2> QED  BY <2>1, <2>2
<1>6. CASE n + 1 \notin c.blocks
  <2>1. Bk(c, n + 1) = b
    BY <1>1, <1>6, BkNext
  <2> QED  BY <1>5, <2>1 DEF AtPos
<1>7. CASE n + 1 \in c.blocks
  <2>1. ASSUME NEW j \in 1..z PROVE L[j].at < n + 1
    <3>1. CASE L[j] = InitIr
      BY <1>1, <3>1 DEF InitIr
    <3>2. CASE L[j] # InitIr
      <4> SUFFICES ASSUME ~ L[j].at < n + 1 PROVE FALSE
        OBVIOUS
      <4>1. L[j].at \in 1..c.n /\ Bk(c, L[j].at) = b
        BY <1>2, <3>2, BlockIs
      <4>2. L[j].at \in 0..(c.n + 1) /\ n + 1 <= L[j].at
        BY <1>1, <4>1
      <4>3. n + 1 <= b
        BY <1>7, <4>1, <4>2, BkIs
      <4> QED  BY <1>1, <1>2, <1>3, <4>3
    <3> QED  BY <3>1, <3>2
  <2>2. ASSUME q # S + z PROVE FALSE
    <3>1. q - S + 1 \in 1..z /\ ~ S + (q - S + 1) - 1 < q
      <4>1. \A x, y, w \in Nat : y >= x /\ y <= x + w /\ y # x + w => y - x + 1 \in 1..w /\ ~ x + (y - x + 1) - 1 < y
        OBVIOUS
      <4> QED  BY <1>3, <1>5, <2>2, <4>1
    <3> QED  BY <1>5, <2>1, <3>1
  <2>3. g.at[n + 1] = S + z
    <3>1. b < n + 1
      BY <1>1, <1>2, <1>3
    <3>2. ASSUME NEW x \in c.blocks PROVE x <= b \/ n + 1 <= x
      <4>1. x \in Nat
        BY BlockIs
      <4> QED  BY <1>1, <1>2, <4>1
    <3> QED  BY <1>2, <1>7, <3>1, <3>2 DEF Result, Spread
  <2>4. n + 1 \in c.splits
    BY <1>1, <1>7 DEF Context, Split
  <2> QED  BY <2>2, <2>3, <2>4, AtStart
<1> QED  BY <1>6, <1>7

\* The prologue comes first, and position 1 after it.
LEMMA AtPrologue ==
  ASSUME NEW c, Context(c), NEW g, Result(c, g)
  PROVE  /\ c.init => 1 \in DOMAIN g.code /\ g.code[1].at = 0 /\ g.code[1].op = "init"
         /\ AtPos(c, g, 1, IF c.init THEN 2 ELSE 1)
         /\ c.init => \A t \in c.splits : g.at[t] > 1
<1>1. /\ c.n \in Nat /\ c.n > 0 /\ c.blocks = c.splits \cup {0, 1} /\ c.init \in BOOLEAN
      /\ c.first = IF 1 \in c.splits THEN 0 ELSE 1
      /\ c.splits \subseteq 1..(c.n + 1)
  BY DEF Context, Coded, Split
<1>2. g.at[0] = 1 /\ 0 \in c.blocks /\ 1 \in c.blocks
  BY <1>1 DEF Result, Spread
<1>3. /\ Size(g, 0) \in Nat /\ Size(g, 1) \in Nat /\ g.at[1] \in Nat
      /\ g.at[1] = 1 + Size(g, 0)
  <2>1. \A x \in c.blocks : x <= 0 \/ 1 <= x
    BY <1>1
  <2>2. g.at[0] + Size(g, 0) = g.at[1]
    BY <1>2, <2>1 DEF Result, Spread
  <2> QED  BY <1>2, <2>2, BlockIs
<1>4. ASSUME NEW k \in 1..Size(g, 0) PROVE k = 1 /\ g.insts[0][k] = InitIr /\ c.first = 0 /\ c.init
  <2>1. g.insts[0][k] = InitIr
    <3> SUFFICES ASSUME g.insts[0][k] # InitIr PROVE FALSE
      OBVIOUS
    <3>1. g.insts[0][k].at \in 1..c.n /\ Bk(c, g.insts[0][k].at) = 0
      BY <1>2, BlockIs
    <3>2. g.insts[0][k].at \in 0..(c.n + 1) /\ 1 <= g.insts[0][k].at
      BY <1>1, <3>1
    <3>3. 1 <= Bk(c, g.insts[0][k].at)
      BY <1>2, <3>2, BkIs
    <3> QED  BY <3>1, <3>3
  <2> QED  BY <1>2, <2>1, BlockIs
<1>5. c.first \in c.blocks /\ (c.init => Size(g, c.first) >= 1 /\ g.insts[c.first][1] = InitIr)
  <2>1. c.first \in c.blocks
    BY <1>1
  <2>2. Sound(c, g.insts[c.first], c.first, c.n + 1) /\ Size(g, c.first) \in Nat /\ Size(g, c.first) = Len(g.insts[c.first])
    BY <2>1, BlockIs DEF Size
  <2>3. g.insts[c.first] = <<>> <=> Len(g.insts[c.first]) = 0
    BY <2>2 DEF Sound
  <2> QED  BY <2>1, <2>2, <2>3 DEF Sound
<1>6. c.first # 0 => Size(g, 0) = 0
  BY <1>3, <1>4
<1>7. g.at[c.first] = 1
  BY <1>1, <1>2, <1>3, <1>6
<1>8. ASSUME c.init PROVE 1 \in DOMAIN g.code /\ g.code[1].at = 0 /\ g.code[1].op = "init"
  <2>1. 1 \in 1..Size(g, c.first)
    <3>1. Size(g, c.first) \in Nat
      BY <1>5, BlockIs
    <3> QED  BY <1>5, <1>8, <3>1
  <2>2. g.at[c.first] + 1 - 1 = 1
    BY <1>7
  <2>3. 1 \in DOMAIN g.code /\ Moved(c, g, g.insts[c.first][1], g.code[1])
    BY <1>5, <2>1, <2>2 DEF Result, Emission
  <2> QED  BY <1>5, <1>8, <2>3 DEF Moved, InitIr
<1>9. ASSUME c.init, NEW t \in c.splits PROVE g.at[t] > 1
  <2>1. t \in c.blocks /\ t \in Nat /\ t >= 1 /\ t # c.first /\ g.at[t] \in Nat
    BY SplitIs, BlockIs
  <2>2. c.first < t
    BY <1>1, <2>1
  <2>3. g.at[c.first] + Size(g, c.first) <= g.at[t]
    BY <1>5, <2>1, <2>2 DEF Result, Spread
  <2>4. Size(g, c.first) \in Nat /\ Size(g, c.first) >= 1
    BY <1>5, <1>9, BlockIs
  <2> QED  BY <1>7, <2>1, <2>3, <2>4
<1>10. AtPos(c, g, 1, IF c.init THEN 2 ELSE 1)
  <2>1. Bk(c, 1) = 1
    BY <1>2, BkBlock
  <2>2. CASE c.first = 0
    <3>1. 1 \in c.splits
      BY <1>1, <2>2
    <3>2. AtPos(c, g, 1, g.at[1])
      BY <3>1, AtStart
    <3>3. g.at[1] = IF c.init THEN 2 ELSE 1
      <4>1. CASE c.init
        <5>1. Size(g, 0) >= 1
          BY <1>5, <2>2, <4>1
        <5>2. ~ 2 \in 1..Size(g, 0)
          BY <1>4
        <5> QED  BY <1>3, <4>1, <5>1, <5>2
      <4>2. CASE ~ c.init
        <5>1. ~ 1 \in 1..Size(g, 0)
          BY <1>4, <4>2
        <5> QED  BY <1>3, <4>2, <5>1
      <4> QED  BY <4>1, <4>2
    <3> QED  BY <3>2, <3>3
  <2>3. CASE c.first # 0
    <3>1. c.first = 1 /\ g.at[1] = 1
      BY <1>1, <1>7, <2>3
    <3>2. ASSUME NEW k \in 1..Size(g, 1)
          PROVE  /\ k = 1 /\ c.init => g.insts[1][k].at = 0
                 /\ ~ (k = 1 /\ c.init) => g.insts[1][k].at >= 1 /\ g.insts[1][k].at \in Nat
      <4>1. k = 1 /\ c.init => g.insts[1][k].at = 0
        BY <1>5, <3>1 DEF InitIr
      <4>2. ~ (k = 1 /\ c.init) => g.insts[1][k] # InitIr
        BY <1>2, BlockIs
      <4>3. g.insts[1][k] # InitIr => 1 <= g.insts[1][k].at /\ g.insts[1][k].at \in Nat
        BY <1>2, BlockIs
      <4> QED  BY <4>1, <4>2, <4>3
    <3>3. CASE c.init
      <4>1. Size(g, 1) >= 1
        BY <1>5, <3>1, <3>3
      <4>2. ASSUME NEW k \in 1..Size(g, 1) PROVE 1 + k - 1 < 2 <=> g.insts[1][k].at < 1
        BY <3>2, <3>3
      <4> QED  BY <1>3, <2>1, <3>1, <3>3, <4>1, <4>2 DEF AtPos
    <3>4. CASE ~ c.init
      <4>1. ASSUME NEW k \in 1..Size(g, 1) PROVE 1 + k - 1 < 1 <=> g.insts[1][k].at < 1
        BY <3>2, <3>4
      <4> QED  BY <1>3, <2>1, <3>1, <3>4, <4>1 DEF AtPos
    <3> QED  BY <3>3, <3>4
  <2> QED  BY <2>2, <2>3
<1> QED  BY <1>8, <1>9, <1>10

-----------------------------------------------------------------------------
(* The two machines: the IL's side                                         *)

Vals == {"obj", "null"}
Which(op, o) == IF op = "switch" THEN o ELSE 1
Taken(op, v, o, D) ==
  \/ op \in {"br", "leave"}
  \/ op = "brtrue" /\ v = "obj"
  \/ op = "brfalse" /\ v = "null"
  \/ op = "beq" /\ o = 1
  \/ op = "switch" /\ o \in D

IlOk(c, g, m) ==
  /\ m.pc \in 0..c.n /\ m.stack \in Seq(Vals)
  /\ m.pc = 0 => c.init /\ m.stack = <<>>
  /\ m.pc # 0 => Len(m.stack) = c.depth[m.pc] /\ Bk(c, m.pc) \in g.visited

LEMMA GoesIs ==
  ASSUME NEW i, NEW v, NEW o, NEW next
  PROVE  Goes(i, v, o, next) = IF Taken(i.op, v, o, DOMAIN i.to) THEN i.to[Which(i.op, o)] ELSE next
<1>1. CASE i.op \in {"br", "leave"}
  BY <1>1 DEF Goes, Taken, Which
<1>2. CASE i.op = "brtrue"
  BY <1>2 DEF Goes, Taken, Which
<1>3. CASE i.op = "brfalse"
  BY <1>3 DEF Goes, Taken, Which
<1>4. CASE i.op = "beq"
  BY <1>4 DEF Goes, Taken, Which
<1>5. CASE i.op = "switch"
  BY <1>5 DEF Goes, Taken, Which
<1>6. CASE i.op \notin {"br", "leave", "brtrue", "brfalse", "beq", "switch"}
  BY <1>6 DEF Goes, Taken, Which
<1> QED  BY <1>1, <1>2, <1>3, <1>4, <1>5, <1>6

LEMMA TakenIs ==
  ASSUME NEW c, Context(c), NEW n \in 1..c.n, Op(c, n) \notin Stops, NEW v, NEW o,
         NEW D, D = DOMAIN To(c, n)
  PROVE  /\ Taken(Op(c, n), v, o, D) =>
              /\ Which(Op(c, n), o) \in D
              /\ To(c, n)[Which(Op(c, n), o)] \in Range(To(c, n))
              /\ Op(c, n) \in BranchTarget \cup {"switch"}
         /\ ~ Taken(Op(c, n), v, o, D) => FallsThrough(c, n) /\ n + 1 \in 1..c.n
<1>1. ASSUME Taken(Op(c, n), v, o, D) PROVE Which(Op(c, n), o) \in D /\ Op(c, n) \in BranchTarget \cup {"switch"}
  <2>1. CASE Op(c, n) = "switch"
    BY <1>1, <2>1 DEF Taken, Which
  <2>2. CASE Op(c, n) # "switch"
    <3>1. Op(c, n) \in BranchTarget
      BY <1>1, <2>2 DEF Taken, BranchTarget
    <3>2. To(c, n) \in Seq(1..c.n) /\ Len(To(c, n)) = 1
      BY <3>1, OneTarget, CodedAt
    <3>3. 1 \in D
      BY <3>2
    <3> QED  BY <2>2, <3>1, <3>3 DEF Which
  <2> QED  BY <2>1, <2>2
<1>2. ASSUME ~ Taken(Op(c, n), v, o, D) PROVE FallsThrough(c, n)
  BY <1>2 DEF Taken, FallsThrough
<1> QED  BY <1>1, <1>2, EdgeIs DEF Range

LEMMA IlRuns ==
  ASSUME NEW c, c = Ctx, Context(c), NEW g, Closed(c, g), IlOk(c, g, il), il.pc # 0,
         NEW n, n = il.pc, Op(c, n) \notin Stops, NEW o \in Oracle, RunIl(o),
         NEW s, s = il.stack, NEW t, t = il'.pc, NEW s1, s1 = il'.stack
  PROVE  /\ n \in 1..c.n /\ t \in 1..c.n /\ IlOk(c, g, il')
         /\ Instr.op = Op(c, n) /\ Instr.to = To(c, n)
         /\ t = IF Taken(Op(c, n), OnTop, o, DOMAIN To(c, n)) THEN To(c, n)[Which(Op(c, n), o)] ELSE n + 1
         /\ Pushed(Op(c, n)) = 1 =>
              /\ s1 = Append(s, Added(Op(c, n), OnTop, o)[1])
              /\ ~ Taken(Op(c, n), OnTop, o, DOMAIN To(c, n))
         /\ Pushed(Op(c, n)) = 0 =>
              /\ Len(s1) \in 0..Len(s) /\ \A d \in 1..Len(s1) : s1[d] = s[d]
              /\ Popped(Op(c, n)) > 0 => Len(s1) < Len(s)
              /\ Op(c, n) = "br" => s1 = s
<1> PICK op : op = Op(c, n)
  OBVIOUS
<1> PICK T : T = Vals
  OBVIOUS
<1> PICK v : v = OnTop
  OBVIOUS
<1>1. /\ n \in 1..c.n /\ c.n \in Nat /\ s \in Seq(T) /\ Len(s) = c.depth[n] /\ Len(s) \in Nat
      /\ Bk(c, n) \in g.visited
  <2>1. n \in 1..c.n
    BY DEF IlOk, Context, Coded
  <2> QED  BY <2>1, CodedAt DEF IlOk
<1>2. Instr.op = op /\ Instr.to = To(c, n)
  BY CtxIs DEF Instr
<1>3. /\ Pushed(op) \in {0, 1} /\ Popped(op) \in Nat /\ Popped(op) <= Len(s) /\ (op = "dup" => Len(s) >= 1)
      /\ Pushed(op) = 1 <=> op \in {"push", "new", "dup"}
      /\ Pushed(op) = 1 => Popped(op) = 0
  <2>1. /\ Pushed(op) \in {0, 1} /\ Popped(op) \in Nat
        /\ Pushed(op) = 1 <=> op \in {"push", "new", "dup"}
    BY DEF Pushed, Popped
  <2>2. Pushed(op) = 1 => Popped(op) = 0
    BY <2>1 DEF Popped
  <2> QED  BY <1>1, <2>1, <2>2 DEF Context, Stacked
<1>4. t = IF Taken(op, v, o, DOMAIN To(c, n)) THEN To(c, n)[Which(op, o)] ELSE n + 1
  <2>1. t = Goes(Instr, v, o, n + 1)
    BY DEF RunIl
  <2> QED  BY <1>2, <2>1, GoesIs
<1>5. t \in Succ(c, n) /\ t \in 1..c.n /\ c.depth[t] = After(c, n)
  <2>1. CASE Taken(op, v, o, DOMAIN To(c, n))
    <3>1. t \in Range(To(c, n))
      BY <1>1, <1>4, <2>1, TakenIs
    <3> QED  BY <1>1, <3>1, EdgeIs DEF Succ
  <2>2. CASE ~ Taken(op, v, o, DOMAIN To(c, n))
    <3>1. t = n + 1 /\ FallsThrough(c, n)
      BY <1>1, <1>4, <2>2, TakenIs
    <3> QED  BY <1>1, <3>1, EdgeIs DEF Succ
  <2> QED  BY <2>1, <2>2
<1>6. Bk(c, t) \in g.visited
  BY <1>1, <1>5 DEF Closed
<1>7. s1 = IF op = "leave" THEN <<>> ELSE SubSeq(s, 1, Len(s) - Popped(op)) \o Added(op, v, o)
  BY <1>2 DEF RunIl
<1>8. v \in T
  <2>1. CASE s = <<>>
    BY <2>1 DEF OnTop, Vals
  <2>2. CASE s # <<>>
    <3>1. Len(s) \in 1..Len(s)
      BY <1>1, <2>2
    <3>2. s[Len(s)] \in T
      BY <1>1, <3>1, ElementOfSeq
    <3> QED  BY <2>2, <3>2 DEF OnTop, Last
  <2> QED  BY <2>1, <2>2
<1>9. CASE Pushed(op) = 1
  <2>1. op # "leave" /\ Popped(op) = 0 /\ op \in {"push", "new", "dup"}
    BY <1>3, <1>9
  <2>2. PICK a \in T : Added(op, v, o) = <<a>>
    <3>1. Value(o) \in T /\ "obj" \in T
      BY DEF Value, Vals
    <3> QED  BY <1>8, <2>1, <3>1 DEF Added
  <2>3. SubSeq(s, 1, Len(s) - 0) = s
    <3>1. Len(s) - 0 = Len(s)
      BY <1>1
    <3>2. SubSeq(s, 1, Len(s)) \in Seq(T) /\ Len(SubSeq(s, 1, Len(s))) = Len(s) /\ \A p \in 1..Len(s) : SubSeq(s, 1, Len(s))[p] = s[p]
      <4>1. Len(s) \in 0..Len(s)
        BY <1>1
      <4> QED  BY <1>1, <4>1, SubSeqIs
    <3> QED  BY <1>1, <3>1, <3>2
  <2>4. s1 = s \o <<a>>
    BY <1>7, <2>1, <2>2, <2>3
  <2>5. s1 = Append(s, a)
    BY <1>1, <2>2, <2>4
  <2>6. s1 \in Seq(T) /\ Len(s1) = Len(s) + 1
    BY <1>1, <2>2, <2>5
  <2>7. After(c, n) = Len(s) + 1
    BY <1>1, <1>9, <2>1 DEF After
  <2>8. <<a>>[1] = a
    OBVIOUS
  <2>9. ~ Taken(op, v, o, DOMAIN To(c, n))
    BY <2>1 DEF Taken
  <2>10. IlOk(c, g, il')
    BY <1>1, <1>5, <1>6, <2>6, <2>7 DEF IlOk
  <2> QED  BY <1>1, <1>2, <1>4, <1>5, <1>9, <2>2, <2>5, <2>8, <2>9, <2>10
<1>10. CASE Pushed(op) = 0
  <2> PICK k : k = Len(s) - Popped(op)
    OBVIOUS
  <2>1. k \in 0..Len(s) /\ (Popped(op) > 0 => k < Len(s)) /\ (Popped(op) = 0 => k = Len(s))
    BY <1>1, <1>3
  <2>2. /\ SubSeq(s, 1, k) \in Seq(T) /\ Len(SubSeq(s, 1, k)) = k
        /\ \A p \in 1..k : SubSeq(s, 1, k)[p] = s[p]
    BY <1>1, <2>1, SubSeqIs
  <2>3. CASE op = "leave"
    <3>1. s1 = <<>> /\ After(c, n) = 0 /\ Popped(op) = 0
      BY <1>7, <2>3 DEF After, Popped
    <3>2. s1 \in Seq(T) /\ Len(s1) = 0 /\ 0 \in 0..Len(s)
      BY <1>1, <3>1
    <3>3. IlOk(c, g, il')
      BY <1>1, <1>5, <1>6, <3>1, <3>2 DEF IlOk
    <3> QED  BY <1>1, <1>2, <1>4, <1>5, <1>10, <2>3, <3>1, <3>2, <3>3
  <2>4. CASE op # "leave"
    <3>1. Added(op, v, o) = <<>>
      BY <1>3, <1>10 DEF Added
    <3>2. s1 = SubSeq(s, 1, k)
      <4>1. s1 = SubSeq(s, 1, k) \o <<>>
        BY <1>7, <2>4, <3>1
      <4> QED  BY <2>2, <4>1
    <3>3. After(c, n) = k
      BY <1>1, <1>3, <1>10, <2>4 DEF After
    <3>4. IlOk(c, g, il')
      BY <1>1, <1>5, <1>6, <2>2, <3>2, <3>3 DEF IlOk
    <3>5. op = "br" => s1 = s
      <4> SUFFICES ASSUME op = "br" PROVE s1 = s
        OBVIOUS
      <4>1. k = Len(s)
        BY <2>1 DEF Popped
      <4> QED  BY <1>1, <2>2, <3>2, <4>1
    <3> QED  BY <1>1, <1>2, <1>4, <1>5, <1>10, <2>1, <2>2, <3>2, <3>4, <3>5
  <2> QED  BY <2>3, <2>4
<1> QED  BY <1>3, <1>9, <1>10

-----------------------------------------------------------------------------
(* The two machines side by side                                           *)

InWindow(c, g, n) == \E j, m \in 1..c.n : Window(c, g.insts[Bk(c, n)], j, m) /\ j < n /\ n <= m

In(slots, d) == IF d \in DOMAIN slots THEN slots[d] ELSE "null"

\* Every slot has the value of the stack, but for an object that was not created.
SlotsOk(c, g, n, s, slots) ==
  /\ \A d \in 1..Len(s) : d < Len(s) \/ ~ InWindow(c, g, n) => In(slots, d) = s[d]
  /\ InWindow(c, g, n) => Len(s) > 0 /\ s[Len(s)] = "obj"

Agree(c, g, m, r) ==
  /\ m.pc = 0 => r.pc = 1
  /\ m.pc # 0 => AtPos(c, g, m.pc, r.pc) /\ SlotsOk(c, g, m.pc, m.stack, r.slots)

LEMMA NoWindowAtStart ==
  ASSUME NEW c, Context(c), NEW g, NEW n \in 1..c.n, n \in c.blocks
  PROVE  ~ InWindow(c, g, n)
<1> SUFFICES ASSUME NEW j \in 1..c.n, NEW m \in 1..c.n, Window(c, g.insts[Bk(c, n)], j, m), j < n, n <= m
             PROVE  FALSE
  BY DEF InWindow
<1>1. c.n \in Nat /\ Bk(c, j) = Bk(c, m)
  BY DEF Window, Context, Coded
<1>2. j \in 0..(c.n + 1) /\ m \in 0..(c.n + 1) /\ n \in 0..(c.n + 1) /\ j <= n
  BY <1>1
<1> QED  BY <1>1, <1>2, BkBetween

\* A window is entered at its first instruction.
LEMMA NoWindowNext ==
  ASSUME NEW c, Context(c), NEW g, NEW n \in 1..c.n, n + 1 \in 1..c.n, ~ InWindow(c, g, n),
         \A m \in 1..c.n : ~ Window(c, g.insts[Bk(c, n)], n, m)
  PROVE  ~ InWindow(c, g, n + 1)
<1>1. c.n \in Nat /\ n \in 0..c.n
  BY DEF Context, Coded
<1>2. CASE n + 1 \in c.blocks
  BY <1>2, NoWindowAtStart
<1>3. CASE n + 1 \notin c.blocks
  <2> SUFFICES ASSUME NEW j \in 1..c.n, NEW m \in 1..c.n, Window(c, g.insts[Bk(c, n + 1)], j, m), j < n + 1, n + 1 <= m
               PROVE  FALSE
    BY DEF InWindow
  <2>1. Bk(c, n + 1) = Bk(c, n)
    BY <1>1, <1>3, BkNext
  <2>2. j # n
    BY <2>1
  <2>3. j < n /\ n <= m
    BY <1>1, <2>2
  <2> QED  BY <2>1, <2>3 DEF InWindow
<1> QED  BY <1>2, <1>3

\* An instruction begins a window, is inside one, ends one, or has nothing to
\* do with any.
LEMMA Kinds ==
  ASSUME NEW c, Context(c), NEW g, Faithful(c, g), NEW n \in 1..c.n, Bk(c, n) \in g.visited,
         NEW L, L = g.insts[Bk(c, n)]
  PROVE  \/ \E m \in 1..c.n : Window(c, L, n, m)
         \/ \E j, m \in 1..c.n : Window(c, L, j, m) /\ j < n /\ n < m
         \/ \E j \in 1..c.n : Window(c, L, j, n)
         \/ /\ ~ InWindow(c, g, n) /\ Plain(c, L, n)
            /\ \A m \in 1..c.n : ~ Window(c, L, n, m)
<1>1. c.n \in Nat
  BY DEF Context, Coded
<1>2. Translated(c, L, c.n + 1, n)
  BY DEF Faithful
<1>3. CASE InWindow(c, g, n)
  <2>1. PICK j, m \in 1..c.n : Window(c, L, j, m) /\ j < n /\ n <= m
    BY <1>3 DEF InWindow
  <2>2. n < m \/ n = m
    BY <1>1, <2>1
  <2> QED  BY <2>1, <2>2
<1>4. CASE ~ InWindow(c, g, n)
  <2>1. \A j \in 1..c.n : Window(c, L, j, n) => InWindow(c, g, n)
    <3> SUFFICES ASSUME NEW j \in 1..c.n, Window(c, L, j, n) PROVE InWindow(c, g, n)
      OBVIOUS
    <3>1. j < n /\ n <= n
      BY <1>1 DEF Window
    <3> QED  BY <3>1 DEF InWindow
  <2> QED  BY <1>2, <1>4, <2>1 DEF Translated
<1> QED  BY <1>3, <1>4

LEMMA OutIs ==
  ASSUME NEW g, g = Out
  PROVE  /\ g.insts = insts /\ g.at = codeOffset /\ g.code = code /\ g.clauses = exClauses
         /\ g.visited = visited /\ \A d : Slot(d) = In(ir.slots, d)
BY DEF Out, Slot, In

LEMMA Matching ==
  ASSUME NEW c, Context(c), NEW g, g = Out, Result(c, g), il.pc \in 1..c.n, AtPos(c, g, il.pc, ir.pc)
  PROVE  Matched <=> Emitted(g.insts[Bk(c, il.pc)], il.pc)
BY AtEmitted, OutIs DEF Matched

\* An instruction translated as it stands: both sides take the same branch and
\* give the same value.
LEMMA NormalRuns ==
  ASSUME NEW c, c = Ctx, Context(c), NEW g, g = Out, Result(c, g), IlOk(c, g, il), Agree(c, g, il, ir),
         il.pc # 0, NEW n, n = il.pc, Op(c, n) \notin Stops, NEW o \in Oracle, RunIl(o), RunIr(o),
         NEW L, L = g.insts[Bk(c, n)], NEW k \in 1..Len(L), L[k] = Normal(c, n),
         ~ InWindow(c, g, n), \A m \in 1..c.n : ~ Window(c, L, n, m)
  PROVE  Agree(c, g, il', ir')
<1> PICK op : op = Op(c, n)
  OBVIOUS
<1> PICK D : D = DOMAIN To(c, n)
  OBVIOUS
<1> PICK s : s = il.stack
  OBVIOUS
<1> PICK s1 : s1 = il'.stack
  OBVIOUS
<1> PICK t : t = il'.pc
  OBVIOUS
<1> PICK i : i = code[ir.pc]
  OBVIOUS
<1> PICK v : v = Slot(IF i.op = "dup" THEN i.slot - 1 ELSE i.slot)
  OBVIOUS
<1> PICK f : f = ir.slots
  OBVIOUS
<1>1. /\ n \in 1..c.n /\ t \in 1..c.n
      /\ t = IF Taken(op, OnTop, o, D) THEN To(c, n)[Which(op, o)] ELSE n + 1
      /\ Pushed(op) = 1 =>
              /\ s1 = Append(s, Added(op, OnTop, o)[1])
              /\ ~ Taken(op, OnTop, o, D)
      /\ Pushed(op) = 0 =>
              /\ Len(s1) \in 0..Len(s) /\ \A d \in 1..Len(s1) : s1[d] = s[d]
              /\ Popped(op) > 0 => Len(s1) < Len(s)
  BY IlRuns DEF Result
<1>2. /\ AtPos(c, g, n, ir.pc) /\ Len(s) = c.depth[n] /\ c.depth[n] \in Nat /\ c.n \in Nat /\ s \in Seq(Vals)
      /\ \A d \in 1..Len(s) : In(f, d) = s[d]
  BY <1>1, CodedAt DEF Agree, SlotsOk, IlOk
<1>3. /\ i.op = op /\ i.slot = SlotOf(c, n) /\ DOMAIN i.to = D
      /\ \A j \in D : i.to[j] = g.at[Bk(c, To(c, n)[j])]
      /\ Range(To(c, n)) \subseteq c.splits
  <2>1. L[k].at = n /\ L[k].op = op /\ L[k].to = To(c, n) /\ L[k].slot = SlotOf(c, n) /\ L[k] # InitIr
    BY <1>1, <1>2 DEF Normal, InitIr
  <2>2. k \in 1..Size(g, Bk(c, n)) /\ Bk(c, n) \in c.blocks
    <3>1. n \in 0..(c.n + 1)
      BY <1>1, <1>2
    <3> QED  BY <3>1, BkIs DEF Size
  <2>3. Moved(c, g, L[k], g.code[ir.pc])
    BY <1>1, <1>2, <2>1, <2>2, AtCode
  <2>4. g.code[ir.pc] = i
    BY OutIs
  <2>5. Range(L[k].to) \subseteq c.splits
    BY <2>1, <2>2, BlockIs
  <2> QED  BY <2>1, <2>3, <2>4, <2>5 DEF Moved
<1>4. op \in Tests => v = OnTop
  <2> SUFFICES ASSUME op \in Tests PROVE v = OnTop
    OBVIOUS
  <2>1. i.slot = Len(s) /\ Len(s) >= 1 /\ v = Slot(i.slot)
    <3>1. Popped(op) = 1 /\ Pushed(op) = 0 /\ op \notin {"work", "br", "leave", "dup"}
      BY DEF Popped, Pushed, Tests
    <3>2. c.depth[n] >= 1
      BY <1>1, <3>1 DEF Context, Stacked
    <3> QED  BY <1>2, <1>3, <3>1, <3>2 DEF SlotOf
  <2>2. Slot(i.slot) = s[Len(s)]
    BY <1>2, <2>1, OutIs
  <2>3. OnTop = s[Len(s)]
    <3>1. s # <<>>
      BY <2>1
    <3> QED  BY <3>1 DEF OnTop, Last
  <2> QED  BY <2>1, <2>2, <2>3
<1>5. Taken(op, v, o, D) <=> Taken(op, OnTop, o, D)
  BY <1>4 DEF Taken, Tests
<1>6. ir'.pc = IF Taken(op, OnTop, o, D) THEN g.at[Bk(c, t)] ELSE ir.pc + 1
  <2>1. ir'.pc = Goes(i, v, o, ir.pc + 1)
    BY DEF RunIr
  <2>2. ir'.pc = IF Taken(op, v, o, D) THEN i.to[Which(op, o)] ELSE ir.pc + 1
    BY <1>3, <2>1, GoesIs
  <2>3. Taken(op, OnTop, o, D) => Which(op, o) \in D
    BY <1>1, TakenIs
  <2> QED  BY <1>1, <1>3, <1>5, <2>2, <2>3
<1>7. AtPos(c, g, t, ir'.pc) /\ ~ InWindow(c, g, t)
  <2>1. CASE Taken(op, OnTop, o, D)
    <3>1. t \in c.splits
      BY <1>1, <1>3, <2>1, TakenIs
    <3>2. t \in c.blocks /\ Bk(c, t) = t
      BY <3>1, SplitIs
    <3> QED  BY <1>1, <1>6, <2>1, <3>1, <3>2, AtStart, NoWindowAtStart
  <2>2. CASE ~ Taken(op, OnTop, o, D)
    <3>1. t = n + 1 /\ ir'.pc = ir.pc + 1
      BY <1>1, <1>6, <2>2
    <3>2. Emitted(g.insts[Bk(c, n)], n)
      <4>1. L[k].at = n
        BY DEF Normal
      <4> QED  BY <4>1 DEF Emitted
    <3>3. ~ InWindow(c, g, n + 1)
      BY <1>1, <3>1, NoWindowNext
    <3>4. AtPos(c, g, n + 1, ir.pc + 1)
      BY <1>1, <1>2, <3>1, <3>2, AtNext
    <3> QED  BY <3>1, <3>3, <3>4
  <2> QED  BY <2>1, <2>2
<1>8. ir'.slots = IF Added(op, v, o) = <<>> THEN f ELSE Put(f, i.slot, Added(op, v, o)[1])
  BY <1>3 DEF RunIr
<1>9. ASSUME NEW d \in 1..Len(s1) PROVE In(ir'.slots, d) = s1[d]
  <2>1. CASE Pushed(op) = 1
    <3>1. op \in {"push", "new", "dup"}
      BY <2>1 DEF Pushed
    <3>2. i.slot = Len(s) + 1
      BY <1>2, <1>3, <2>1, <3>1 DEF SlotOf
    <3>3. Added(op, v, o) = Added(op, OnTop, o)
      <4>1. CASE op = "dup"
        <5>1. Len(s) >= 1
          BY <1>1, <1>2, <4>1 DEF Context, Stacked
        <5>2. i.slot - 1 = Len(s)
          BY <1>2, <3>2
        <5>3. v = Slot(Len(s))
          BY <1>3, <4>1, <5>2
        <5>4. v = s[Len(s)]
          BY <1>2, <5>1, <5>3, OutIs
        <5>5. OnTop = s[Len(s)]
          <6>1. s # <<>>
            BY <5>1
          <6> QED  BY <6>1 DEF OnTop, Last
        <5> QED  BY <5>4, <5>5
      <4>2. CASE op # "dup"
        BY <3>1, <4>2 DEF Added
      <4> QED  BY <4>1, <4>2
    <3> PICK a : a = Added(op, OnTop, o)[1]
      OBVIOUS
    <3>4. Added(op, OnTop, o) # <<>>
      <4>1. CASE op = "push"
        BY <4>1 DEF Added
      <4>2. CASE op = "new"
        BY <4>2 DEF Added
      <4>3. CASE op = "dup"
        BY <4>3 DEF Added
      <4> QED  BY <3>1, <4>1, <4>2, <4>3
    <3>5. ir'.slots = Put(f, Len(s) + 1, a)
      BY <1>8, <3>2, <3>3, <3>4
    <3>6. In(ir'.slots, d) = IF d = Len(s) + 1 THEN a ELSE In(f, d)
      BY <3>5 DEF In, Put
    <3>7. s1 = Append(s, a) /\ Len(s) \in Nat
      BY <1>1, <1>2, <2>1
    <3>8. Len(s1) = Len(s) + 1 /\ s1[Len(s) + 1] = a /\ \A p \in 1..Len(s) : s1[p] = s[p]
      <4>1. s \in Seq(Vals \cup {a}) /\ a \in Vals \cup {a}
        BY <1>2
      <4> QED  BY <3>7, <4>1, AppendIs
    <3>9. d = Len(s) + 1 \/ d \in 1..Len(s)
      BY <3>7, <3>8
    <3>10. d \in 1..Len(s) => d # Len(s) + 1
      BY <3>7
    <3> QED  BY <1>2, <3>6, <3>8, <3>9, <3>10
  <2>2. CASE Pushed(op) # 1
    <3>1. Pushed(op) = 0 /\ op \notin {"push", "new", "dup"}
      BY <2>2 DEF Pushed
    <3>2. Added(op, v, o) = <<>>
      BY <3>1 DEF Added
    <3>3. d \in 1..Len(s) /\ s1[d] = s[d]
      BY <1>1, <1>2, <3>1
    <3> QED  BY <1>2, <1>8, <3>2, <3>3
  <2> QED  BY <2>1, <2>2
<1>10. t # 0
  BY <1>1
<1> QED  BY <1>7, <1>9, <1>10 DEF Agree, SlotsOk

\* An instruction without IR: the emitted code waits.
LEMMA QuietRuns ==
  ASSUME NEW c, c = Ctx, Context(c), NEW g, g = Out, Result(c, g), IlOk(c, g, il), Agree(c, g, il, ir),
         il.pc # 0, NEW n, n = il.pc, Op(c, n) \notin Stops, NEW o \in Oracle, RunIl(o), ir' = ir,
         NEW L, L = g.insts[Bk(c, n)], ~ Emitted(L, n), Quiet(c, n),
         ~ InWindow(c, g, n), \A m \in 1..c.n : ~ Window(c, L, n, m)
  PROVE  Agree(c, g, il', ir')
<1> PICK op : op = Op(c, n)
  OBVIOUS
<1> PICK D : D = DOMAIN To(c, n)
  OBVIOUS
<1> PICK s : s = il.stack
  OBVIOUS
<1> PICK s1 : s1 = il'.stack
  OBVIOUS
<1> PICK t : t = il'.pc
  OBVIOUS
<1>1. /\ n \in 1..c.n /\ t \in 1..c.n
      /\ t = IF Taken(op, OnTop, o, D) THEN To(c, n)[Which(op, o)] ELSE n + 1
      /\ Pushed(op) = 0 => Len(s1) \in 0..Len(s) /\ \A d \in 1..Len(s1) : s1[d] = s[d]
  BY IlRuns DEF Result
<1>2. /\ AtPos(c, g, n, ir.pc) /\ Len(s) \in Nat
      /\ \A d \in 1..Len(s) : In(ir.slots, d) = s[d]
  BY DEF Agree, SlotsOk, IlOk
<1>3. Pushed(op) = 0
  BY DEF Quiet, Pushed, Tests
<1>4. t = n + 1
  <2> SUFFICES ASSUME Taken(op, OnTop, o, D) PROVE t = n + 1
    BY <1>1
  <2>1. To(c, n)[Which(op, o)] \in Range(To(c, n)) /\ op # "pop"
    BY <1>1, TakenIs DEF BranchTarget
  <2>2. AwayOf(c, n) = {}
    BY <2>1 DEF Quiet
  <2> QED  BY <1>1, <2>1, <2>2 DEF AwayOf
<1>5. AtPos(c, g, n + 1, ir.pc) /\ ~ InWindow(c, g, n + 1)
  BY <1>1, <1>2, <1>4, AtNext, NoWindowNext
<1>6. \A d \in 1..Len(s1) : In(ir'.slots, d) = s1[d]
  BY <1>1, <1>2, <1>3
<1>7. t # 0
  BY <1>1
<1> QED  BY <1>4, <1>5, <1>6, <1>7 DEF Agree, SlotsOk

\* A window begins: the object is created on the IL's side only.
LEMMA WindowBegins ==
  ASSUME NEW c, c = Ctx, Context(c), NEW g, g = Out, Result(c, g), IlOk(c, g, il), Agree(c, g, il, ir),
         il.pc # 0, NEW n, n = il.pc, NEW o \in Oracle, RunIl(o),
         IF Matched THEN RunIr(o) ELSE ir' = ir,
         NEW L, L = g.insts[Bk(c, n)], NEW m \in 1..c.n, Window(c, L, n, m)
  PROVE  Agree(c, g, il', ir')
<1> PICK s : s = il.stack
  OBVIOUS
<1> PICK s1 : s1 = il'.stack
  OBVIOUS
<1> PICK t : t = il'.pc
  OBVIOUS
<1>0. Op(c, n) = "new" /\ n < m /\ Bk(c, n) = Bk(c, m) /\ n \in 1..c.n /\ c.n \in Nat
  BY DEF Window, Context, Coded
<1>1. t \in 1..c.n /\ t = n + 1 /\ s1 = Append(s, Added("new", OnTop, o)[1])
  <2>1. Op(c, n) \notin Stops /\ Pushed(Op(c, n)) = 1
    BY <1>0 DEF Stops, StaticBranch, Pushed
  <2> QED  BY <1>0, <2>1, IlRuns DEF Result
<1>2. ~ Emitted(L, n)
  <2>1. n \in n..(m - 1)
    BY <1>0
  <2> QED  BY <2>1 DEF Window
<1>3. AtPos(c, g, n, ir.pc) /\ s \in Seq(Vals) /\ Len(s) \in Nat
  BY DEF Agree, IlOk
<1>4. ir' = ir
  BY <1>0, <1>2, <1>3, Matching
<1>5. ~ InWindow(c, g, n)
  <2> SUFFICES ASSUME NEW j \in 1..c.n, NEW q \in 1..c.n, Window(c, L, j, q), j < n, n <= q PROVE FALSE
    BY DEF InWindow
  <2>1. n = q \/ n \in (j + 1)..(q - 1)
    BY <1>0
  <2> QED  BY <1>0, <2>1 DEF Window, Tests
<1>6. \A d \in 1..Len(s) : In(ir.slots, d) = s[d]
  BY <1>5 DEF Agree, SlotsOk
<1>7. AtPos(c, g, n + 1, ir.pc)
  BY <1>0, <1>1, <1>2, <1>3, AtNext
<1>8. InWindow(c, g, n + 1)
  <2>1. n \in 0..(c.n + 1) /\ n + 1 \in 0..(c.n + 1) /\ m \in 0..(c.n + 1) /\ n <= n + 1 /\ n + 1 <= m /\ n < n + 1
    BY <1>0
  <2>2. Bk(c, n + 1) = Bk(c, n)
    BY <1>0, <2>1, BkBetween
  <2> QED  BY <1>0, <2>1, <2>2 DEF InWindow
<1>9. s1 = Append(s, "obj")
  <2>1. Added("new", OnTop, o) = <<"obj">>
    BY DEF Added
  <2> QED  BY <1>1, <2>1
<1>10. Len(s1) = Len(s) + 1 /\ s1[Len(s) + 1] = "obj" /\ \A p \in 1..Len(s) : s1[p] = s[p]
  <2>1. "obj" \in Vals
    BY DEF Vals
  <2> QED  BY <1>3, <1>9, <2>1, AppendIs
<1>11. ASSUME NEW d \in 1..Len(s1), d < Len(s1) PROVE In(ir'.slots, d) = s1[d]
  <2>1. d \in 1..Len(s)
    BY <1>3, <1>10, <1>11
  <2> QED  BY <1>4, <1>6, <1>10, <2>1
<1>12. Len(s1) > 0 /\ s1[Len(s1)] = "obj" /\ t # 0
  BY <1>1, <1>3, <1>10
<1> QED  BY <1>1, <1>4, <1>7, <1>8, <1>11, <1>12 DEF Agree, SlotsOk

\* Inside a window control only runs on.
LEMMA WindowRuns ==
  ASSUME NEW c, c = Ctx, Context(c), NEW g, g = Out, Result(c, g), IlOk(c, g, il), Agree(c, g, il, ir),
         il.pc # 0, NEW n, n = il.pc, NEW o \in Oracle, RunIl(o),
         IF Matched THEN RunIr(o) ELSE ir' = ir,
         NEW L, L = g.insts[Bk(c, n)], NEW j \in 1..c.n, NEW m \in 1..c.n, Window(c, L, j, m), j < n, n < m
  PROVE  Agree(c, g, il', ir')
<1> PICK s : s = il.stack
  OBVIOUS
<1> PICK t : t = il'.pc
  OBVIOUS
<1>0. n \in 1..c.n /\ c.n \in Nat /\ j \in 1..c.n /\ m \in 1..c.n
  BY DEF IlOk, Context, Coded
<1>1. Op(c, n) = "br" /\ AwayOf(c, n) = {} /\ ~ Emitted(L, n) /\ Bk(c, j) = Bk(c, m)
  <2>1. n \in (j + 1)..(m - 1) /\ n \in j..(m - 1)
    BY <1>0
  <2> QED  BY <2>1 DEF Window
<1>2. t \in 1..c.n /\ t = n + 1 /\ il'.stack = s
  <2>1. Op(c, n) \notin Stops /\ Pushed(Op(c, n)) = 0 /\ Taken(Op(c, n), OnTop, o, DOMAIN To(c, n))
    BY <1>1 DEF Stops, StaticBranch, Pushed, Taken
  <2>2. t \in 1..c.n /\ t = To(c, n)[Which(Op(c, n), o)] /\ il'.stack = s
    BY <1>1, <2>1, IlRuns DEF Result
  <2>3. t \in Range(To(c, n))
    BY <1>0, <2>1, <2>2, TakenIs
  <2> QED  BY <1>1, <2>2, <2>3 DEF AwayOf
<1>3. AtPos(c, g, n, ir.pc)
  BY DEF Agree
<1>4. ir' = ir
  BY <1>0, <1>1, <1>3, Matching
<1>5. InWindow(c, g, n)
  <2>1. n <= m
    BY <1>0
  <2> QED  BY <2>1 DEF InWindow
<1>6. InWindow(c, g, n + 1)
  <2>1. /\ j \in 0..(c.n + 1) /\ n \in 0..(c.n + 1) /\ n + 1 \in 0..(c.n + 1) /\ m \in 0..(c.n + 1)
        /\ j <= n /\ n <= m /\ j <= n + 1 /\ n + 1 <= m /\ j < n + 1
    BY <1>0
  <2>2. Bk(c, n + 1) = Bk(c, j) /\ Bk(c, n) = Bk(c, j)
    BY <1>1, <2>1, BkBetween
  <2> QED  BY <2>1, <2>2 DEF InWindow
<1>7. AtPos(c, g, n + 1, ir.pc)
  BY <1>0, <1>1, <1>2, <1>3, AtNext
<1>8. t # 0
  BY <1>2
<1> QED  BY <1>2, <1>4, <1>5, <1>6, <1>7, <1>8 DEF Agree, SlotsOk

\* The branch on the object is decided; the object is gone.
LEMMA WindowEnds ==
  ASSUME NEW c, c = Ctx, Context(c), NEW g, g = Out, Result(c, g), IlOk(c, g, il), Agree(c, g, il, ir),
         il.pc # 0, NEW n, n = il.pc, NEW o \in Oracle, RunIl(o),
         IF Matched THEN RunIr(o) ELSE ir' = ir,
         NEW L, L = g.insts[Bk(c, n)], NEW j \in 1..c.n, Window(c, L, j, n)
  PROVE  Agree(c, g, il', ir')
<1> PICK s : s = il.stack
  OBVIOUS
<1> PICK s1 : s1 = il'.stack
  OBVIOUS
<1> PICK t : t = il'.pc
  OBVIOUS
<1> PICK op : op = Op(c, n)
  OBVIOUS
<1> PICK D : D = DOMAIN To(c, n)
  OBVIOUS
<1>0. /\ n \in 1..c.n /\ c.n \in Nat /\ j < n /\ n <= n /\ op \in Tests
      /\ n + 1 \in c.splits /\ Range(To(c, n)) \subseteq c.splits
  <2>1. n \in 1..c.n /\ c.n \in Nat /\ j < n /\ op \in Tests /\ AwayOf(c, n) # {}
    BY DEF Window, Context, Coded
  <2>2. n <= n /\ Ends(c, n)
    BY <2>1 DEF Ends
  <2> QED  BY <2>1, <2>2 DEF Context, Split
<1>1. /\ op \notin Stops /\ Pushed(op) = 0 /\ Popped(op) > 0
      /\ op \in BranchTarget
  BY <1>0 DEF Stops, StaticBranch, Pushed, Popped, Tests, BranchTarget
<1>2. InWindow(c, g, n)
  BY <1>0 DEF InWindow
<1>3. /\ AtPos(c, g, n, ir.pc) /\ Len(s) > 0 /\ s[Len(s)] = "obj" /\ s \in Seq(Vals) /\ Len(s) \in Nat
      /\ \A d \in 1..Len(s) : d < Len(s) => In(ir.slots, d) = s[d]
  BY <1>2 DEF Agree, SlotsOk, IlOk
<1>4. OnTop = "obj"
  <2>1. s # <<>>
    BY <1>3
  <2> QED  BY <1>3, <2>1 DEF OnTop, Last
<1>5. /\ t \in 1..c.n
      /\ t = IF Taken(op, "obj", o, D) THEN To(c, n)[Which(op, o)] ELSE n + 1
      /\ Len(s1) \in 0..Len(s) /\ (\A d \in 1..Len(s1) : s1[d] = s[d]) /\ Len(s1) < Len(s)
  BY <1>1, <1>4, IlRuns DEF Result
<1>6. t \in c.splits
  <2>1. CASE Taken(op, "obj", o, D)
    BY <1>0, <1>1, <1>5, <2>1, TakenIs
  <2>2. CASE ~ Taken(op, "obj", o, D)
    BY <1>0, <1>5, <2>2
  <2> QED  BY <2>1, <2>2
<1>7. ~ InWindow(c, g, t)
  BY <1>5, <1>6, SplitIs, NoWindowAtStart
<1>8. AtPos(c, g, t, ir'.pc) /\ ir'.slots = ir.slots
  <2>1. CASE op = "brtrue"
    <3>1. t = To(c, n)[1] /\ 1 \in D
      <4>1. Taken(op, "obj", o, D) /\ Which(op, o) = 1
        BY <2>1 DEF Taken, Which
      <4> QED  BY <1>0, <1>1, <1>5, <4>1, TakenIs
    <3>2. PICK k \in 1..Len(L) : L[k] = Folded(c, n)
      BY <2>1 DEF Window
    <3>3. L[k].at = n /\ L[k].op = "br" /\ L[k].to = To(c, n) /\ L[k].slot = 0
      BY <3>2 DEF Folded
    <3>4. k \in 1..Size(g, Bk(c, n))
      BY DEF Size
    <3>5. Moved(c, g, L[k], g.code[ir.pc]) /\ g.code[ir.pc] = code[ir.pc]
      BY <1>0, <1>3, <3>3, <3>4, AtCode, OutIs
    <3>6. Matched
      <4>1. Emitted(L, n)
        BY <3>3 DEF Emitted
      <4> QED  BY <1>0, <1>3, <4>1, Matching
    <3> PICK i : i = code[ir.pc]
      OBVIOUS
    <3>7. i.op = "br" /\ DOMAIN i.to = D /\ i.to[1] = g.at[Bk(c, To(c, n)[1])]
      BY <3>1, <3>3, <3>5 DEF Moved
    <3>8. Goes(i, Slot(i.slot), o, ir.pc + 1) = i.to[1]
      BY <3>7 DEF Goes
    <3>9. ir'.pc = i.to[1] /\ ir'.slots = ir.slots
      <4>1. RunIr(o) /\ i.op # "dup" /\ Added(i.op, Slot(i.slot), o) = <<>>
        BY <3>6, <3>7 DEF Added
      <4> QED  BY <3>8, <4>1 DEF RunIr
    <3>10. Bk(c, t) = t
      BY <1>6, SplitIs
    <3> QED  BY <1>6, <3>1, <3>7, <3>9, <3>10, AtStart
  <2>2. CASE op # "brtrue"
    <3>1. op = "brfalse" /\ ~ Taken(op, "obj", o, D)
      BY <1>0, <2>2 DEF Tests, Taken
    <3>2. ~ Emitted(L, n)
      BY <3>1 DEF Window
    <3>3. ir' = ir
      BY <1>0, <1>3, <3>2, Matching
    <3>4. t = n + 1
      BY <1>5, <3>1
    <3>5. AtPos(c, g, n + 1, ir.pc)
      BY <1>0, <1>3, <1>5, <3>2, <3>4, AtNext
    <3> QED  BY <3>3, <3>4, <3>5
  <2> QED  BY <2>1, <2>2
<1>9. ASSUME NEW d \in 1..Len(s1) PROVE In(ir'.slots, d) = s1[d]
  <2>1. d \in 1..Len(s) /\ d < Len(s)
    BY <1>3, <1>5
  <2> QED  BY <1>3, <1>5, <1>8, <2>1
<1>10. t # 0
  BY <1>5
<1> QED  BY <1>7, <1>8, <1>9, <1>10 DEF Agree, SlotsOk

-----------------------------------------------------------------------------
(* The run                                                                 *)

LEMMA RunAgrees ==
  ASSUME NEW c, c = Ctx, Context(c), NEW g, g = Out, Result(c, g), Faithful(c, g),
         IlOk(c, g, il), Agree(c, g, il, ir), il.pc # 0, NEW n, n = il.pc, Op(c, n) \notin Stops,
         NEW o \in Oracle, RunIl(o), IF Matched THEN RunIr(o) ELSE ir' = ir
  PROVE  Agree(c, g, il', ir')
<1> PICK L : L = g.insts[Bk(c, n)]
  OBVIOUS
<1>1. n \in 1..c.n /\ Bk(c, n) \in g.visited /\ AtPos(c, g, n, ir.pc)
  BY DEF IlOk, Agree, Context, Coded
<1>2. \/ \E m \in 1..c.n : Window(c, L, n, m)
      \/ \E j, m \in 1..c.n : Window(c, L, j, m) /\ j < n /\ n < m
      \/ \E j \in 1..c.n : Window(c, L, j, n)
      \/ /\ ~ InWindow(c, g, n) /\ Plain(c, L, n)
         /\ \A m \in 1..c.n : ~ Window(c, L, n, m)
  BY <1>1, Kinds
<1>3. CASE \E m \in 1..c.n : Window(c, L, n, m)
  <2>1. PICK m \in 1..c.n : Window(c, L, n, m)
    BY <1>3
  <2> QED  BY <2>1, WindowBegins
<1>4. CASE \E j, m \in 1..c.n : Window(c, L, j, m) /\ j < n /\ n < m
  <2>1. PICK j, m \in 1..c.n : Window(c, L, j, m) /\ j < n /\ n < m
    BY <1>4
  <2> QED  BY <2>1, WindowRuns
<1>5. CASE \E j \in 1..c.n : Window(c, L, j, n)
  <2>1. PICK j \in 1..c.n : Window(c, L, j, n)
    BY <1>5
  <2> QED  BY <2>1, WindowEnds
<1>6. CASE /\ ~ InWindow(c, g, n) /\ Plain(c, L, n)
           /\ \A m \in 1..c.n : ~ Window(c, L, n, m)
  <2>1. CASE \E k \in 1..Len(L) : L[k] = Normal(c, n)
    <3>1. PICK k \in 1..Len(L) : L[k] = Normal(c, n)
      BY <2>1
    <3>2. L[k].at = n
      BY <3>1 DEF Normal
    <3>3. Emitted(L, n)
      BY <3>2 DEF Emitted
    <3>4. RunIr(o)
      BY <1>1, <3>3, Matching
    <3> QED  BY <1>6, <3>1, <3>4, NormalRuns
  <2>2. CASE ~ Emitted(L, n) /\ Quiet(c, n)
    <3>1. ir' = ir
      BY <1>1, <2>2, Matching
    <3> QED  BY <1>6, <2>2, <3>1, QuietRuns
  <2> QED  BY <1>6, <2>1, <2>2 DEF Plain
<1> QED  BY <1>2, <1>3, <1>4, <1>5, <1>6

\* The first instruction of the body, with or without a prologue before it.
LEMMA FirstIs ==
  ASSUME NEW c, Context(c), NEW g, Result(c, g), NEW slots
  PROVE  /\ IlOk(c, g, [pc |-> 1, stack |-> <<>>])
         /\ Agree(c, g, [pc |-> 1, stack |-> <<>>], [pc |-> IF c.init THEN 2 ELSE 1, slots |-> slots])
<1>1. 1 \in 1..c.n /\ 1 \in 0..c.n /\ 1 \in 0..(c.n + 1) /\ 1 \in c.blocks /\ c.depth[1] = 0
  BY DEF Context, Coded, Split, Stacked
<1>2. Bk(c, 1) = 1 /\ 1 \in g.visited
  BY <1>1, BkBlock DEF Result, Closed
<1>3. ~ InWindow(c, g, 1)
  BY <1>1, NoWindowAtStart
<1>4. AtPos(c, g, 1, IF c.init THEN 2 ELSE 1)
  BY AtPrologue
<1>5. <<>> \in Seq(Vals) /\ Len(<<>>) = 0
  OBVIOUS
<1> PICK s : s = <<>>
  OBVIOUS
<1>6. s \in Seq(Vals) /\ Len(s) = 0
  BY <1>5
<1>7. IlOk(c, g, [pc |-> 1, stack |-> s])
  BY <1>1, <1>2, <1>6 DEF IlOk
<1>8. SlotsOk(c, g, 1, s, slots)
  BY <1>3, <1>6 DEF SlotsOk
<1> QED  BY <1>4, <1>7, <1>8 DEF Agree

\* The prologue runs on both sides.
LEMMA PrologueRuns ==
  ASSUME NEW c, c = Ctx, Context(c), NEW g, g = Out, Result(c, g),
         IlOk(c, g, il), il.pc = 0, NEW o \in Oracle, RunIl(o)
  PROVE  /\ IlOk(c, g, il')
         /\ Agree(c, g, il, ir) /\ (IF Matched THEN RunIr(o) ELSE ir' = ir) => Agree(c, g, il', ir')
<1>1. c.init /\ il.stack = <<>> /\ Instr.op = "init" /\ Instr = [op |-> "init", to |-> <<>>]
  BY DEF IlOk, Instr
<1>2. il' = [pc |-> 1, stack |-> <<>>]
  <2>1. Goes(Instr, OnTop, o, il.pc + 1) = 1
    BY <1>1 DEF Goes
  <2>2. Added(Instr.op, OnTop, o) = <<>> /\ Popped(Instr.op) = 0
    BY <1>1 DEF Added, Popped
  <2>3. SubSeq(<<>>, 1, Len(<<>>) - 0) \o <<>> = <<>>
    OBVIOUS
  <2>4. il'.stack = <<>>
    BY <1>1, <2>2, <2>3 DEF RunIl
  <2> QED  BY <2>1, <2>4 DEF RunIl
<1>3. IlOk(c, g, il')
  BY <1>2, FirstIs
<1>4. ASSUME Agree(c, g, il, ir), IF Matched THEN RunIr(o) ELSE ir' = ir PROVE Agree(c, g, il', ir')
  <2>1. ir.pc = 1
    BY <1>4 DEF Agree
  <2>2. 1 \in DOMAIN code /\ code[1].at = 0 /\ code[1].op = "init"
    BY <1>1, AtPrologue, OutIs
  <2>3. RunIr(o)
    BY <1>4, <2>1, <2>2 DEF Matched
  <2> PICK i : i = code[1]
    OBVIOUS
  <2>4. Goes(i, Slot(i.slot), o, 2) = 2 /\ Added(i.op, Slot(i.slot), o) = <<>>
    BY <2>2 DEF Goes, Added
  <2>5. ir' = [pc |-> 2, slots |-> ir.slots]
    <3>1. 1 + 1 = 2 /\ i.op # "dup"
      BY <2>2
    <3> QED  BY <2>1, <2>3, <2>4, <3>1 DEF RunIr
  <2>6. Agree(c, g, [pc |-> 1, stack |-> <<>>], [pc |-> 2, slots |-> ir.slots])
    BY <1>1, FirstIs
  <2> QED  BY <1>2, <2>5, <2>6
<1> QED  BY <1>3, <1>4

\* An exception finds the handler's code, with the exception in the first slot.
LEMMA RaiseAgrees ==
  ASSUME NEW c, c = Ctx, Context(c), NEW g, g = Out, Result(c, g), Raise
  PROVE  IlOk(c, g, il') /\ Agree(c, g, il', ir')
<1>1. PICK k \in DOMAIN program.clauses, f \in {"handler", "filter"} :
        /\ f = "filter" => program.clauses[k].flags = "filter"
        /\ il' = [pc |-> program.clauses[k][f],
                  stack |-> IF program.clauses[k].flags \in {"catch", "filter"} THEN <<"obj">> ELSE <<>>]
        /\ ir' = [pc |-> exClauses[k][f], slots |-> Put(ir.slots, 1, "obj")]
  BY DEF Raise
<1> PICK x : x = c.clauses[k]
  OBVIOUS
<1> PICK t : t = x[f]
  OBVIOUS
<1> PICK s : s = IF x.flags \in {"catch", "filter"} THEN <<"obj">> ELSE <<>>
  OBVIOUS
<1>2. k \in 1..Len(c.clauses) /\ x = program.clauses[k] /\ x \in ClauseRecords(c.n) /\ c.n \in Nat
  <2>1. c.clauses = program.clauses /\ c.clauses \in Seq(ClauseRecords(c.n))
    BY CtxIs DEF Context, Clauses
  <2>2. k \in 1..Len(c.clauses)
    BY <1>1, <2>1
  <2> PICK T : T = ClauseRecords(c.n)
    OBVIOUS
  <2>3. x \in T
    BY <2>1, <2>2, ElementOfSeq
  <2> QED  BY <2>1, <2>2, <2>3 DEF Context, Coded
<1>3. /\ t \in 1..c.n /\ t \in c.splits /\ c.depth[t] = Len(s) /\ t \in g.visited
      /\ g.clauses[k][f] = g.at[t]
  <2>0. Closed(c, g) /\ Protection(c, g)
    BY DEF Result
  <2>1. Len(s) = Caught(x) /\ (x.flags = "filter" => Len(s) = 1)
    BY DEF Caught
  <2>2. CASE f = "handler"
    <3>1. x.handler \in 1..c.n /\ t = x.handler
      BY <1>2, <2>2 DEF ClauseRecords
    <3>2. t \in c.splits /\ c.depth[t] = Caught(x)
      BY <1>2, <3>1 DEF Context, Clauses
    <3>3. t \in g.visited
      BY ONLY <2>0, <1>2, <3>1, x = c.clauses[k] DEF Closed
    <3>4. g.clauses[k].handler = g.at[t]
      BY ONLY <2>0, <1>2, <3>1, x = c.clauses[k] DEF Protection
    <3> QED  BY <2>1, <2>2, <3>1, <3>2, <3>3, <3>4
  <2>3. CASE f = "filter"
    <3>1. x.flags = "filter" /\ t = x.filter
      BY <1>1, <1>2, <2>3
    <3>2. t \in c.splits /\ c.depth[t] = 1 /\ t \in 1..c.n
      BY <1>2, <3>1 DEF Context, Clauses
    <3>3. t \in g.visited
      BY ONLY <2>0, <1>2, <3>1, x = c.clauses[k] DEF Closed
    <3>4. g.clauses[k].filter = g.at[t]
      BY ONLY <2>0, <1>2, <3>1, x = c.clauses[k] DEF Protection
    <3> QED  BY <2>1, <2>3, <3>1, <3>2, <3>3, <3>4
  <2> QED  BY <2>2, <2>3
<1>4. /\ il' = [pc |-> t, stack |-> s]
      /\ ir' = [pc |-> g.at[t], slots |-> Put(ir.slots, 1, "obj")]
  BY <1>1, <1>2, <1>3, OutIs
<1>5. s \in Seq(Vals) /\ Len(s) \in {0, 1} /\ (Len(s) = 1 => s[1] = "obj")
  <2>1. "obj" \in Vals
    BY DEF Vals
  <2>2. CASE s = <<>>
    BY <2>2
  <2>3. CASE s = <<"obj">>
    BY <2>1, <2>3
  <2> QED  BY <2>2, <2>3
<1>6. t # 0 /\ t \in 0..c.n /\ Bk(c, t) = t /\ t \in c.blocks
  BY <1>2, <1>3, SplitIs
<1>7. IlOk(c, g, il')
  BY <1>3, <1>4, <1>5, <1>6 DEF IlOk
<1>8. AtPos(c, g, t, g.at[t]) /\ ~ InWindow(c, g, t)
  BY <1>3, <1>6, AtStart, NoWindowAtStart
<1>9. ASSUME NEW d \in 1..Len(s) PROVE In(Put(ir.slots, 1, "obj"), d) = s[d]
  <2>1. d = 1 /\ s[d] = "obj"
    BY <1>5
  <2> QED  BY <2>1 DEF In, Put
<1>10. SlotsOk(c, g, t, s, Put(ir.slots, 1, "obj"))
  BY <1>8, <1>9 DEF SlotsOk
<1> QED  BY <1>4, <1>6, <1>7, <1>8, <1>10 DEF Agree

-----------------------------------------------------------------------------
(* What the run shows                                                      *)

\* A visible instruction is translated as it stands, outside of any window.
LEMMA VisibleIs ==
  ASSUME NEW c, c = Ctx, Context(c), NEW g, g = Out, Result(c, g), Faithful(c, g),
         IlOk(c, g, il), Agree(c, g, il, ir), Visible, il.pc # 0, NEW n, n = il.pc
  PROVE  ~ InWindow(c, g, n) /\ Emitted(g.insts[Bk(c, n)], n)
<1> PICK L : L = g.insts[Bk(c, n)]
  OBVIOUS
<1> PICK op : op = Op(c, n)
  OBVIOUS
<1>1. n \in 1..c.n /\ Bk(c, n) \in g.visited
  BY DEF IlOk, Context, Coded
<1>2. /\ op \notin {"pop", "new"} \cup Tests
      /\ op \in {"br", "beq", "switch"} => AwayOf(c, n) # {}
  BY CtxIs DEF Visible, Instr, Tests
<1>3. ~ \E m \in 1..c.n : Window(c, L, n, m)
  BY <1>2 DEF Window
<1>4. ~ \E j, m \in 1..c.n : Window(c, L, j, m) /\ j < n /\ n < m
  <2> SUFFICES ASSUME NEW j \in 1..c.n, NEW m \in 1..c.n, Window(c, L, j, m), j < n, n < m PROVE FALSE
    OBVIOUS
  <2>1. n \in (j + 1)..(m - 1)
    BY <1>1 DEF Context, Coded
  <2>2. op = "br" /\ AwayOf(c, n) = {}
    BY <2>1 DEF Window
  <2> QED  BY <1>2, <2>2
<1>5. ~ \E j \in 1..c.n : Window(c, L, j, n)
  BY <1>2 DEF Window
<1>6. ~ InWindow(c, g, n) /\ Plain(c, L, n)
  BY <1>1, <1>3, <1>4, <1>5, Kinds
<1>7. ~ Quiet(c, n)
  BY <1>2 DEF Quiet
<1>8. PICK k \in 1..Len(L) : L[k] = Normal(c, n)
  BY <1>6, <1>7 DEF Plain
<1>9. L[k].at = n
  BY <1>8 DEF Normal
<1> QED  BY <1>6, <1>9 DEF Emitted

LEMMA VisibleMatches ==
  ASSUME NEW c, c = Ctx, Context(c), NEW g, g = Out, Result(c, g), Faithful(c, g),
         IlOk(c, g, il), Agree(c, g, il, ir), Visible
  PROVE  Matched /\ \A d \in DOMAIN il.stack : Slot(d) = il.stack[d]
<1>1. CASE il.pc = 0
  <2>1. c.init /\ il.stack = <<>> /\ ir.pc = 1
    BY <1>1 DEF IlOk, Agree
  <2>2. 1 \in DOMAIN code /\ code[1].at = 0
    BY <2>1, AtPrologue, OutIs
  <2> QED  BY <1>1, <2>1, <2>2 DEF Matched
<1>2. CASE il.pc # 0
  <2>1. ~ InWindow(c, g, il.pc) /\ Emitted(g.insts[Bk(c, il.pc)], il.pc)
    BY <1>2, VisibleIs
  <2>2. AtPos(c, g, il.pc, ir.pc) /\ SlotsOk(c, g, il.pc, il.stack, ir.slots) /\ il.pc \in 1..c.n
    BY <1>2 DEF Agree, IlOk, Context, Coded
  <2>3. Matched
    BY <2>1, <2>2, Matching
  <2>4. DOMAIN il.stack = 1..Len(il.stack)
    BY DEF IlOk
  <2> QED  BY <2>1, <2>2, <2>3, <2>4, OutIs DEF SlotsOk
<1> QED  BY <1>1, <1>2

\* The emitted code is behind a split exactly when the IL is.
LEMMA Side ==
  ASSUME NEW c, Context(c), NEW g, Result(c, g), NEW n \in 1..c.n, NEW r, AtPos(c, g, n, r),
         Emitted(g.insts[Bk(c, n)], n), NEW t \in c.splits
  PROVE  r \in Nat /\ g.at[t] \in Nat /\ (r >= g.at[t] <=> n >= t)
<1> PICK b : b = Bk(c, n)
  OBVIOUS
<1> PICK S : S = g.at[b]
  OBVIOUS
<1> PICK T : T = g.at[t]
  OBVIOUS
<1> PICK z : z = Size(g, b)
  OBVIOUS
<1>1. /\ n \in 0..(c.n + 1) /\ n \in Nat /\ t \in Nat /\ t \in c.blocks /\ b \in c.blocks /\ b \in Nat
      /\ b <= n /\ (t <= n => t <= b)
  <2>1. c.n \in Nat /\ t \in c.blocks /\ t \in Nat
    BY SplitIs DEF Context, Coded
  <2>2. n \in 0..(c.n + 1) /\ n \in Nat
    BY <2>1
  <2>3. b \in c.blocks /\ b \in 0..(c.n + 1) /\ b <= n /\ \A a \in c.blocks : a <= n => a <= b
    BY <2>2, BkIs
  <2> QED  BY <2>1, <2>2, <2>3
<1>2. S \in Nat /\ T \in Nat /\ z \in Nat /\ Size(g, t) \in Nat
  BY <1>1, BlockIs
<1>3. PICK k \in 1..Len(g.insts[b]) : g.insts[b][k].at = n
  BY DEF Emitted
<1>4. k \in 1..z /\ r = S + k - 1
  <2>1. k \in 1..Size(g, b)
    BY DEF Size
  <2> QED  BY <1>3, <2>1, AtCode
<1>5. \A p, q \in c.blocks : p < q => g.at[p] + Size(g, p) <= g.at[q]
  BY DEF Result, Spread
<1>6. r \in Nat /\ S <= r /\ r < S + z
  BY <1>2, <1>4
<1>7. CASE t <= n
  <2>1. t = b \/ t < b
    BY <1>1, <1>7
  <2>2. T <= S
    <3>1. CASE t = b
      BY <1>2, <3>1
    <3>2. CASE t < b
      <4>1. T + Size(g, t) <= S
        BY <1>1, <1>5, <3>2
      <4> QED  BY <1>2, <4>1
    <3> QED  BY <2>1, <3>1, <3>2
  <2> QED  BY <1>1, <1>2, <1>6, <1>7, <2>2
<1>8. CASE ~ t <= n
  <2>1. b < t
    BY <1>1, <1>8
  <2>2. S + z <= T
    BY <1>1, <1>5, <2>1
  <2> QED  BY <1>1, <1>2, <1>6, <1>8, <2>2
<1> QED  BY <1>7, <1>8

LEMMA VisibleSide ==
  ASSUME NEW c, c = Ctx, Context(c), NEW g, g = Out, Result(c, g), Faithful(c, g),
         IlOk(c, g, il), Agree(c, g, il, ir), Visible, NEW t \in c.splits
  PROVE  /\ ir.pc \in Nat /\ g.at[t] \in Nat /\ il.pc \in Nat /\ t \in Nat
         /\ ir.pc >= g.at[t] <=> il.pc >= t
<1>1. t \in c.blocks /\ t \in Nat /\ t >= 1
  BY SplitIs
<1>2. CASE il.pc = 0
  <2>1. c.init /\ ir.pc = 1
    BY <1>2 DEF IlOk, Agree
  <2>2. g.at[t] > 1 /\ g.at[t] \in Nat
    BY <1>1, <2>1, AtPrologue, BlockIs
  <2> QED  BY <1>1, <1>2, <2>1, <2>2
<1>3. CASE il.pc # 0
  <2>1. Emitted(g.insts[Bk(c, il.pc)], il.pc)
    BY <1>3, VisibleIs
  <2>2. AtPos(c, g, il.pc, ir.pc) /\ il.pc \in 1..c.n /\ il.pc \in Nat
    BY <1>3 DEF Agree, IlOk, Context, Coded
  <2> PICK n : n = il.pc
    OBVIOUS
  <2> PICK r : r = ir.pc
    OBVIOUS
  <2>3. r \in Nat /\ g.at[t] \in Nat /\ (r >= g.at[t] <=> n >= t)
    BY <2>1, <2>2, Side
  <2> QED  BY <1>1, <2>2, <2>3
<1> QED  BY <1>2, <1>3

LEMMA VisibleProtected ==
  ASSUME NEW c, c = Ctx, Context(c), NEW g, g = Out, Result(c, g), Faithful(c, g),
         IlOk(c, g, il), Agree(c, g, il, ir), Visible, NEW k \in DOMAIN exClauses
  PROVE  (ir.pc \in exClauses[k].tryBegin..(exClauses[k].tryEnd - 1))
           <=> (il.pc \in program.clauses[k].tryBegin..(program.clauses[k].tryEnd - 1))
<1> PICK x : x = c.clauses[k]
  OBVIOUS
<1> PICK b : b = x.tryBegin
  OBVIOUS
<1> PICK e : e = x.tryEnd
  OBVIOUS
<1> PICK n : n = il.pc
  OBVIOUS
<1> PICK r : r = ir.pc
  OBVIOUS
<1> PICK p : p = g.at[b]
  OBVIOUS
<1> PICK q : q = g.at[e]
  OBVIOUS
<1>1. Protection(c, g) /\ g.clauses = exClauses /\ c.clauses = program.clauses
  BY OutIs, CtxIs DEF Result
<1>2. k \in 1..Len(c.clauses) /\ exClauses[k].tryBegin = p /\ exClauses[k].tryEnd = q
  BY <1>1 DEF Protection
<1>3. b \in c.splits /\ e \in c.splits
  BY <1>2 DEF Context, Clauses
<1>4. n \in Nat /\ r \in Nat /\ b \in Nat /\ p \in Nat /\ (r >= p <=> n >= b)
  BY <1>3, VisibleSide
<1>5. e \in Nat /\ q \in Nat /\ (r >= q <=> n >= e)
  BY <1>3, VisibleSide
<1>6. \A m \in Nat, lo \in Nat, hi \in Nat : m \in lo..(hi - 1) <=> m >= lo /\ ~ m >= hi
  OBVIOUS
<1>7. (r \in p..(q - 1)) <=> (n \in b..(e - 1))
  BY ONLY <1>4, <1>5, <1>6
<1> QED  BY <1>1, <1>2, <1>7

-----------------------------------------------------------------------------
(* The invariant                                                           *)

Shaped(c) == Pending(c) /\ ip \in 1..c.n /\ stack \in Seq(0..c.n)

Start == /\ il = [pc |-> IF program.init THEN 0 ELSE 1, stack |-> <<>>]
         /\ ir = [pc |-> 1, slots |-> <<>>]

Setup(c) ==
  /\ program \in Programs
  /\ phase \in {"split", "header", "clauses", "flow", "relocate", "run", "done"}
  /\ phase = "split" => splits = {}
  /\ phase # "split" => splits = SplitNormal \cup SplitExceptionHandles
  /\ phase \in {"split", "header"} => Begin

Translating(c) ==
  /\ phase \in {"clauses", "flow", "relocate"} =>
       Loop(c) /\ Copied(c) /\ exClauses \in Seq(ClauseRecords(c.n))
  /\ phase = "clauses" => ip = 1 /\ lastBb = c.n + 1 /\ Len(exClauses) < Len(c.clauses)
  /\ phase \in {"flow", "relocate"} => Len(exClauses) = Len(c.clauses)

Placing(c) ==
  /\ phase \in {"split", "header", "clauses", "flow"} => code = <<>> /\ codeOffset = <<>>
  /\ phase = "relocate" => Spread(c, Out) /\ Filled(c, Out)

Running(c) ==
  /\ phase \notin {"run", "done"} => Start
  /\ phase \in {"run", "done"} =>
       Shaped(c) /\ Result(c, Out) /\ (~ stale => Faithful(c, Out))
  /\ phase = "run" => IlOk(c, Out, il) /\ (~ stale => Agree(c, Out, il, ir))

Holds(c) == Setup(c) /\ Translating(c) /\ Placing(c) /\ Running(c)

IInv == \E c : c = Ctx /\ Holds(c)

LEMMA ContextNow ==
  ASSUME NEW c, c = Ctx, Setup(c), phase # "split"
  PROVE  Context(c)
BY ContextHolds DEF Setup

LEMMA SetupKept ==
  ASSUME NEW c, Setup(c), phase # "split", program' = program, splits' = splits,
         phase' \in {"clauses", "flow", "relocate", "run", "done"}
  PROVE  Setup(c)'
<1>1. SplitNormal' = SplitNormal /\ SplitExceptionHandles' = SplitExceptionHandles
  BY DEF SplitNormal, SplitAt, Away, Body, SplitExceptionHandles
<1> QED  BY <1>1 DEF Setup

LEMMA InitHolds ==
  ASSUME Init
  PROVE  IInv
<1> PICK c : c = Ctx
  OBVIOUS
<1>1. Setup(c) /\ Translating(c) /\ Placing(c) /\ Running(c)
  BY DEF Init, Setup, Translating, Placing, Running, Begin, Start
<1> QED  BY <1>1 DEF IInv, Holds

LEMMA SplitHolds ==
  ASSUME NEW c, c = Ctx, Holds(c), SplitBasicBlocks
  PROVE  IInv'
<1> PICK d : d = Ctx'
  OBVIOUS
<1>1. /\ phase = "split" /\ phase' = "header" /\ splits' = SplitNormal \cup SplitExceptionHandles
      /\ program' = program /\ UNCHANGED <<flow, codeOffset, code, exClauses, il, ir>>
  BY DEF SplitBasicBlocks
<1>2. SplitNormal' = SplitNormal /\ SplitExceptionHandles' = SplitExceptionHandles
  BY <1>1 DEF SplitNormal, SplitAt, Away, Body, SplitExceptionHandles
<1>3. Begin'
  BY <1>1 DEF Holds, Setup, Begin, flow, End, Body
<1>4. Setup(d)'
  BY <1>1, <1>2, <1>3 DEF Holds, Setup
<1>5. Translating(d)' /\ Placing(d)' /\ Running(d)'
  BY <1>1 DEF Holds, Translating, Placing, Running, Start
<1> QED  BY <1>4, <1>5 DEF IInv, Holds

LEMMA HeaderHolds ==
  ASSUME NEW c, c = Ctx, Holds(c), Header
  PROVE  Holds(c)' /\ Ctx' = c
<1>1. phase = "header" /\ UNCHANGED outside /\ program' = program /\ splits' = splits
  BY DEF Header, outside
<1>2. Context(c) /\ Begin /\ Setup(c)
  BY <1>1, ContextNow DEF Holds, Setup
<1>3. Loop(c)' /\ ip' = 1 /\ lastBb' = c.n + 1
  BY <1>2, LoopBegun
<1>4. exClauses' = <<>> /\ c.clauses = program.clauses /\ c.clauses \in Seq(ClauseRecords(c.n))
  BY <1>1, <1>2, CtxIs DEF Begin, outside, Context, Clauses
<1>5. exClauses' \in Seq(ClauseRecords(c.n)) /\ Len(exClauses') = 0 /\ Len(c.clauses) \in Nat
  BY <1>4
<1>6. /\ phase' \in {"clauses", "flow"}
      /\ phase' = "flow" => Len(c.clauses) = 0
      /\ phase' = "clauses" => Len(c.clauses) # 0
  <2>1. phase' = IF Len(exClauses') = Len(program.clauses) THEN "flow" ELSE "clauses"
    BY DEF Header, ClausesDone
  <2> QED  BY <1>4, <1>5, <2>1
<1>7. Setup(c)'
  BY <1>1, <1>2, <1>6, SetupKept
<1>8. Copied(c)'
  BY <1>5 DEF Copied
<1>9. Translating(c)'
  BY <1>3, <1>5, <1>6, <1>8 DEF Translating
<1>10. Placing(c)' /\ Running(c)'
  BY <1>1, <1>6 DEF Holds, Placing, Running, Start, outside
<1>11. Ctx' = c
  BY <1>1, CtxSame
<1> QED  BY <1>7, <1>9, <1>10, <1>11 DEF Holds

LEMMA ClauseHolds ==
  ASSUME NEW c, c = Ctx, Holds(c), Clause
  PROVE  Holds(c)' /\ Ctx' = c
<1> PICK N : N = Len(exClauses)
  OBVIOUS
<1> PICK T : T = ClauseRecords(c.n)
  OBVIOUS
<1>1. /\ phase = "clauses" /\ program' = program /\ splits' = splits
      /\ UNCHANGED <<ip, lastBb, codeOffset, code, il, ir>>
      /\ exClauses' = Append(exClauses, program.clauses[N + 1])
      /\ phase' = IF Len(exClauses') = Len(program.clauses) THEN "flow" ELSE "clauses"
  BY DEF Clause, ClausesDone
<1>2. Setup(c) /\ Context(c)
  BY <1>1, ContextNow DEF Holds
<1>3. /\ Loop(c) /\ Copied(c) /\ exClauses \in Seq(T) /\ ip = 1 /\ lastBb = c.n + 1
      /\ N < Len(c.clauses) /\ N \in Nat
  BY <1>1 DEF Holds, Translating
<1>4. c.clauses = program.clauses /\ c.clauses \in Seq(T) /\ Len(c.clauses) \in Nat
  BY <1>2, CtxIs DEF Context, Clauses
<1> PICK x : x = c.clauses[N + 1]
  OBVIOUS
<1>5. x \in T
  <2>1. N + 1 \in 1..Len(c.clauses)
    BY <1>3, <1>4
  <2> QED  BY <1>4, <2>1, ElementOfSeq
<1>6. /\ exClauses' \in Seq(T) /\ Len(exClauses') = N + 1
      /\ \A k \in 1..N : exClauses'[k] = exClauses[k]
      /\ exClauses'[N + 1] = x
  <2>1. exClauses' = Append(exClauses, x)
    BY <1>1, <1>4
  <2> QED  BY <1>3, <1>5, <2>1, AppendIs
<1>7. Loop(c)'
  BY <1>2, <1>3, <1>6, LoopClause
<1>8. Copied(c)'
  <2>1. DOMAIN exClauses' = 1..(N + 1) /\ N + 1 \in Nat
    BY <1>3, <1>6
  <2>2. \A k \in 1..(N + 1) : k \in 1..N \/ k = N + 1
    BY <1>3
  <2>3. \A k \in 1..N : exClauses[k] = c.clauses[k]
    BY <1>3 DEF Copied
  <2>4. \A k \in 1..(N + 1) : exClauses'[k] = c.clauses[k]
    BY <1>6, <2>2, <2>3
  <2> QED  BY <1>6, <2>1, <2>4 DEF Copied
<1>9. /\ phase' \in {"clauses", "flow"}
      /\ phase' = "flow" => N + 1 = Len(c.clauses)
      /\ phase' = "clauses" => N + 1 # Len(c.clauses)
  BY <1>1, <1>4, <1>6
<1>10. Setup(c)'
  BY <1>1, <1>2, <1>9, SetupKept
<1>11. Translating(c)'
  <2>1. phase' = "clauses" => N + 1 < Len(c.clauses)
    BY <1>3, <1>4, <1>9
  <2>2. ip' = 1 /\ lastBb' = c.n + 1
    BY <1>1, <1>3
  <2> QED  BY <1>6, <1>7, <1>8, <1>9, <2>1, <2>2 DEF Translating
<1>12. Placing(c)' /\ Running(c)'
  BY <1>1, <1>9 DEF Holds, Placing, Running, Start
<1>13. Ctx' = c
  BY <1>1, CtxSame
<1> QED  BY <1>10, <1>11, <1>12, <1>13 DEF Holds

LEMMA LoopedHolds ==
  ASSUME NEW c, c = Ctx, Holds(c), Looped
  PROVE  Holds(c)' /\ Ctx' = c
<1>1. phase = "flow" /\ UNCHANGED outside
  BY DEF Looped, ReachVisited, Work, Push, Skip, Branch, Leave, CondBranch, FoldedBranch, Switch, Stop, At
<1>2. Setup(c) /\ Context(c)
  BY <1>1, ContextNow DEF Holds
<1>3. /\ Loop(c) /\ Copied(c) /\ exClauses \in Seq(ClauseRecords(c.n)) /\ Len(exClauses) = Len(c.clauses)
      /\ code = <<>> /\ codeOffset = <<>>
  BY <1>1 DEF Holds, Translating, Placing
<1>4. Loop(c)' /\ phase' \in {"flow", "relocate"}
  BY <1>2, <1>3, LoopLooped
<1>5. /\ program' = program /\ splits' = splits /\ exClauses' = exClauses
      /\ code' = <<>> /\ codeOffset' = <<>> /\ il' = il /\ ir' = ir
  BY <1>1, <1>3 DEF outside
<1>6. Setup(c)'
  BY <1>1, <1>2, <1>4, <1>5, SetupKept
<1>7. Copied(c)'
  BY <1>3, <1>5 DEF Copied
<1>8. Translating(c)'
  BY <1>3, <1>4, <1>5, <1>7 DEF Translating
<1>9. Spread(c, Out)' /\ Filled(c, Out)'
  <2> PICK h : h = Out'
    OBVIOUS
  <2>1. h.insts \in [c.blocks -> Seq(Irs(c))] /\ h.at = <<>> /\ h.code = <<>>
    BY <1>4, <1>5 DEF Out, Loop, Translation
  <2>2. DOMAIN h.at = {} /\ h.at \in [{} -> Nat] /\ h.code \in Seq(Irs(c)) /\ Len(h.code) = 0
    BY <2>1
  <2>3. Spread(c, h)
    BY <2>1, <2>2 DEF Spread
  <2>4. Filled(c, h)
    BY <2>2 DEF Filled
  <2> QED  BY <2>3, <2>4
<1>10. Placing(c)' /\ Running(c)'
  BY <1>1, <1>4, <1>5, <1>9 DEF Holds, Placing, Running, Start
<1>11. Ctx' = c
  BY <1>5, CtxSame
<1> QED  BY <1>6, <1>8, <1>10, <1>11 DEF Holds

LEMMA PlaceHolds ==
  ASSUME NEW c, c = Ctx, Holds(c), PlaceBlock
  PROVE  Holds(c)' /\ Ctx' = c
<1>1. /\ phase = "relocate" /\ phase' = phase /\ program' = program /\ splits' = splits
      /\ UNCHANGED <<flow, exClauses, il, ir>>
  BY DEF PlaceBlock
<1>2. Setup(c) /\ Context(c)
  BY <1>1, ContextNow DEF Holds
<1>3. /\ Loop(c) /\ Copied(c) /\ exClauses \in Seq(ClauseRecords(c.n)) /\ Len(exClauses) = Len(c.clauses)
      /\ Spread(c, Out) /\ Filled(c, Out)
  BY <1>1 DEF Holds, Translating, Placing
<1>4. Spread(c, Out)' /\ Filled(c, Out)'
  BY <1>2, <1>3, PlacedMore
<1>5. Setup(c)'
  BY <1>1, <1>2, SetupKept
<1>6. Loop(c)'
  BY <1>1, <1>3 DEF Loop, Pending, Translation, Coverage, Looping, Known, Upto, Middle, Position, flow
<1>7. Copied(c)'
  BY <1>1, <1>3 DEF Copied
<1>8. Translating(c)' /\ Placing(c)' /\ Running(c)'
  BY <1>1, <1>3, <1>4, <1>6, <1>7 DEF Holds, Translating, Placing, Running, Start
<1>9. Ctx' = c
  BY <1>1, CtxSame
<1> QED  BY <1>5, <1>8, <1>9 DEF Holds

LEMMA RelocateHolds ==
  ASSUME NEW c, c = Ctx, Holds(c), Relocate
  PROVE  Holds(c)' /\ Ctx' = c
<1>1. /\ phase = "relocate" /\ phase' = "run" /\ program' = program /\ splits' = splits
      /\ UNCHANGED <<flow, il, ir>>
  BY DEF Relocate
<1>2. Setup(c) /\ Context(c)
  BY <1>1, ContextNow DEF Holds
<1>3. /\ Loop(c) /\ Copied(c) /\ Len(exClauses) = Len(c.clauses)
      /\ Spread(c, Out) /\ Filled(c, Out)
      /\ Start
  BY <1>1 DEF Holds, Translating, Placing, Running
<1> PICK h : h = Out'
  OBVIOUS
<1>4. Result(c, h) /\ (~ stale' => Faithful(c, h))
  BY <1>2, <1>3, Relocated
<1>5. Setup(c)'
  BY <1>1, <1>2, SetupKept
<1>6. Shaped(c)'
  BY <1>1, <1>3 DEF Loop, Shaped, Pending, flow
<1>7. IlOk(c, h, il') /\ Agree(c, h, il', ir')
  <2>1. /\ il' = [pc |-> IF c.init THEN 0 ELSE 1, stack |-> <<>>]
        /\ ir' = [pc |-> 1, slots |-> <<>>] /\ c.init \in BOOLEAN /\ c.n \in Nat
    BY <1>1, <1>2, <1>3, CtxIs DEF Start, Context, Coded
  <2>2. CASE c.init
    <3>1. il'.pc = 0 /\ il'.stack = <<>> /\ ir'.pc = 1
      BY <2>1, <2>2
    <3>2. <<>> \in Seq(Vals)
      OBVIOUS
    <3>3. il'.stack \in Seq(Vals) /\ il'.pc \in 0..c.n
      BY <2>1, <3>1, <3>2
    <3> QED  BY <2>2, <3>1, <3>3 DEF IlOk, Agree
  <2>3. CASE ~ c.init
    <3>1. il' = [pc |-> 1, stack |-> <<>>] /\ ir' = [pc |-> IF c.init THEN 2 ELSE 1, slots |-> <<>>]
      BY <2>1, <2>3
    <3> QED  BY <1>2, <1>4, <3>1, FirstIs
  <2> QED  BY <2>2, <2>3
<1>8. Translating(c)' /\ Placing(c)' /\ Running(c)'
  BY <1>1, <1>4, <1>6, <1>7 DEF Translating, Placing, Running
<1>9. Ctx' = c
  BY <1>1, CtxSame
<1> QED  BY <1>5, <1>8, <1>9 DEF Holds

\* What the two machines change nothing of.
LEMMA MachineHolds ==
  ASSUME NEW c, c = Ctx, Holds(c), phase = "run", phase' \in {"run", "done"},
         UNCHANGED <<program, splits, flow, codeOffset, code, exClauses>>,
         phase' = "run" => IlOk(c, Out, il') /\ (~ stale => Agree(c, Out, il', ir'))
  PROVE  Holds(c)' /\ Ctx' = c
<1>1. program' = program /\ splits' = splits /\ stale' = stale /\ Out' = Out
  BY DEF flow, Out
<1>2. Setup(c)'
  BY <1>1, SetupKept DEF Holds
<1>3. Shaped(c) /\ Result(c, Out) /\ (~ stale => Faithful(c, Out))
  BY DEF Holds, Running
<1>4. Shaped(c)'
  BY <1>3 DEF Shaped, Pending, flow
<1> PICK g : g = Out
  OBVIOUS
<1>5. Translating(c)' /\ Placing(c)'
  BY DEF Translating, Placing
<1>6. Running(c)'
  BY <1>1, <1>3, <1>4 DEF Running
<1>7. Ctx' = c
  BY <1>1, CtxSame
<1> QED  BY <1>2, <1>5, <1>6, <1>7 DEF Holds

LEMMA RunHolds ==
  ASSUME NEW c, c = Ctx, Holds(c), Run
  PROVE  Holds(c)' /\ Ctx' = c
<1>1. phase = "run" /\ UNCHANGED <<program, splits, flow, codeOffset, code, exClauses>>
  BY DEF Run
<1>2. PICK o \in Oracle : RunIl(o) /\ IF Matched THEN RunIr(o) ELSE ir' = ir
  BY DEF Run
<1>3. phase' = IF Instr.op \in Stops THEN "done" ELSE "run"
  BY DEF Run
<1>4. Context(c)
  BY <1>1, ContextNow DEF Holds
<1> PICK g : g = Out
  OBVIOUS
<1>5. Result(c, g) /\ (~ stale => Faithful(c, g)) /\ IlOk(c, g, il) /\ (~ stale => Agree(c, g, il, ir))
  BY <1>1 DEF Holds, Running
<1>6. ASSUME phase' = "run" PROVE IlOk(c, g, il') /\ (~ stale => Agree(c, g, il', ir'))
  <2>1. CASE il.pc = 0
    BY <1>2, <1>4, <1>5, <2>1, PrologueRuns
  <2>2. CASE il.pc # 0
    <3>1. Op(c, il.pc) \notin Stops
      BY <1>3, <1>6, <2>2, CtxIs DEF Instr
    <3>2. IlOk(c, g, il')
      <4>1. Closed(c, g)
        BY <1>5 DEF Result
      <4> QED  BY <1>2, <1>4, <1>5, <2>2, <3>1, <4>1, IlRuns
    <3>3. ~ stale => Agree(c, g, il', ir')
      BY <1>2, <1>4, <1>5, <2>2, <3>1, RunAgrees
    <3> QED  BY <3>2, <3>3
  <2> QED  BY <2>1, <2>2
<1> QED  BY <1>1, <1>3, <1>6, MachineHolds

LEMMA RaiseHolds ==
  ASSUME NEW c, c = Ctx, Holds(c), Raise
  PROVE  Holds(c)' /\ Ctx' = c
<1>1. phase = "run" /\ phase' = phase /\ UNCHANGED <<program, splits, flow, codeOffset, code, exClauses>>
  BY DEF Raise
<1>2. Context(c) /\ Result(c, Out)
  BY <1>1, ContextNow DEF Holds, Running
<1>3. IlOk(c, Out, il') /\ Agree(c, Out, il', ir')
  BY <1>2, RaiseAgrees
<1> QED  BY <1>1, <1>3, MachineHolds

LEMMA NextHolds ==
  ASSUME IInv, [Next]_vars
  PROVE  IInv'
<1> PICK c : c = Ctx /\ Holds(c)
  BY DEF IInv
<1>1. CASE SplitBasicBlocks
  BY <1>1, SplitHolds
<1>2. CASE ~ SplitBasicBlocks /\ Next
  <2>1. Header \/ Clause \/ Looped \/ PlaceBlock \/ Relocate \/ Run \/ Raise
    BY <1>2 DEF Next, TransformBodyImpl, Looped
  <2>2. Holds(c)' /\ Ctx' = c
    BY <2>1, HeaderHolds, ClauseHolds, LoopedHolds, PlaceHolds, RelocateHolds, RunHolds, RaiseHolds
  <2> QED  BY <2>2 DEF IInv
<1>3. CASE UNCHANGED vars
  <2>1. /\ program' = program /\ phase' = phase /\ splits' = splits /\ ip' = ip /\ lastBb' = lastBb
        /\ stack' = stack /\ pending' = pending /\ nextFlow' = nextFlow /\ inPending' = inPending
        /\ visited' = visited /\ insts' = insts /\ stale' = stale /\ codeOffset' = codeOffset
        /\ code' = code /\ exClauses' = exClauses /\ il' = il /\ ir' = ir
    BY <1>3 DEF vars
  <2>2. Ctx' = c /\ Out' = Out
    BY <2>1, CtxSame DEF Out
  <2>3. Setup(c)'
    <3>1. SplitNormal' = SplitNormal /\ SplitExceptionHandles' = SplitExceptionHandles /\ End' = End
      BY <2>1 DEF SplitNormal, SplitAt, Away, Body, SplitExceptionHandles, End
    <3> QED  BY <2>1, <3>1 DEF Holds, Setup, Begin
  <2>4. Loop(c)' <=> Loop(c)
    BY <2>1 DEF Loop, Pending, Translation, Coverage, Looping, Known, Upto, Middle, Position
  <2>5. Translating(c)'
    BY <2>1, <2>4 DEF Holds, Translating, Copied
  <2>6. Placing(c)'
    BY <2>1, <2>2 DEF Holds, Placing
  <2>7. Running(c)'
    BY <2>1, <2>2 DEF Holds, Running, Start, Shaped, Pending
  <2> QED  BY <2>2, <2>3, <2>5, <2>6, <2>7 DEF IInv, Holds
<1> QED  BY <1>1, <1>2, <1>3

-----------------------------------------------------------------------------
(* The theorems                                                            *)

LEMMA SpecIInv == Spec => []IInv
<1>1. Init => IInv
  BY InitHolds
<1>2. IInv /\ [Next]_vars => IInv'
  BY NextHolds
<1> QED  BY <1>1, <1>2, PTL DEF Spec

LEMMA Shape ==
  ASSUME NEW c, c = Ctx, Holds(c), phase \notin {"split", "header"}
  PROVE  /\ ip \in 1..End /\ visited \subseteq Blocks /\ inPending \subseteq Blocks
         /\ Range(stack) \subseteq 0..Len(Body)
         /\ \A f \in Range(pending) : f.offset \in splits
<1>1. Context(c)
  BY ContextNow DEF Holds
<1>2. Shaped(c)
  BY DEF Holds, Setup, Translating, Running, Shaped, Loop
<1>3. c.n = Len(Body) /\ End = c.n + 1 /\ c.n \in Nat /\ c.blocks = Blocks /\ c.splits = splits
  BY <1>1, CtxIs DEF Context, Coded
<1>4. visited \subseteq Blocks /\ inPending \subseteq Blocks /\ ip \in 1..End
  BY <1>2, <1>3 DEF Shaped, Pending
<1>5. Range(stack) \subseteq 0..Len(Body)
  <2> PICK T : T = 0..c.n
    OBVIOUS
  <2>1. stack \in Seq(T)
    BY <1>2 DEF Shaped
  <2> PICK s : s = stack
    OBVIOUS
  <2>2. s \in Seq(T)
    BY <2>1
  <2>3. \A k \in DOMAIN s : s[k] \in T
    BY ONLY <2>2, ElementOfSeq
  <2> QED  BY <1>3, <2>3 DEF Range
<1>6. \A f \in Range(pending) : f.offset \in splits
  <2>1. DOMAIN pending = 1..Len(pending) /\ \A k \in 1..Len(pending) : FlowOk(c, pending[k])
    BY <1>2 DEF Shaped, Pending
  <2> QED  BY <1>3, <2>1 DEF Range, FlowOk
<1> QED  BY <1>4, <1>5, <1>6

LEMMA CodeShape ==
  ASSUME NEW c, c = Ctx, Holds(c), NEW i \in Range(code)
  PROVE  i.at \in 0..Len(Body)
<1>1. PICK k \in DOMAIN code : i = code[k]
  BY DEF Range
<1>2. c.n = Len(Body)
  BY CtxIs
<1> PICK T : T = Irs(c)
  OBVIOUS
<1>3. CASE phase = "relocate"
  <2>1. code \in Seq(T)
    BY <1>3 DEF Holds, Placing, Filled, Out
  <2>2. i \in T
    BY <1>1, <2>1
  <2> QED  BY <1>2, <2>2 DEF Irs
<1>4. CASE phase \in {"run", "done"}
  <2> PICK g : g = Out
    OBVIOUS
  <2>1. Context(c) /\ Result(c, g) /\ g.code = code
    BY <1>4, ContextNow, OutIs DEF Holds, Running
  <2>2. PICK a \in c.blocks : \E j \in 1..Size(g, a) : k = g.at[a] + j - 1
    BY <1>1, <2>1 DEF Result, Emission
  <2>3. PICK j \in 1..Size(g, a) : k = g.at[a] + j - 1
    BY <2>2
  <2>4. code[k].at = g.insts[a][j].at
    BY <2>1, <2>3 DEF Result, Emission, Moved
  <2>5. g.insts[a][j].at \in 0..c.n
    BY <2>1, <2>3, BlockIs
  <2> QED  BY <1>1, <1>2, <2>4, <2>5
<1>5. CASE phase \in {"split", "header", "clauses", "flow"}
  <2>1. DOMAIN code = {}
    BY <1>5 DEF Holds, Placing
  <2> QED  BY <1>1, <2>1
<1> QED  BY <1>3, <1>4, <1>5 DEF Holds, Setup

LEMMA TargetShape ==
  ASSUME NEW c, c = Ctx, Holds(c), phase = "relocate"
  PROVE  End \in splits /\ \A b \in DOMAIN insts : \A i \in Range(insts[b]) : Range(i.to) \subseteq splits
<1>1. Context(c) /\ Loop(c)
  BY ContextNow DEF Holds, Translating
<1>2. c.splits = splits /\ End = c.n + 1
  BY CtxIs
<1>3. End \in splits
  BY <1>1, <1>2 DEF Context, Split
<1>4. ASSUME NEW b \in DOMAIN insts, NEW i \in Range(insts[b]) PROVE Range(i.to) \subseteq splits
  <2> PICK L : L = insts[b]
    OBVIOUS
  <2>1. b \in c.blocks /\ Sound(c, L, b, Upto(c, b))
    BY <1>1 DEF Loop, Translation, Block
  <2>2. PICK k \in DOMAIN L : i = L[k]
    BY DEF Range
  <2>3. k \in 1..Len(L)
    BY <2>1 DEF Sound
  <2>4. i = InitIr \/ Range(i.to) \subseteq c.splits
    BY <2>1, <2>2, <2>3 DEF Sound
  <2>5. Range(InitIr.to) = {}
    BY DEF InitIr, Range
  <2> QED  BY <1>2, <2>4, <2>5
<1> QED  BY <1>3, <1>4

LEMMA TypeOKHolds ==
  ASSUME NEW c, c = Ctx, Holds(c)
  PROVE  TypeOK
<1>0. c.n = Len(Body) /\ End = Len(Body) + 1
  BY CtxIs
<1>1. program \in Programs /\ Len(Body) \in Nat
  <2>1. program \in Programs
    BY DEF Holds, Setup
  <2> QED  BY <2>1, VerifiableAssumption DEF Verifiable, Body
<1>2. splits \subseteq 1..End
  <2>1. CASE phase = "split"
    BY <2>1 DEF Holds, Setup
  <2>2. CASE phase # "split"
    <3>1. Context(c)
      BY <2>2, ContextNow DEF Holds
    <3> QED  BY <1>0, <3>1, CtxIs DEF Context, Split
  <2> QED  BY <2>1, <2>2
<1>3. /\ ip \in 1..End /\ visited \subseteq Blocks /\ inPending \subseteq Blocks
      /\ Range(stack) \subseteq 0..Len(Body)
      /\ \A f \in Range(pending) : f.offset \in splits
  <2>1. CASE phase \in {"split", "header"}
    <3>1. Begin /\ Range(<<>>) = {}
      BY <2>1 DEF Holds, Setup, Range
    <3> QED  BY <1>0, <1>1, <3>1 DEF Begin
  <2>2. CASE phase \notin {"split", "header"}
    BY <2>2, Shape
  <2> QED  BY <2>1, <2>2
<1>4. \A i \in Range(code) : i.at \in 0..Len(Body)
  BY CodeShape
<1>5. phase = "run" => il.pc \in 0..Len(Body)
  BY <1>0 DEF Holds, Running, IlOk
<1>6. phase = "relocate" =>
        End \in splits /\ \A b \in DOMAIN insts : \A i \in Range(insts[b]) : Range(i.to) \subseteq splits
  BY TargetShape
<1>7. phase \in {"split", "header", "clauses", "flow", "relocate", "run", "done"}
  BY DEF Holds, Setup
<1> QED  BY <1>2, <1>3, <1>4, <1>5, <1>6, <1>7 DEF TypeOK

LEMMA Shown ==
  ASSUME IInv
  PROVE  InStep /\ SameValues /\ SameProtection
<1> PICK c : c = Ctx /\ Holds(c)
  BY DEF IInv
<1>1. TypeOK
  BY TypeOKHolds
<1>2. ASSUME phase = "run", ~ stale, Visible
      PROVE  /\ Matched /\ \A d \in DOMAIN il.stack : Slot(d) = il.stack[d]
             /\ \A k \in DOMAIN exClauses :
                  (ir.pc \in exClauses[k].tryBegin..(exClauses[k].tryEnd - 1))
                    <=> (il.pc \in program.clauses[k].tryBegin..(program.clauses[k].tryEnd - 1))
  <2> PICK g : g = Out
    OBVIOUS
  <2>1. Context(c) /\ Result(c, g) /\ Faithful(c, g) /\ IlOk(c, g, il) /\ Agree(c, g, il, ir)
    BY <1>2, ContextNow DEF Holds, Running
  <2> QED  BY <1>2, <2>1, VisibleMatches, VisibleProtected
<1> QED  BY <1>1, <1>2 DEF InStep, SameValues, SameProtection

\* The emitted code arrives at the same instructions as the IL, in the same
\* order and whatever the branches decide, in every body a verifier accepts: no
\* block control reaches is left out by TransformBodyImpl, entered in its middle
\* or left without its branch, as long as no object was dropped before a branch
\* that Add_brtruefalse folds on it.
THEOREM SpecInStep == Spec => []InStep
<1>1. IInv => InStep
  BY Shown
<1> QED  BY <1>1, SpecIInv, PTL

\* Whichever flow a block was translated along, its slots hold the values that
\* every other way into it leaves on the IL's evaluation stack.
THEOREM SpecSameValues == Spec => []SameValues
<1>1. IInv => SameValues
  BY Shown
<1> QED  BY <1>1, SpecIInv, PTL

\* The clauses relocated by finish_transform protect exactly the code of what
\* the IL's clauses protect; the prologue is protected by none.
THEOREM SpecSameProtection == Spec => []SameProtection
<1>1. IInv => SameProtection
  BY Shown
<1> QED  BY <1>1, SpecIInv, PTL
=============================================================================
