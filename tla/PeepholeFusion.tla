--------------------------- MODULE PeepholeFusion ---------------------------
(***************************************************************************)
(* The superinstructions of the interpreter: after a method body has been  *)
(* lowered, ApplyCommunityPeepholeFusion (transform/TransformContext.cpp)  *)
(* walks every basic block seven times and replaces neighbouring           *)
(* instructions by one that does their work, and Interpreter_Execute.cpp   *)
(* has a handler for each of the 89.                                       *)
(*                                                                         *)
(* A slot of the frame is an integer: the evaluation stack from 1 up, the  *)
(* arguments and locals below 0, and 0 the handler's own C++ local.  An    *)
(* instruction has an opcode, written as the sequence of the primitive     *)
(* opcodes it is named after, and a body, the primitive steps its handler  *)
(* takes.  Blocks are executed with symbolic values, so two blocks with    *)
(* the same outcome agree for every value of the slots and of the heap.    *)
(***************************************************************************)
EXTENDS Integers, Sequences, SequencesExt

CONSTANTS Blocks,    \* the opcode sequences of the blocks to transform
          MaxDepth,  \* how many values may be on the stack when one starts
          Locals,    \* the slots of the arguments and locals
          Stored     \* those of them the blocks store to

ASSUME BlocksAreSequences == Blocks \subseteq Seq(STRING)
ASSUME DepthIsNatural == MaxDepth \in Nat
ASSUME LocalsAreNegative == /\ Locals \subseteq Int /\ \A x \in Locals : x < 0
                            /\ Stored \subseteq Locals

VARIABLES source,    \* the primitive steps of the block as it was lowered
          live,      \* how many values it leaves on the evaluation stack
          code,      \* the instructions of the block now
          pass       \* how many of the passes have run

fusionVars == <<source, live, code, pass>>

Passes == 7

----------------------------------------------------------------------------
(* Lowering.  An evaluation-stack instruction takes its operands from the  *)
(* top of the stack and puts its result where the first of them was; a     *)
(* copy is a load of a local, a store to one, or a dup.                    *)

Copies == {"ldloc", "ldlocS"}
Binary == {"add", "sub", "mul", "div", "rem", "and", "max", "min", "ceq"}
Branches == {"blt", "ble", "bne", "brtrue", "brfalse", "ret", "ret1"}
Stores == {"stfld", "stind", "stelem", "stelem1", "stelem28"}
ElementLoads == {"ldelem", "ldelem24", "ldelem28"}

Pops(op) == CASE op \in {"ldc", "ldloca"} -> 0
              [] op \in Binary \cup ElementLoads
                        \cup {"blt", "ble", "bne", "stfld", "stind"} -> 2
              [] op \in {"stelem", "stelem1", "stelem28"} -> 3
              [] OTHER -> 1

Pushes(op) == IF op \in Branches \cup Stores THEN 0 ELSE 1

Prim(id, op, dst, src) == [id |-> id, op |-> op, dst |-> dst, src |-> src]

\* what instruction id can be when its opcode is op and d values are stacked
Lowered(id, op, d) ==
  IF op \in Copies
  THEN {<<Prim(id, op, d + 1, <<x>>), d + 1>> : x \in Locals}
       \cup (IF d = 0 THEN {}
             ELSE {<<Prim(id, op, x, <<d>>), d - 1>> : x \in Stored}
                  \cup {<<Prim(id, op, d + 1, <<d>>), d + 1>>})
  ELSE LET n == Pops(op)
       IN IF d < n THEN {}
          ELSE {<<Prim(id, op, d - n + 1, [k \in 1..n |-> d - n + k]),
                  d - n + Pushes(op)>>}

\* the lowered forms of a block that starts with d values on the stack
Lowerings(ops, d) ==
  LET upTo[k \in 0..Len(ops)] ==
        IF k = 0 THEN {<<<<>>, d>>}
        ELSE UNION {{<<Append(b[1], s[1]), s[2]>> : s \in Lowered(k, ops[k], b[2])}
                    : b \in upTo[k - 1]}
  IN upTo[Len(ops)]

----------------------------------------------------------------------------
(* Execution.  A term is <<opcode, instruction, operands, writes before>>. *)

Input == [slots |-> [s \in Int |-> <<"input", s, <<>>, 0>>],
          writes |-> <<>>, checks |-> <<>>]

Raising == ElementLoads \cup Stores
             \cup {"ldlen", "ldfld", "ldfldu1", "ldflda", "ldind", "div", "rem"}

\* the handlers that leave out a null check their plain instruction makes
Unchecked(op, step) ==
  /\ Len(op) > 1
  /\ \/ step \in {"ldind", "stind"}
     \/ step = "ldlen" /\ op[Len(op)] = "blt"

\* addition does not care which operand is which
Operands(p, slots) ==
  IF p.op = "add" THEN <<{slots[p.src[1]], slots[p.src[2]]}>>
  ELSE [k \in DOMAIN p.src |-> slots[p.src[k]]]

\* one primitive step: the check it makes, then what it writes
Step(m, p, checked) ==
  LET reads == Operands(p, m.slots)
      value == IF p.op \in Copies THEN reads[1]
               ELSE <<p.op, p.id, reads, Len(m.writes)>>
      shown == p.op \in Branches \cup Stores
      local == p.dst \in Locals
  IN [slots |-> IF shown THEN m.slots ELSE [m.slots EXCEPT ![p.dst] = value],
      writes |-> IF shown \/ local THEN Append(m.writes, <<p.dst, value>>)
                 ELSE m.writes,
      checks |-> IF checked /\ p.op \in Raising
                 THEN Append(m.checks, <<p.op, p.id, reads, Len(m.writes)>>)
                 ELSE m.checks]

\* the block as its handlers run it
Execute(c) ==
  LET steps == FlattenSeq([i \in DOMAIN c |->
                 [k \in DOMAIN c[i].body |->
                    <<c[i].body[k], ~Unchecked(c[i].op, c[i].body[k].op)>>]])
      after[k \in 0..Len(steps)] ==
        IF k = 0 THEN Input ELSE Step(after[k - 1], steps[k][1], steps[k][2])
  IN after[Len(steps)]

Plain(p) == [op |-> <<p.op>>, body |-> <<p>>]
Lower(s) == [k \in DOMAIN s |-> Plain(s[k])]

----------------------------------------------------------------------------
(* The rules, in the order the code tries them: a rule lists the opcodes   *)
(* of the neighbours it merges.  Rules the code repeats further down, where*)
(* they are never reached, are listed once.                                *)

CopyRules ==
  <<<<"conv", "stelem1">>,
    <<"stelem28", "ldloc", "ldc", "add", "ldloc">>,
    <<"ldloc", "bne">>, <<"ldloc", "ldfldv">>, <<"ldloc", "sub", "stind">>,
    <<"ldloc", "ldc", "blt">>, <<"ldloc", "ldc", "add", "ldloc">>,
    <<"ldloc", "ldc", "add">>>>

ConstantRules ==
  <<<<"ldloc", "ldc", "rem">>, <<"ldloc", "ldc", "mul">>, <<"ldloc", "ldc">>,
    <<"sub", "ldfldv", "ldc", "div">>, <<"sub", "stind">>, <<"sub", "max">>,
    <<"ldloca", "ldflda", "ldloc", "ldind", "ldc">>,
    <<"ldloca", "ldflda", "ldloc", "ldind">>, <<"ldloca", "ldc">>>>

TwoCopyRules ==
  <<<<"ldloc", "ldind">>, <<"ldloc", "ldloc", "ldfld", "ldloc", "bne">>,
    <<"ldloc", "ldloc", "add", "ldc">>, <<"ldloc", "ldloc", "ldelem24">>,
    <<"ldloc", "ldloc", "ldelem">>, <<"ldloc", "ldloc", "ldlen", "blt">>,
    <<"ldloc", "ldloc", "ldlen">>>>

BareCopyRules == <<<<"ldloc", "ldloc", "ldloc">>, <<"ldloc", "ldloc">>>>

FieldRules ==
  <<<<"ldfldu1", "brfalse">>, <<"ldfld", "ldloc", "bne">>,
    <<"ldfldv", "ldloc", "bne">>, <<"ldfldv", "ldc", "ble">>,
    <<"ldfldv", "ldc", "div">>, <<"ldfldv", "ldc">>,
    <<"ldfldv", "add", "ldfldv", "add">>, <<"ldfldv", "add">>>>

ArithmeticRules ==
  <<<<"ldflda", "ldloc", "ldind">>, <<"ldflda", "ldloc">>,
    <<"add", "ldloc", "ldloc", "ldloc">>, <<"add", "ldloc">>,
    <<"add", "stfld", "ldloca", "ldc">>, <<"add", "stfld">>, <<"add", "ldc">>,
    <<"div", "min">>, <<"and", "ldelem">>, <<"rem", "brtrue">>>>

\* the second pass merges what the first one made
PairRules ==
  <<<<<<"ldfldv", "ldc">>, <<"sub", "max">>>>,
    <<<<"ldfldv", "ldc", "div">>, <<"add", "ldloc">>>>,
    <<<<"ldloca", "ldc">>, <<"ldfldv", "ldc">>>>,
    <<<<"add", "ldc">>, <<"and", "ldelem">>>>,
    <<<<"ldloc", "ldloc", "ldloc">>, <<"add", "ldc">>>>,
    <<<<"sub", "max">>, <<"sub", "stind">>>>,
    <<<<"sub", "max">>, <<"stfld", "ldfldv", "ldc">>>>>>

QuotientRules ==
  <<<<<<"sub", "ldfldv", "ldc", "div">>, <<"sub", "max">>>>,
    <<<<"and", "ldelem">>, <<"ldfldv", "ldc", "div", "add", "ldloc">>>>,
    <<<<"ldfldv", "ldloc", "ldc">>, <<"div", "min">>>>,
    <<<<"ldloc", "ldc", "mul">>, <<"ret">>>>,
    <<<<"ldloc", "ldc", "rem">>, <<"ldc">>, <<"ceq">>, <<"ret1">>>>,
    <<<<"ldloc", "ldc", "rem">>, <<"ldc">>, <<"ceq">>>>>>

StructCopyRules ==
  <<<<<<"ldloc", "ldloc">>, <<"ldlocS">>>>,
    <<<<"ldloc", "ldloc", "ldloc">>, <<"ldelem28">>, <<"ldlocS">>>>,
    <<<<"ldloc", "ldloc", "ldelem24">>, <<"ldlocS">>>>,
    <<<<"ldloc", "ldloc">>, <<"ldelem28">>, <<"ldlocS">>>>,
    <<<<"add", "ldloc", "ldloc", "ldloc">>, <<"ldlocS">>>>>>

FieldSumRules ==
  <<<<<<"ldloc">>, <<"ldfldv", "ldfldv", "add", "ldfldv", "add">>>>,
    <<<<"add", "ldloc">>, <<"ldfldv", "ldloc", "ldc">>>>>>

AddressRules ==
  <<<<<<"ldfldv", "add">>, <<"add", "ldloc", "ldloc", "ldloc", "ldlocS">>>>,
    <<<<"ldloc">>, <<"ldloca", "ldflda", "ldloc", "ldind">>>>,
    <<<<"ldloca", "ldflda", "ldloc", "ldind", "ldc">>, <<"ldloc", "ldloc">>>>>>

LooseFieldRules ==
  <<<<<<"stfld">>, <<"ldfldv", "ldc">>>>,
    <<<<"sub">>, <<"ldfldv", "ldc", "div">>>>,
    <<<<"ldfldv">>, <<"ldloc", "ldc">>>>,
    <<<<"ldfldv">>, <<"ldfldv", "add">>, <<"ldfldv", "add">>>>,
    <<<<"ldfldv">>, <<"ldfldv", "add", "ldfldv", "add">>>>,
    <<<<"ldfldv", "add">>, <<"ldfldv", "add">>>>>>

ThirdPass == SubSeq(PairRules, 1, 5) \o SubSeq(AddressRules, 1, 1)

FourthPass ==
  FieldSumRules \o <<<<<<"sub", "max">>, <<"stfld", "ldfldv", "ldc">>>>>>
    \o SubSeq(QuotientRules, 2, 3)

FifthPass ==
  <<<<<<"ldloc", "ldfldv", "ldfldv", "add", "ldfldv", "add">>,
      <<"ldfldv", "add", "ldfldv", "add">>,
      <<"add", "ldloc", "ldloc", "ldloc", "ldlocS">>, <<"stelem28">>>>,
    <<<<"ldloc", "ldfldv", "ldfldv", "add", "ldfldv", "add">>,
      <<"ldfldv", "add", "add", "ldloc", "ldloc", "ldloc", "ldlocS">>>>>>

SixthPass ==
  <<<<<<"ldloc", "ldloc", "ldelem28", "ldlocS">>,
      <<"ldloc", "ldloc", "ldloc", "add", "ldc">>>>,
    <<<<"ldloc", "sub", "stind">>,
      <<"ldloca", "ldflda", "ldloc", "ldind", "ldc", "ldloc", "ldloc">>>>,
    <<<<"sub", "ldfldv", "ldc", "div">>, <<"sub", "max", "sub", "stind">>>>,
    <<<<"ldloc", "ldloca", "ldflda", "ldloc", "ldind">>,
      <<"ldloc", "sub", "stind">>>>,
    <<<<"ldloc", "ldc", "add", "ldloc">>, <<"ldloc", "ldloc", "ldlen", "blt">>>>>>

SeventhPass ==
  <<<<<<"ldloc", "ldloca", "ldflda", "ldloc", "ldind", "ldloc", "sub", "stind">>,
      <<"ldloca", "ldflda", "ldloc", "ldind", "ldc", "ldloc", "ldloc">>>>,
    <<<<"and", "ldelem", "ldfldv", "ldc", "div", "add", "ldloc">>,
      <<"ldfldv", "ldloc", "ldc", "div", "min">>>>>>

\* the first pass finds primitive instructions only
Simple(table) == [r \in DOMAIN table |-> [k \in DOMAIN table[r] |-> <<table[r][k]>>]]

Rules ==
  <<Simple(CopyRules \o ConstantRules \o TwoCopyRules \o BareCopyRules
             \o FieldRules \o ArithmeticRules),
    PairRules \o QuotientRules \o StructCopyRules \o FieldSumRules
      \o AddressRules \o LooseFieldRules,
    ThirdPass, FourthPass, FifthPass, SixthPass, SeventhPass>>

----------------------------------------------------------------------------
(* A rewrite of the front of w is <<how many instructions it consumes, the *)
(* instructions it emits>>; <<>> says that it does not apply.              *)

IsNext(w, ops) == /\ Len(ops) <= Len(w)
                  /\ \A k \in DOMAIN ops : w[k].op = ops[k]

Starts(w, ops) == IsNext(w, [k \in DOMAIN ops |-> <<ops[k]>>])

First(i) == i.body[1]

\* the operands some rules look at besides the opcodes
OperandsFit(w, rule) ==
  CASE rule = <<<<"conv">>, <<"stelem1">>>> ->
         First(w[2]).src[3] = First(w[1]).dst
    [] rule \in {<<<<"sub">>, <<"stind">>>>, <<<<"ldloc">>, <<"sub">>, <<"stind">>>>} ->
         LET sub == First(w[Len(rule) - 1])
             store == First(w[Len(rule)])
         IN store.src[2] = sub.dst /\ store.src[1] # sub.dst
    [] OTHER -> TRUE

Merge_LastFirst(w, n) ==
  LET order == <<n>> \o [k \in 1..(n - 1) |-> k]
  IN <<n, <<[op |-> FlattenSeq([k \in 1..n |-> w[k].op]),
             body |-> FlattenSeq([k \in 1..n |-> w[order[k]].body])]>>>>

\* one instruction that takes the steps of the first n in their order
Merge(w, n) ==
  <<n, <<[op |-> FlattenSeq([k \in 1..n |-> w[k].op]),
          body |-> FlattenSeq([k \in 1..n |-> w[k].body])]>>>>

ByRule(w, table) ==
  LET fits == {r \in DOMAIN table : IsNext(w, table[r]) /\ OperandsFit(w, table[r])}
  IN IF fits = {} THEN <<>>
     ELSE Merge(w, Len(table[CHOOSE r \in fits : \A q \in fits : r <= q]))

Foldable_ReadsCopy(w) ==
  /\ \E o \in {"add", "sub", "mul", "div", "rem", "and"} :
        Starts(w, <<"ldloc", "ldloc", o>>)
  /\ First(w[3]).src = <<First(w[1]).dst, First(w[2]).dst>>

\* a binary operation can read what its two operands are copies of
Foldable(w) ==
  /\ \E o \in {"add", "sub", "mul", "div", "rem", "and"} :
        Starts(w, <<"ldloc", "ldloc", o>>)
  /\ LET copy1 == First(w[1])
         copy2 == First(w[2])
         op == First(w[3])
     IN /\ copy1.dst # copy2.dst
        /\ copy2.src[1] # copy1.dst
        /\ op.dst = copy1.dst
        /\ op.src = <<copy1.dst, copy2.dst>>

Fold(w) ==
  IF Foldable(w)
  THEN LET sources == <<First(w[1]).src[1], First(w[2]).src[1]>>
       IN <<Plain([First(w[3]) EXCEPT !.src = sources])>> \o SubSeq(w, 4, Len(w))
  ELSE w

\* a[i] + v stored into an element: the loaded value and the sum stay in the
\* handler, and v is read where the copy would have read it
Increment(w) ==
  LET copied == Starts(w, <<"ldelem", "ldloc", "add", "stelem">>)
      n == IF copied THEN 4 ELSE 3
      load == First(w[1])
      copy == First(w[2])
      add == First(w[n - 1])
      store == First(w[n])
      fits == /\ store.src[3] = add.dst
              /\ IF copied THEN add.src \in {<<load.dst, copy.dst>>, <<copy.dst, load.dst>>}
                           ELSE add.src[1] = load.dst
      addend == IF copied THEN copy.src[1] ELSE add.src[2]
  IN IF ~(copied \/ Starts(w, <<"ldelem", "add", "stelem">>)) THEN <<>>
     ELSE IF ~fits THEN <<>>
     ELSE <<n, <<[op |-> <<"ldelem", "ldloc", "add", "stelem">>,
                  body |-> <<[load EXCEPT !.dst = 0],
                             [add EXCEPT !.dst = 0, !.src = <<0, addend>>],
                             [store EXCEPT !.src[3] = 0]>>]>>>>

\* of three copies the third one feeds a load, which can read its source
RedirectedLoad(w) ==
  IF ~Starts(w, <<"ldloc", "ldloc", "ldloc", "ldind">>) THEN <<>>
  ELSE LET third == First(w[3])
           ind == First(w[4])
       IN IF /\ third.dst > 0
             /\ third.dst \notin {First(w[1]).dst, First(w[2]).dst, third.src[1]}
             /\ ind.dst = third.dst
             /\ ind.src[1] = third.dst
          THEN <<4, Append(Merge(w, 2)[2], Plain([ind EXCEPT !.src = third.src]))>>
          ELSE <<>>

ReadsTheCopy_Any(w) == TRUE

ReadsTheCopy(w) == First(w[2]).src[1] = First(w[1]).dst

\* a field of a struct that was copied to be read is read from the original
StructField(w) ==
  IF ~Starts(w, <<"ldlocS", "ldfldv">>) \/ ~ReadsTheCopy(w) THEN <<>>
  ELSE LET direct == <<Plain([First(w[2]) EXCEPT !.src = First(w[1]).src])>>
                       \o SubSeq(w, 3, Len(w))
           tails == {<<"ldc", "ble">>, <<"ldloc", "bne">>, <<"add">>,
                     <<"ldc", "div">>, <<"ldc">>, <<>>}
           n == CHOOSE k \in 0..2 :
                  /\ \E t \in tails : Len(t) = k /\ Starts(SubSeq(w, 3, Len(w)), t)
                  /\ \A t \in tails : Starts(SubSeq(w, 3, Len(w)), t) => Len(t) <= k
       IN <<n + 2, Merge(direct, n + 1)[2]>>

\* what pass p makes of the front of w: the first rule that applies wins
Rewrite(w, p) ==
  LET special == {r \in {Increment(w), RedirectedLoad(w), StructField(w)} : r # <<>>}
      rule == IF p = 1 /\ special # {} THEN CHOOSE r \in special : TRUE
              ELSE ByRule(w, Rules[p])
  IN IF rule = <<>> THEN <<1, <<w[1]>>>> ELSE rule

\* a pass goes from left to right and never looks at what it has emitted
RunPass(c, p) ==
  LET from[k \in 1..(Len(c) + 1)] ==
        IF k > Len(c) THEN <<>>
        ELSE LET rest == SubSeq(c, k, Len(c))
                 w == IF p = 1 THEN Fold(rest) ELSE rest
                 r == Rewrite(w, p)
             IN r[2] \o from[k + (Len(rest) - Len(w)) + r[1]]
  IN from[1]

----------------------------------------------------------------------------
FusionInit ==
  \E ops \in Blocks, d \in 0..MaxDepth :
    \E b \in Lowerings(ops, d) :
      /\ d = 0 \/ \E k \in DOMAIN b[1] : 1 \in Range(b[1][k].src)
      /\ source = b[1]
      /\ live = b[2]
      /\ code = Lower(b[1])
      /\ pass = 0

ApplyPass == /\ pass < Passes
             /\ pass' = pass + 1
             /\ code' = RunPass(code, pass')
             /\ UNCHANGED <<source, live>>

FusionNext == ApplyPass

FusionSpec == FusionInit /\ [][FusionNext]_fusionVars

----------------------------------------------------------------------------
\* The steps of a block are steps of its source, each once and in its order:
\* a rule that moves readIdx too little emits one twice.
FusionTypeOK ==
  /\ live \in Nat
  /\ pass \in 0..Passes
  /\ LET ids == FlattenSeq([i \in DOMAIN code |->
                  [k \in DOMAIN code[i].body |-> code[i].body[k].id]])
     IN \A j, k \in DOMAIN ids : j < k => ids[j] < ids[k]

\* A dup of a loaded element, added to it: the fused increment would read the
\* addend from the slot the load no longer fills.
DoublesElement ==
  \E k \in 1..(Len(source) - 3) :
     /\ <<source[k].op, source[k + 1].op, source[k + 2].op>> = <<"ldelem", "ldloc", "add">>
     /\ source[k + 1].src[1] = source[k].dst

Original == Execute(Lower(source))

\* the steps whose null check a fused handler leaves out
Skipped ==
  UNION {{p.id : p \in {q \in Range(code[i].body) : Unchecked(code[i].op, q.op)}}
         : i \in DOMAIN code}

\* checks but for those of the steps ids, in their order
Without(checks, ids) ==
  LET upTo[k \in 0..Len(checks)] ==
        IF k = 0 THEN <<>>
        ELSE IF checks[k][2] \in ids THEN upTo[k - 1]
        ELSE Append(upTo[k - 1], checks[k])
  IN upTo[Len(checks)]

\* Every pass leaves the block with the writes it was lowered with: the same
\* stores, the same locals and the same branch, in the same order and with
\* the same values (the copies TryFoldTwoCopiesIntoBinaryConsumer and the
\* struct rule drop, the element increment that keeps its sum to itself).
SameWrites == FusionTypeOK /\ (~DoublesElement => Execute(code).writes = Original.writes)

\* What the block leaves on the evaluation stack for the next block is what
\* the unfused block leaves there, although fused handlers skip some slots.
SameStack ==
  ~DoublesElement =>
    \A s \in 1..live : Execute(code).slots[s] = Original.slots[s]

\* A block raises where the unfused one raises: the handlers make its null,
\* range and divisor checks in its order and between the same writes, but
\* for the null checks some of them leave out.
SameChecks ==
  ~DoublesElement => Execute(code).checks = Without(Original.checks, Skipped)
=============================================================================
