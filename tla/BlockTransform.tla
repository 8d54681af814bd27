--------------------------- MODULE BlockTransform ---------------------------
(***************************************************************************)
(* From IL to blocks of IR: BasicBlockSpliter finds where blocks begin,    *)
(* TransformContext::TransformBodyImpl visits the instructions along the   *)
(* control flow with the evaluation stack each block is entered with, and  *)
(* the relocation turns IL offsets into offsets of the emitted code.       *)
(*                                                                         *)
(* The second half runs the IL and the emitted code side by side (Run,     *)
(* Raise): it is the meaning of "translated correctly" and no part of the  *)
(* program. Offsets are positions 1..Len(code) of instructions, the end of *)
(* the body is Len(code) + 1, and the prologue belongs to position 0.      *)
(***************************************************************************)
EXTENDS Naturals, SequencesExt, Lists

CONSTANTS
  Programs   \* bodies: [code, clauses, init, maxStack], code a sequence of [op, to]

VARIABLES
  program,   \* the body being transformed
  phase,     \* "split", "header", "clauses", "flow" (the loop), "relocate", "run", "done"
  splits,    \* splitOffsets
  ip, lastBb,
  stack,     \* evalStack: for each value the position that pushed it
  pending,   \* pendingFlows: [offset, stack]
  nextFlow,  \* nextFlowIdx, counting from 1
  inPending, \* the blocks whose flag of that name is set
  visited,   \* the blocks whose flag of that name is set
  insts,     \* block -> its IR: [op, at, to, slot]
  stale,     \* TRUE once a branch was folded on an object that was not on top
  codeOffset,\* block -> where its code begins
  code,      \* the emitted code; its targets are relocated last
  exClauses, \* the clauses, relocated with it
  il, ir     \* the two machines of the run: [pc, stack] and [pc, slots]

vars == <<program, phase, splits, ip, lastBb, stack, pending, nextFlow, inPending,
          visited, insts, stale, codeOffset, code, exClauses, il, ir>>
flow == <<ip, lastBb, stack, pending, nextFlow, inPending, visited, insts, stale>>
outside == <<program, splits, codeOffset, code, exClauses, il, ir>>

-----------------------------------------------------------------------------
\* The instructions

StaticBranch == {"ret", "throw", "rethrow", "endfinally"}  \* ArgType::StaticBranch
BranchTarget == {"br", "brtrue", "brfalse", "beq", "leave"}
Stops == StaticBranch \cup {"endfilter"}
Popped(op) == CASE op \in {"pop", "brtrue", "brfalse", "switch", "throw"} -> 1
                [] op = "beq" -> 2
                [] OTHER -> 0
Pushed(op) == IF op \in {"push", "new", "dup"} THEN 1 ELSE 0

\* A body is what a verifier accepts: the depths of the stack agree on every
\* edge (ECMA-335 III.1.7), control stays in the body, a handler is entered with
\* the exception or nothing, and a filter ends where its handler begins.
Ops == {"work", "push", "new", "dup", "pop", "switch"} \cup BranchTarget \cup Stops
Caught(c) == IF c.flags \in {"catch", "filter"} THEN 1 ELSE 0

Depths(p, d) ==
  /\ d[1] = 0
  /\ \A n \in DOMAIN p.code :
       LET op == p.code[n].op
           after == IF op = "leave" THEN 0 ELSE d[n] - Popped(op) + Pushed(op)
       IN  /\ d[n] >= Popped(op) /\ (op = "dup" => d[n] >= 1)
           /\ op \notin Stops \cup {"br", "leave"} => n + 1 \in DOMAIN d /\ d[n + 1] = after
           /\ \A t \in Range(p.code[n].to) : d[t] = after
  /\ \A c \in Range(p.clauses) :
       d[c.handler] = Caught(c) /\ (c.flags = "filter" => d[c.filter] = 1)

Instructions(n) == [op : Ops, to : Seq(1..n)]
ClauseRecords(n) ==
  [flags : {"catch", "filter", "finally", "fault"}, tryBegin : 1..n, tryEnd : 1..(n + 1),
   handler : 1..n, handlerEnd : 1..(n + 1), filter : 0..n]

Verifiable(p) ==
  LET n == Len(p.code) IN
  /\ p.code \in Seq(Instructions(n)) /\ n > 0
  /\ p.init \in BOOLEAN /\ p.maxStack \in Nat
  /\ \A i \in 1..n :
       /\ p.code[i].op \in BranchTarget => Len(p.code[i].to) = 1
       /\ p.code[i].op \notin BranchTarget \cup {"switch"} => p.code[i].to = <<>>
       /\ p.code[i].op = "endfilter" => \E c \in Range(p.clauses) : c.handler = i + 1
  /\ p.clauses \in Seq(ClauseRecords(n))
  /\ \A c \in Range(p.clauses) : c.flags = "filter" => c.filter # 0
  /\ \E d \in [1..n -> 0..p.maxStack] : Depths(p, d)

ASSUME VerifiableAssumption == \A p \in Programs : Verifiable(p)

Body == program.code
End == Len(Body) + 1

\* the targets that are not simply the next instruction
Away(i) == {t \in Range(Body[i].to) : t # i + 1}

-----------------------------------------------------------------------------
\* BasicBlockSpliter

\* branches to the next instruction do not split, except leave
SplitAt(i) ==
  IF Body[i].op \in StaticBranch \cup {"leave"} \/ Away(i) # {}
    THEN {i + 1} \cup Away(i) ELSE {}

SplitNormal == UNION {SplitAt(i) : i \in DOMAIN Body}

Offsets(c) == {c.tryBegin, c.tryEnd, c.handler, c.handlerEnd}
                \cup (IF c.flags = "filter" THEN {c.filter} ELSE {})

SplitExceptionHandles == UNION {Offsets(c) : c \in Range(program.clauses)}

\* A block is named by its first offset. When offset 0 of the method is split,
\* irbbs[0] is a block of its own that is given the prologue only.
Blocks == splits \cup {1, End} \cup {0}
BlockOf(offset) == Max({b \in Blocks : b <= offset})
\* Mutant: the prologue always goes to the block of offset 0.
Prologue_First == 1

Prologue == IF 1 \in splits THEN 0 ELSE 1

-----------------------------------------------------------------------------
\* TransformBodyImpl up to the loop

Flow(offset, s) == [offset |-> offset, stack |-> s]

\* a handler is entered with the exception on the stack, a finally without
HandlerFlows(c) ==
  CASE c.flags = "filter" -> <<Flow(c.filter, <<0>>), Flow(c.handler, <<0>>)>>
    [] c.flags = "catch"  -> <<Flow(c.handler, <<0>>)>>
    [] OTHER              -> <<Flow(c.handler, <<>>)>>

SplitBasicBlocks ==
  /\ phase = "split"
  /\ splits' = SplitNormal \cup SplitExceptionHandles
  /\ phase' = "header"
  /\ UNCHANGED <<program, flow, codeOffset, code, exClauses, il, ir>>

ClausesDone == phase' = IF Len(exClauses') = Len(program.clauses) THEN "flow" ELSE "clauses"

Header ==
  /\ phase = "header"
  /\ visited' = {End}
  /\ insts' = [b \in Blocks |->
                 IF program.init /\ b = Prologue
                   THEN <<[op |-> "init", at |-> 0, to |-> <<>>, slot |-> 0]>> ELSE <<>>]
  /\ UNCHANGED <<ip, lastBb, stack, pending, inPending, nextFlow, stale, outside>>
  /\ ClausesDone

\* one clause: its flows, and its offsets to be relocated. Only the first flow's
\* block is flagged.
Clause ==
  /\ phase = "clauses"
  /\ LET c == program.clauses[Len(exClauses) + 1]
     IN  /\ exClauses' = Append(exClauses, c)
         /\ pending' = pending \o HandlerFlows(c)
         /\ inPending' = inPending \cup {BlockOf(HandlerFlows(c)[1].offset)}
  /\ UNCHANGED <<program, splits, ip, lastBb, stack, nextFlow, visited, insts, stale,
                 codeOffset, code, il, ir>>
  /\ ClausesDone

-----------------------------------------------------------------------------
\* The loop: one instruction per step

\* control has run into a block that is there already, or past the end
Arrived == BlockOf(ip) # lastBb /\ BlockOf(ip) \in visited
At(ops) == phase = "flow" /\ ~Arrived /\ Body[ip].op \in ops

Here == BlockOf(ip)
Enter == lastBb' = Here /\ visited' = visited \cup {Here}

\* CreateAddIR: the slot is the one the instruction reads or fills
AddIr(slot) ==
  insts' = [insts EXCEPT ![Here] =
              Append(@, [op |-> Body[ip].op, at |-> ip, to |-> Body[ip].to, slot |-> slot])]

\* PushBranch for each target of this instruction in S, in turn: the first to
\* reach a block decides with which stack it is translated
Fresh(S) ==
  LET to == Body[ip].to
  IN  {k \in DOMAIN to : /\ to[k] \in S /\ BlockOf(to[k]) \notin inPending
                         /\ \A j \in 1..(k - 1) : to[j] \in S => BlockOf(to[j]) # BlockOf(to[k])}

Ascending(I) == {list \in [1..Cardinality(I) -> I] :
                   /\ \A p, q \in DOMAIN list : p < q => list[p] < list[q]
                   /\ I = Range(list)}

PushBranch(S, s) ==
  /\ \E list \in Ascending(Fresh(S)) :
       pending' = pending \o [q \in DOMAIN list |-> Flow(Body[ip].to[list[q]], s)]
  /\ inPending' = inPending \cup {BlockOf(t) : t \in S}

\* PopBranch: the next flow whose block has not been visited, or the end
PopBranch ==
  LET open == {i \in nextFlow..Len(pending') : BlockOf(pending'[i].offset) \notin visited'}
  IN  IF open = {}
        THEN phase' = "relocate" /\ UNCHANGED <<ip, stack, nextFlow>>
        ELSE /\ ip' = pending'[Min(open)].offset
             /\ stack' = pending'[Min(open)].stack
             /\ nextFlow' = Min(open) + 1
             /\ UNCHANGED phase

\* on to the next instruction
Proceed(s) == ip' = ip + 1 /\ stack' = s /\ UNCHANGED <<phase, nextFlow>>

PopStackN(n) == SubSeq(stack, 1, Len(stack) - n)
Top == Len(stack)

ReachVisited ==
  /\ phase = "flow" /\ Arrived
  /\ UNCHANGED <<pending, inPending, visited, lastBb, insts, stale>> /\ PopBranch
  /\ UNCHANGED outside

\* instructions that only compute; dup copies the top
Work ==
  /\ At({"work"}) /\ Enter /\ AddIr(0) /\ Proceed(stack)
  /\ UNCHANGED <<pending, inPending, stale, outside>>

Push ==
  /\ At({"push", "new", "dup"}) /\ Enter /\ AddIr(Top + 1) /\ Proceed(Append(stack, ip))
  /\ UNCHANGED <<pending, inPending, stale, outside>>

\* pop emits nothing, nor does a branch to the next instruction
Skip ==
  /\ At({"pop", "br", "brtrue", "brfalse", "beq", "switch"}) /\ Away(ip) = {}
  /\ Enter /\ Proceed(PopStackN(Popped(Body[ip].op)))
  /\ UNCHANGED <<pending, inPending, insts, stale, outside>>

Branch ==
  /\ At({"br"}) /\ Away(ip) # {} /\ Enter /\ AddIr(0)
  /\ PushBranch(Away(ip), stack) /\ PopBranch
  /\ UNCHANGED <<stale, outside>>

\* Add_leave: whichever of the three lowerings, control ends up at the target
\* with an empty stack
Leave ==
  /\ At({"leave"}) /\ Enter /\ AddIr(0)
  /\ PushBranch(Range(Body[ip].to), <<>>) /\ PopBranch
  /\ UNCHANGED <<stale, outside>>

\* Mutant: whatever was pushed last counts as an object.
LastIsFresh_Pushed == insts[Here] # <<>> /\ Last(insts[Here]).op \in {"new", "push"}

\* Add_brtruefalse looks at the last instruction of the block, not at what is
\* on the stack: an object just created is not null
LastIsFresh == insts[Here] # <<>> /\ Last(insts[Here]).op = "new"

\* Mutant: the target is pushed with the stack from before the branch.
CondBranch_Early ==
  /\ At({"brtrue", "brfalse", "beq"}) /\ Away(ip) # {}
  /\ ~(Body[ip].op # "beq" /\ LastIsFresh)
  /\ Enter /\ AddIr(Top) /\ PushBranch(Away(ip), stack)
  /\ Proceed(PopStackN(Popped(Body[ip].op)))
  /\ UNCHANGED <<stale, outside>>

CondBranch ==
  /\ At({"brtrue", "brfalse", "beq"}) /\ Away(ip) # {}
  /\ ~(Body[ip].op # "beq" /\ LastIsFresh)
  /\ LET s == PopStackN(Popped(Body[ip].op))
     IN  Enter /\ AddIr(Top) /\ PushBranch(Away(ip), s) /\ Proceed(s)
  /\ UNCHANGED <<stale, outside>>

FoldedBranch ==
  /\ At({"brtrue", "brfalse"}) /\ Away(ip) # {} /\ LastIsFresh
  /\ insts' = [insts EXCEPT ![Here] =
                 Front(@) \o (IF Body[ip].op = "brtrue"
                   THEN <<[op |-> "br", at |-> ip, to |-> Body[ip].to, slot |-> 0]>>
                   ELSE <<>>)]
  /\ stale' = (stale \/ Last(insts[Here]).at # stack[Top])
  /\ Enter /\ PushBranch(Away(ip), PopStackN(1)) /\ Proceed(PopStackN(1))
  /\ UNCHANGED outside

Switch ==
  /\ At({"switch"}) /\ Away(ip) # {} /\ Enter /\ AddIr(Top)
  /\ PushBranch(Away(ip), PopStackN(1))
  /\ Proceed(PopStackN(1))
  /\ UNCHANGED <<stale, outside>>

\* ret, throw, rethrow (which is added twice), endfinally and endfilter
Stop ==
  /\ At(Stops) /\ Enter /\ AddIr(Top)
  /\ UNCHANGED <<pending, inPending, stale, outside>> /\ PopBranch

-----------------------------------------------------------------------------
\* finish_transform: blocks in the order of the IL, every offset relocated

Unplaced == Blocks \ DOMAIN codeOffset

PlaceBlock ==
  /\ phase = "relocate" /\ Unplaced # {}
  /\ codeOffset' = Put(codeOffset, Min(Unplaced), Len(code) + 1)
  /\ code' = code \o insts[Min(Unplaced)]
  /\ UNCHANGED <<program, phase, splits, flow, exClauses, il, ir>>

Reloc(offset) == codeOffset[BlockOf(offset)]

Relocate ==
  /\ phase = "relocate" /\ Unplaced = {}
  /\ phase' = "run"
  /\ code' = [i \in DOMAIN code |->
                [code[i] EXCEPT !.to = [k \in DOMAIN @ |-> Reloc(@[k])]]]
  /\ exClauses' = [i \in DOMAIN exClauses |->
                     [exClauses[i] EXCEPT
                        !.tryBegin = Reloc(@), !.tryEnd = Reloc(@),
                        !.handler = Reloc(@), !.handlerEnd = Reloc(@),
                        !.filter = IF exClauses[i].flags = "filter" THEN Reloc(@) ELSE @]]
  /\ UNCHANGED <<program, splits, flow, codeOffset, il, ir>>

-----------------------------------------------------------------------------
\* The two machines. A choice c stands for what the IL cannot say: the value a
\* push gives (0 is null or zero), whether beq is taken, which case applies.

Oracle == 0..2
Value(c) == IF c = 0 THEN "null" ELSE "obj"

\* where instruction i goes when it finds v on the stack
Goes(i, v, c, next) ==
  CASE i.op \in {"br", "leave"} -> i.to[1]
    [] i.op = "brtrue" -> IF v = "obj" THEN i.to[1] ELSE next
    [] i.op = "brfalse" -> IF v = "null" THEN i.to[1] ELSE next
    [] i.op = "beq" -> IF c = 1 THEN i.to[1] ELSE next
    [] i.op = "switch" -> IF c \in DOMAIN i.to THEN i.to[c] ELSE next
    [] OTHER -> next

\* what a push, a new or a dup adds on top of value v
Added(op, v, c) == CASE op = "push" -> <<Value(c)>>
                     [] op = "new" -> <<"obj">>
                     [] op = "dup" -> <<v>>
                     [] OTHER -> <<>>

Instr == IF il.pc = 0 THEN [op |-> "init", to |-> <<>>] ELSE Body[il.pc]
OnTop == IF il.stack = <<>> THEN "null" ELSE Last(il.stack)
RunIl(c) ==
  il' = [pc |-> Goes(Instr, OnTop, c, il.pc + 1),
         stack |-> IF Instr.op = "leave" THEN <<>>
                   ELSE SubSeq(il.stack, 1, Len(il.stack) - Popped(Instr.op))
                          \o Added(Instr.op, OnTop, c)]

\* the emitted code is at what the IL is at
Matched == ir.pc \in DOMAIN code /\ code[ir.pc].at = il.pc

Slot(n) == IF n \in DOMAIN ir.slots THEN ir.slots[n] ELSE "null"
RunIr(c) ==
  LET i == code[ir.pc]
      v == Slot(IF i.op = "dup" THEN i.slot - 1 ELSE i.slot)
      added == Added(i.op, v, c)
  IN  ir' = [pc |-> Goes(i, v, c, ir.pc + 1),
             slots |-> IF added = <<>> THEN ir.slots ELSE Put(ir.slots, i.slot, added[1])]

\* instructions without IR of their own pass on the IL's side only
Run ==
  /\ phase = "run"
  /\ \E c \in Oracle :
       /\ Instr.op \notin {"push", "beq", "switch"} => c = 0
       /\ RunIl(c)
       /\ IF Matched THEN RunIr(c) ELSE ir' = ir
  /\ phase' = IF Instr.op \in Stops THEN "done" ELSE "run"
  /\ UNCHANGED <<program, splits, flow, codeOffset, code, exClauses>>

\* an exception reaches a handler, or its filter, of a try block around it
Raise ==
  /\ phase = "run" /\ Instr.op \in {"work", "throw"}
  /\ \E k \in DOMAIN program.clauses :
       LET c == program.clauses[k]
           s == IF c.flags \in {"catch", "filter"} THEN <<"obj">> ELSE <<>>
       IN  /\ il.pc \in c.tryBegin..(c.tryEnd - 1)
           /\ \E f \in {"handler"} \cup (IF c.flags = "filter" THEN {"filter"} ELSE {}) :
                /\ il' = [pc |-> c[f], stack |-> s]
                /\ ir' = [pc |-> exClauses[k][f], slots |-> Put(ir.slots, 1, "obj")]
  /\ UNCHANGED <<program, phase, splits, flow, codeOffset, code, exClauses>>

-----------------------------------------------------------------------------
Init ==
  /\ program \in Programs
  /\ phase = "split" /\ splits = {}
  /\ ip = 1 /\ lastBb = End /\ stack = <<>>
  /\ pending = <<>> /\ nextFlow = 1 /\ inPending = {} /\ visited = {}
  /\ insts = <<>> /\ stale = FALSE
  /\ codeOffset = <<>> /\ code = <<>> /\ exClauses = <<>>
  /\ il = [pc |-> IF program.init THEN 0 ELSE 1, stack |-> <<>>]
  /\ ir = [pc |-> 1, slots |-> <<>>]

TransformBodyImpl ==
  \/ SplitBasicBlocks \/ Header \/ Clause
  \/ ReachVisited \/ Work \/ Push \/ Skip \/ Branch \/ Leave
  \/ CondBranch \/ FoldedBranch \/ Switch \/ Stop
  \/ PlaceBlock \/ Relocate

Next == TransformBodyImpl \/ Run \/ Raise

Spec == Init /\ [][Next]_vars

-----------------------------------------------------------------------------
\* Properties

\* The state has its shape: blocks are split offsets, flows start blocks,
\* the body ends in a split, and every offset that is relocated is one, as the
\* code asserts (TransformContext.cpp:1744, BasicBlockSpliter.cpp:132).
TypeOK ==
  /\ phase \in {"split", "header", "clauses", "flow", "relocate", "run", "done"}
  /\ splits \subseteq 1..End /\ ip \in 1..End
  /\ visited \subseteq Blocks /\ inPending \subseteq Blocks
  /\ Range(stack) \subseteq 0..Len(Body)
  /\ \A f \in Range(pending) : f.offset \in splits
  /\ \A i \in Range(code) : i.at \in 0..Len(Body)
  /\ phase = "run" => il.pc \in 0..Len(Body)
  /\ phase = "relocate" =>
       /\ End \in splits
       /\ \A b \in DOMAIN insts : \A i \in Range(insts[b]) : Range(i.to) \subseteq splits

\* the instruction has IR of its own in every body
Visible == /\ Instr.op \notin {"pop", "new", "brtrue", "brfalse"}
           /\ Instr.op \in {"br", "beq", "switch"} => Away(il.pc) # {}

\* The emitted code does what the IL does: whatever the branches decide, both
\* arrive at the same instructions in the same order. A block translated along
\* no flow, entered in its middle, or left without its branch breaks it. (A
\* body that drops a new object and then branches on the value below it is
\* folded wrongly: stale.)
InStep == TypeOK /\ (phase = "run" /\ ~stale /\ Visible => Matched)

\* And with the same values: the slots a block was translated for are those in
\* which every predecessor leaves its stack.
SameValues ==
  phase = "run" /\ ~stale /\ Visible =>
    \A d \in DOMAIN il.stack : Slot(d) = il.stack[d]

\* A relocated try block covers exactly the code of the try block in the IL;
\* the prologue is in none, even when the method begins with one.
SameProtection ==
  phase = "run" /\ ~stale /\ Visible =>
    \A k \in DOMAIN exClauses :
      (ir.pc \in exClauses[k].tryBegin..(exClauses[k].tryEnd - 1))
        <=> (il.pc \in program.clauses[k].tryBegin..(program.clauses[k].tryEnd - 1))
=============================================================================
