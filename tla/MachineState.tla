---------------------------- MODULE MachineState ----------------------------
(***************************************************************************)
(* The per-thread memory of the hotc233 interpreter: the evaluation stack  *)
(* that grows up, the localloc pool that grows down from its end, the      *)
(* frame table and the exception-flow table, shared by every activation    *)
(* of Interpreter::Execute on the thread (an InterpFrameGroup each).       *)
(*                                                                         *)
(* One action is one operation of MachineState / InterpFrameGroup as the   *)
(* frame macros of Interpreter::Execute combine them, with the C++         *)
(* exceptions the allocators raise.  What the interpreted program computes *)
(* is left open: any instruction may follow any other.                     *)
(***************************************************************************)
EXTENDS Integers, Sequences

CONSTANTS StackSize,      \* s_threadObjectStackSize, in 8-byte slots
          FrameCap,       \* s_threadFrameStackSize
          FlowCap,        \* s_threadExceptionFlowSize
          Methods,        \* the interpreted methods
          maxStackSize,   \* InterpMethodInfo::maxStackSize
          argSize,        \* InterpMethodInfo::argStackObjectSize
          MaxGroups,      \* BOUND: nested Execute calls (the native C stack)
          MaxLocalloc,    \* BOUND: slots of one localloc
          NoFlow          \* exFlowBase = nullptr

ASSUME SizeAssumption ==
  /\ StackSize \in Nat /\ FlowCap \in Nat /\ FrameCap \in Nat \ {0}
  /\ MaxGroups \in Nat /\ MaxLocalloc \in Nat
  /\ NoFlow \notin Nat

ASSUME MethodAssumption ==
  /\ maxStackSize \in [Methods -> Nat]
  /\ argSize \in [Methods -> Nat]
  /\ \A m \in Methods : argSize[m] <= maxStackSize[m]

VARIABLES
  stackTop,     \* _stackTopIdx
  poolBottom,   \* _localPoolBottomIdx, -1 until InitEvalStack
  frames,       \* _frameBase[0 .. _frameTopIdx - 1]
  flowTop,      \* _exceptionFlowTopIdx
  flowCount,    \* _exceptionFlowCount, -1 until InitExceptionFlows
  groups,       \* the live InterpFrameGroups, with Execute's local `frame`
  phase,        \* where the innermost Execute is
  escaped       \* history: an exception left a C++ catch block of Execute

memory == <<stackTop, poolBottom, flowTop, flowCount>>
vars == <<stackTop, poolBottom, frames, flowTop, flowCount, groups, phase, escaped>>

EXCEPTION_FLOW_INFO_ALLOC_BATCH_NUM == 3

(* "run": the dispatch loop; "raise": a C++ exception is flying to the     *)
(* innermost Execute's catch block; "throw" and "catch": that Execute is   *)
(* in FIND_NEXT_EX_HANDLER_OR_UNWIND, inside its try or its catch block.   *)
Phases == {"run", "raise", "throw", "catch"}

(* An InterpFrame.  size, args, locs and flowMark are history: the window  *)
(* and argument slots it may touch, the localloc slots it was given and    *)
(* the flow top when it was entered.                                       *)
Frame == [base : Int, size : Nat, oldStackTop : Nat, oldPool : Nat,
          exBase : Nat \cup {NoFlow}, exCount : Nat, exCap : Nat,
          locs : SUBSET Int, flowMark : Nat]

Group == [frameBase : Nat, cur : Nat]

Popped(s) == SubSeq(s, 1, Len(s) - 1)
TopGroup == groups[Len(groups)]
Cur == TopGroup.cur            \* the frame Execute's local `frame` points to
WithCur(i) == [groups EXCEPT ![Len(groups)].cur = i]

-----------------------------------------------------------------------------
(* The allocators *)

\* InitEvalStack, called when the first allocation finds no stack
ReadyPool == IF poolBottom = -1 THEN StackSize ELSE poolBottom

StackFits(n) == stackTop + n <= ReadyPool

ReadyFlowCount == IF flowCount = -1 THEN FlowCap ELSE flowCount

\* AllocExceptionFlow tests with >=, so the last entry is never handed out
FlowFits(n) == flowTop + n < ReadyFlowCount

FramesFit == Len(frames) < FrameCap

\* An exception raised out of the innermost Execute reaches the enclosing
\* Execute's try, or the native caller when there is none.
PhaseAfterEscape(gs) == IF gs = <<>> THEN "run" ELSE "raise"

\* mutant: a frame remembers the whole pool instead of what was left of it
NewFrame_WholePool(m, base) ==
  [base |-> base, size |-> maxStackSize[m], oldStackTop |-> stackTop, oldPool |-> StackSize,
   exBase |-> NoFlow, exCount |-> 0, exCap |-> 0, locs |-> {}, flowMark |-> flowTop]

\* mutant: a frame remembers its base as the top to go back to
NewFrame_TopIsBase(m, base) ==
  [base |-> base, size |-> maxStackSize[m], oldStackTop |-> base, oldPool |-> ReadyPool,
   exBase |-> NoFlow, exCount |-> 0, exCap |-> 0, locs |-> {}, flowMark |-> flowTop]

NewFrame(m, base) ==
  [base |-> base, size |-> maxStackSize[m], oldStackTop |-> stackTop, oldPool |-> ReadyPool,
   exBase |-> NoFlow, exCount |-> 0, exCap |-> 0, locs |-> {}, flowMark |-> flowTop]

\* AllocStackSlot then PushFrame.  A frame table that is full raises after
\* the slots were taken.
EnterFrame(m, base, slots, gs, failed) ==
  /\ poolBottom' = ReadyPool
  /\ \/ /\ ~StackFits(slots)
        /\ phase' = failed
        /\ UNCHANGED <<stackTop, frames, groups>>
     \/ /\ StackFits(slots) /\ ~FramesFit
        /\ stackTop' = stackTop + slots
        /\ phase' = failed
        /\ UNCHANGED <<frames, groups>>
     \/ /\ StackFits(slots) /\ FramesFit
        /\ stackTop' = stackTop + slots
        /\ frames' = Append(frames, NewFrame(m, base))
        /\ groups' = gs
        /\ UNCHANGED phase
  /\ UNCHANGED <<flowTop, flowCount, escaped>>

-----------------------------------------------------------------------------
(* The operations of the dispatch loop *)

\* A native caller (or a native call made by the current frame) enters
\* Execute: PREPARE_NEW_FRAME_FROM_NATIVE runs before Execute's try block.
ExecuteFromNative(m) ==
  /\ phase = "run"
  /\ Len(groups) < MaxGroups
  /\ EnterFrame(m, stackTop, maxStackSize[m],
                Append(groups, [frameBase |-> Len(frames), cur |-> Len(frames) + 1]),
                PhaseAfterEscape(groups))

\* PREPARE_NEW_FRAME_FROM_INTERPRETER: the callee's window starts at its
\* arguments, inside the caller's window.
CallInterp(m, argBase) ==
  /\ phase = "run" /\ groups # <<>>
  /\ frames[Cur].base <= argBase
  /\ argBase + argSize[m] <= frames[Cur].base + frames[Cur].size
  /\ EnterFrame(m, argBase, maxStackSize[m] - argSize[m],
                WithCur(Len(frames) + 1), "raise")

\* InterpFrameGroup::AllocLoc
Localloc(n) ==
  /\ phase = "run" /\ groups # <<>>
  /\ \/ /\ StackFits(n)
        /\ poolBottom' = ReadyPool - n
        /\ frames' = [frames EXCEPT ![Cur].locs = @ \cup (ReadyPool - n)..(ReadyPool - 1)]
        /\ UNCHANGED phase
     \/ /\ ~StackFits(n)
        /\ phase' = "raise"
        /\ UNCHANGED <<poolBottom, frames>>
  /\ UNCHANGED <<stackTop, flowTop, flowCount, groups, escaped>>

\* Any instruction or native callee that raises a C++ exception
Raise ==
  /\ phase = "run" /\ groups # <<>>
  /\ phase' = "raise"
  /\ UNCHANGED <<stackTop, poolBottom, frames, flowTop, flowCount, groups, escaped>>

\* PushExceptionFlowInfo on frame i of fs, the flow top being top
NeedsFlow(fs, i) == fs[i].exCount >= fs[i].exCap

Pushed(fs, i, top) ==
  IF NeedsFlow(fs, i)
  THEN [fs EXCEPT ![i].exBase = IF @ = NoFlow THEN top ELSE @,
                  ![i].exCap = @ + EXCEPTION_FLOW_INFO_ALLOC_BATCH_NUM,
                  ![i].exCount = @ + 1]
  ELSE [fs EXCEPT ![i].exCount = @ + 1]

\* mutant: takes one entry and counts three
TopAfterPush_One(fs, i, top) == IF NeedsFlow(fs, i) THEN top + 1 ELSE top

TopAfterPush(fs, i, top) ==
  IF NeedsFlow(fs, i) THEN top + EXCEPTION_FLOW_INFO_ALLOC_BATCH_NUM ELSE top

PushFits(fs, i, top) ==
  NeedsFlow(fs, i) => top + EXCEPTION_FLOW_INFO_ALLOC_BATCH_NUM < ReadyFlowCount

FlowCountAfterPush(fs, i) == IF NeedsFlow(fs, i) THEN ReadyFlowCount ELSE flowCount

\* THROW_EX: PREPARE_EXCEPTION inside the try; the allocator's exception is
\* caught by this Execute's own catch block.
ThrowEx ==
  /\ phase = "run" /\ groups # <<>>
  /\ flowCount' = FlowCountAfterPush(frames, Cur)
  /\ IF PushFits(frames, Cur, flowTop)
     THEN /\ frames' = Pushed(frames, Cur, flowTop)
          /\ flowTop' = TopAfterPush(frames, Cur, flowTop)
          /\ phase' = "throw"
     ELSE /\ phase' = "raise"
          /\ UNCHANGED <<frames, flowTop>>
  /\ UNCHANGED <<stackTop, poolBottom, groups, escaped>>

\* LEAVE_EX pushes a Leave entry and goes on in the finally block
LeaveEx ==
  /\ phase = "run" /\ groups # <<>>
  /\ flowCount' = FlowCountAfterPush(frames, Cur)
  /\ IF PushFits(frames, Cur, flowTop)
     THEN /\ frames' = Pushed(frames, Cur, flowTop)
          /\ flowTop' = TopAfterPush(frames, Cur, flowTop)
          /\ UNCHANGED phase
     ELSE /\ phase' = "raise"
          /\ UNCHANGED <<frames, flowTop>>
  /\ UNCHANGED <<stackTop, poolBottom, groups, escaped>>

\* PopCurExceptionFlowInfo / PopPrevExceptionFlowInfo
PopFlow ==
  /\ groups # <<>> /\ phase # "raise"
  /\ frames[Cur].exCount > (IF phase = "run" THEN 0 ELSE 1)
  /\ frames' = [frames EXCEPT ![Cur].exCount = @ - 1]
  /\ UNCHANGED <<stackTop, poolBottom, flowTop, flowCount, groups, phase, escaped>>

\* ENDFINALLY_EX / ENDFILTER_EX of an Exception entry go back to the search
ResumeSearch ==
  /\ phase = "run" /\ groups # <<>>
  /\ frames[Cur].exCount > 0
  /\ phase' = "throw"
  /\ UNCHANGED <<stackTop, poolBottom, frames, flowTop, flowCount, groups, escaped>>

\* The catch block of Execute: PREPARE_EXCEPTION again.  When the flow table
\* is full the allocator raises out of the catch block: this Execute is gone
\* and none of its frames were left.
CatchBlock ==
  /\ phase = "raise"
  /\ flowCount' = FlowCountAfterPush(frames, Cur)
  /\ IF PushFits(frames, Cur, flowTop)
     THEN /\ frames' = Pushed(frames, Cur, flowTop)
          /\ flowTop' = TopAfterPush(frames, Cur, flowTop)
          /\ phase' = "catch"
          /\ UNCHANGED <<groups, escaped>>
     ELSE /\ groups' = Popped(groups)
          /\ phase' = PhaseAfterEscape(groups')
          /\ escaped' = TRUE
          /\ UNCHANGED <<frames, flowTop>>
  /\ UNCHANGED <<stackTop, poolBottom>>

\* FIND_NEXT_EX_HANDLER_OR_UNWIND finds a handler: back to LoopStart
EnterHandler ==
  /\ phase \in {"throw", "catch"}
  /\ phase' = "run"
  /\ UNCHANGED <<stackTop, poolBottom, frames, flowTop, flowCount, groups, escaped>>

-----------------------------------------------------------------------------
(* InterpFrameGroup::LeaveFrame: the frame left is the machine's top frame *)

Leaving == frames[Len(frames)]

\* mutant: LeaveFrame does not give the flow entries back
FlowTopAfterLeave_Kept == flowTop

FlowTopAfterLeave == IF Leaving.exBase # NoFlow THEN Leaving.exBase ELSE flowTop

LeaveFrame ==
  /\ frames' = Popped(frames)
  /\ flowTop' = FlowTopAfterLeave
  /\ stackTop' = Leaving.oldStackTop
  /\ poolBottom' = Leaving.oldPool

\* mutant: off by one at the group's base
GroupEmpties_Late == Len(frames) - 1 < TopGroup.frameBase

GroupEmpties == Len(frames) - 1 <= TopGroup.frameBase

\* LEAVE_FRAME / SET_RET_AND_LEAVE_FRAME
Return ==
  /\ phase = "run" /\ groups # <<>>
  /\ LeaveFrame
  /\ groups' = IF GroupEmpties THEN Popped(groups) ELSE WithCur(Len(frames) - 1)
  /\ UNCHANGED <<flowCount, phase, escaped>>

\* FIND_NEXT_EX_HANDLER_OR_UNWIND finds none and the group has a frame left:
\* leave this one and prepare the exception in the one before it.
UnwindFrame ==
  /\ phase \in {"throw", "catch"}
  /\ ~GroupEmpties
  /\ stackTop' = Leaving.oldStackTop
  /\ poolBottom' = Leaving.oldPool
  /\ flowCount' = FlowCountAfterPush(frames, Len(frames) - 1)
  /\ IF PushFits(frames, Len(frames) - 1, FlowTopAfterLeave)
     THEN /\ frames' = Pushed(Popped(frames), Len(frames) - 1, FlowTopAfterLeave)
          /\ flowTop' = TopAfterPush(frames, Len(frames) - 1, FlowTopAfterLeave)
          /\ groups' = WithCur(Len(frames) - 1)
          /\ UNCHANGED <<phase, escaped>>
     ELSE /\ frames' = Popped(frames)
          /\ flowTop' = FlowTopAfterLeave
          /\ \/ /\ phase = "throw"
                /\ groups' = WithCur(Len(frames) - 1)
                /\ phase' = "raise"
                /\ UNCHANGED escaped
             \/ /\ phase = "catch"
                /\ groups' = Popped(groups)
                /\ phase' = PhaseAfterEscape(groups')
                /\ escaped' = TRUE

\* ... and it was the group's last frame: UnWindFail raises out of Execute
UnwindFail ==
  /\ phase \in {"throw", "catch"}
  /\ GroupEmpties
  /\ LeaveFrame
  /\ groups' = Popped(groups)
  /\ phase' = PhaseAfterEscape(groups')
  /\ UNCHANGED <<flowCount, escaped>>

-----------------------------------------------------------------------------
Init ==
  /\ stackTop = 0 /\ poolBottom = -1 /\ frames = <<>>
  /\ flowTop = 0 /\ flowCount = -1
  /\ groups = <<>> /\ phase = "run" /\ escaped = FALSE

Next ==
  \/ \E m \in Methods : ExecuteFromNative(m)
  \/ \E m \in Methods : \E argBase \in 0..StackSize : CallInterp(m, argBase)
  \/ \E n \in 1..MaxLocalloc : Localloc(n)
  \/ Raise \/ ThrowEx \/ LeaveEx \/ PopFlow \/ ResumeSearch
  \/ CatchBlock \/ EnterHandler
  \/ Return \/ UnwindFrame \/ UnwindFail

Spec == Init /\ [][Next]_vars
-----------------------------------------------------------------------------
(* Properties *)

\* The variables hold values of their types: the tops never fall below zero,
\* whatever LeaveFrame restores.
TypeOK ==
  /\ stackTop \in Nat /\ flowTop \in Nat
  /\ poolBottom \in Nat \cup {-1} /\ flowCount \in {-1, FlowCap}
  /\ frames \in Seq(Frame) /\ groups \in Seq(Group)
  /\ phase \in Phases /\ escaped \in BOOLEAN

Window(f) == f.base .. (f.base + f.size - 1)

FlowRegion(f) == IF f.exBase = NoFlow THEN {} ELSE f.exBase .. (f.exBase + f.exCap - 1)

\* No two frames share localloc memory and no frame's stack window reaches
\* into localloc memory, whatever mix of calls, failed calls, unwinding and
\* nested Execute activations led here.
LocallocIsPrivate ==
  ~escaped =>
    \A i, j \in 1..Len(frames) :
      /\ i # j => frames[i].locs \cap frames[j].locs = {}
      /\ Window(frames[i]) \cap frames[j].locs = {}

\* Every slot a live frame may use lies below _stackTopIdx, the part of the
\* stack GetGCRootData hands to the collector.
FramesAreScanned ==
  ~escaped =>
    \A i \in 1..Len(frames) :
      0 <= frames[i].base /\ frames[i].base + frames[i].size <= stackTop

\* The exception-flow entries of different frames never share a table slot,
\* all are inside the table, and no frame uses an entry it does not own.
FlowRegionsAreDisjoint ==
  ~escaped =>
    \A i \in 1..Len(frames) :
      /\ frames[i].exCount <= frames[i].exCap
      /\ \A s \in FlowRegion(frames[i]) : s < flowTop /\ s < FlowCap
      /\ \A j \in 1..Len(frames) :
           i # j => FlowRegion(frames[i]) \cap FlowRegion(frames[j]) = {}

\* The frame each Execute works on is the last one of its group: the one the
\* next LeaveFrame pops.
ExecuteOwnsTopFrame ==
  ~escaped =>
    \A g \in 1..Len(groups) :
      /\ groups[g].frameBase < groups[g].cur
      /\ groups[g].cur = IF g = Len(groups) THEN Len(frames) ELSE groups[g + 1].frameBase

\* When no Execute is active on the thread, everything was given back.
IdleThreadHoldsNothing ==
  (~escaped /\ groups = <<>>) =>
    /\ frames = <<>> /\ stackTop = 0 /\ flowTop = 0
    /\ poolBottom \in {-1, StackSize}
=============================================================================
