---------------------------- MODULE ExceptionFlow ----------------------------
(***************************************************************************)
(* How the hotc233 interpreter delivers exceptions and leaves protected    *)
(* regions: TransformContext lowers IL `leave` and `throw` to IR, and one  *)
(* activation of Interpreter::Execute runs the IR with the exception-flow  *)
(* entries of its frames.  The search is single-pass: a finally or fault   *)
(* handler runs as soon as the search meets it.                            *)
(*                                                                         *)
(* An instruction has length one, so IL and IR offsets coincide.  Data is  *)
(* abstracted to which exception an instruction may raise; the capacity of *)
(* the tables is in MachineState.                                          *)
(***************************************************************************)
EXTENDS Integers, Sequences, SequencesExt

CONSTANTS Methods,
          code,        \* [Methods -> Seq(instruction)], the IL body
          clauses,     \* [Methods -> Seq(clause)], the EH table, inner first
          Exceptions,  \* exception objects
          NoEx,        \* the null exception of a Leave entry
          NoMethod,    \* imi and ipBase while no Execute is active
          EntryEx,     \* what a class constructor or a full stack raises
          FailingEntry,\* methods whose entry may raise EntryEx
          MaxFrames,   \* frames the thread has room for
          FlowCap      \* exception-flow entries a frame has room for

VARIABLES
  frames,     \* this Execute's frames; `ip` is the saved return address
  imi,        \* Execute's local: the method whose clauses are searched
  ipBase,     \* Execute's local: the method whose codes run
  ip,         \* Execute's local, as an offset from ipBase
  phase,      \* "idle", "run", "search" or "aborted" (a null dereference)
  origin,     \* history: where the top frame last ran an instruction
  departures  \* history: the known ways the code left the CLI's semantics

vars == <<frames, imi, ipBase, ip, phase, origin, departures>>

ClauseFlags == {"Exception", "Filter", "Finally", "Fault"}
FlowTypes == {"Exception", "Catch", "Leave"}
Departures == {"abandoned", "leaked", "misplaced", "foreign", "faultSkipped"}

InTry(c, o) == c.tryBegin <= o /\ o < c.tryEnd
InHandler(c, o) == c.handlerBegin <= o /\ o < c.handlerEnd
InFilter(c, o) == c.flags = "Filter" /\ c.filterBegin <= o /\ o < c.handlerBegin

\* A clause of the EH table, whose regions are sets of offsets
EhClause ==
  [flags : ClauseFlags, catches : SUBSET Exceptions, tryBegin : Nat, tryEnd : Nat,
   handlerBegin : Nat, handlerEnd : Nat, filterBegin : Nat]

Parts == {"try", "handler", "filter"}

Region(c, part) ==
  CASE part = "try" -> {o \in c.tryBegin..c.tryEnd : InTry(c, o)}
    [] part = "handler" -> {o \in c.handlerBegin..c.handlerEnd : InHandler(c, o)}
    [] part = "filter" -> {o \in c.filterBegin..c.handlerBegin : InFilter(c, o)}

\* d's part q holds all of c or nothing of it, except that several catches
\* may protect one try block
Nests(c, d) ==
  \A q \in Parts :
    \/ \A p \in Parts : Region(c, p) \subseteq Region(d, q)
    \/ \A p \in Parts : Region(c, p) \cap Region(d, q) = {}
    \/ /\ q = "try" /\ Region(c, q) = Region(d, q)
       /\ {c.flags, d.flags} \subseteq {"Exception", "Filter"}

\* What the IL compiler guarantees about the EH table: the regions of a clause
\* are apart, and clauses are listed innermost first.
ASSUME ClauseAssumption ==
  \A m \in Methods :
    /\ clauses[m] \in Seq(EhClause)
    /\ \A i \in DOMAIN clauses[m] : LET c == clauses[m][i] IN
         /\ c.handlerBegin < c.handlerEnd
         /\ c.flags = "Filter" => c.filterBegin < c.handlerBegin
         /\ \A p, q \in Parts : p # q => Region(c, p) \cap Region(c, q) = {}
    /\ \A i, j \in DOMAIN clauses[m] : i < j => Nests(clauses[m][i], clauses[m][j])

\* Where control may be: in no handler and no filter but those of S
EntersOnly(m, o, S) ==
  \A i \in DOMAIN clauses[m] \ S :
    ~InHandler(clauses[m][i], o) /\ ~InFilter(clauses[m][i], o)

\* Control that is not a leave stays in the handler, the filter and the try
\* blocks it is in
StaysIn(m, o, p) ==
  /\ p \in DOMAIN code[m]
  /\ \A i \in DOMAIN clauses[m] : LET c == clauses[m][i] IN
       /\ InHandler(c, o) = InHandler(c, p) /\ InFilter(c, o) = InFilter(c, p)
       /\ InTry(c, o) => InTry(c, p)

\* i's handler or filter is around o, and nothing within it is
Innermost(m, i, o) ==
  /\ InHandler(clauses[m][i], o) \/ InFilter(clauses[m][i], o)
  /\ \A j \in 1..(i - 1) :
       ~InTry(clauses[m][j], o) /\ ~InHandler(clauses[m][j], o) /\ ~InFilter(clauses[m][j], o)

\* A leave may go out of try blocks and catch handlers, into no handler
LeavesWell(m, o, target) ==
  /\ target \in DOMAIN code[m]
  /\ \A i \in DOMAIN clauses[m] : LET c == clauses[m][i] IN
       /\ InHandler(c, target) => InHandler(c, o)
       /\ InFilter(c, o) = InFilter(c, target)
       /\ c.flags \in {"Finally", "Fault"} /\ InHandler(c, o) => InHandler(c, target)

WellFormed(m, o) ==
  LET instr == code[m][o] IN
  /\ instr.op \in {"op", "br", "call"} => StaysIn(m, o, o + 1)
  /\ instr.op = "op" => instr.raises \subseteq Exceptions
  /\ instr.op = "br" => StaysIn(m, o, instr.target)
  /\ instr.op = "call" => instr.method \in Methods
  /\ instr.op = "throw" => instr.ex \in Exceptions
  /\ instr.op = "ret" => \A i \in DOMAIN clauses[m] : ~InTry(clauses[m][i], o)
  /\ instr.op = "leave" => LeavesWell(m, o, instr.target)
  /\ instr.op = "endfinally" =>
       \E i \in DOMAIN clauses[m] :
         Innermost(m, i, o) /\ clauses[m][i].flags \in {"Finally", "Fault"}
  /\ instr.op = "endfilter" =>
       \E i \in DOMAIN clauses[m] :
         /\ Innermost(m, i, o) /\ InFilter(clauses[m][i], o)
         /\ o + 1 = clauses[m][i].handlerBegin

\* What it guarantees about the code: it is verifiable IL, in which only leave,
\* endfinally and endfilter go from one region to another.
ASSUME CodeAssumption ==
  /\ EntryEx \in Exceptions /\ NoEx \notin Exceptions
  /\ \A m \in Methods :
       /\ 1 \in DOMAIN code[m] /\ DOMAIN code[m] \subseteq Nat
       /\ EntersOnly(m, 1, {})
       /\ \A i \in DOMAIN clauses[m] : LET c == clauses[m][i] IN
            /\ c.handlerBegin \in DOMAIN code[m]
            /\ EntersOnly(m, c.handlerBegin, i..Len(clauses[m]))
            /\ c.flags = "Filter" =>
                 c.filterBegin \in DOMAIN code[m] /\ EntersOnly(m, c.filterBegin, i..Len(clauses[m]))
       /\ \A o \in DOMAIN code[m] : WellFormed(m, o)

-----------------------------------------------------------------------------
(* Lowering of IL to IR (TransformContext) *)

First(S) == CHOOSE i \in S : \A j \in S : i <= j

\* mutant: the last finally around the leave
LeaveHandlers_Outermost(cs, o, target) ==
  LET around == {i \in DOMAIN cs : cs[i].flags = "Finally" /\ InTry(cs[i], o)} IN
  {i \in around : (\A j \in around : j <= i) /\ ~InTry(cs[i], target)}

\* FindFirstLeaveHandlerIndex: the first finally around the leave, if the
\* leave leaves its try
LeaveHandlers(cs, o, target) ==
  LET around == {i \in DOMAIN cs : cs[i].flags = "Finally" /\ InTry(cs[i], o)} IN
  {i \in around : i = First(around) /\ ~InTry(cs[i], target)}

IsLeaveInTryBlock(cs, o) ==
  LET around == {i \in DOMAIN cs : InTry(cs[i], o) \/ InHandler(cs[i], o)} IN
  around # {} /\ InTry(cs[First(around)], o)

\* FindFirstThrowHandlerIndex passes over Fault clauses
FirstThrowHandlerIndex(cs, o) ==
  LET around == {i \in DOMAIN cs : cs[i].flags # "Fault" /\ InTry(cs[i], o)} IN
  IF around = {} THEN Len(cs) ELSE First(around) - 1

-----------------------------------------------------------------------------
(* Exception-flow entries.  next is nextExClauseIndex, counting from 0 as   *)
(* in the code; target is leaveTarget, which an exception sets to the      *)
(* first offset; at is history, the instruction that raised in this frame. *)

Top == frames[Len(frames)]
Flows == Top.flows
Efi == Flows[Len(Flows)]
PrevEfi == Flows[Len(Flows) - 1]
HasCur == Len(Flows) >= 1
HasPrev == Len(Flows) >= 2

Entry(type, o, ex, next, target) ==
  [type |-> type, throwOffset |-> o, ex |-> ex, next |-> next, target |-> target, at |-> o]

WithFlows(fs, flows) == [fs EXCEPT ![Len(fs)].flows = flows]

PrepareFrom(fs, at, o, ex, first) ==
  WithFlows(fs, Append(fs[Len(fs)].flows,
                       [Entry("Exception", o, ex, first, 1) EXCEPT !.at = at]))

\* mutant: records the next instruction, as for a return address
Prepare_NextIp(fs, o, ex, first) == PrepareFrom(fs, o, o + 1, ex, first)

Prepare(fs, o, ex, first) == PrepareFrom(fs, o, o, ex, first)

PopPrev(flows) == Append(SubSeq(flows, 1, Len(flows) - 2), flows[Len(flows)])

LeftBy(flow, o) ==
  /\ flow.type = "Catch"
  /\ ~InHandler(clauses[imi][flow.next], o)

\* mutant: only the innermost handler left is popped
PopCatchHandlers_One(flows, target) ==
  IF flows # <<>> /\ LeftBy(Last(flows), target) THEN Front(flows) ELSE flows

\* POP_CUR_CATCH_HANDLERS, and POP_PREV_CATCH_HANDLERS below the top entry:
\* drop the Catch entries on top whose handler does not contain the target
PopCatchHandlers(flows, target) ==
  LET kept == {n \in 0..Len(flows) : \A k \in (n + 1)..Len(flows) : LeftBy(flows[k], target)}
  IN  SubSeq(flows, 1, First(kept))

Depart(d) == departures' = departures \cup d

\* An entry is abandoned when control enters a handler outside the one the
\* entry below the top belongs to.
Abandons(flows, o) ==
  IF Len(flows) >= 2 /\ ~InHandler(clauses[Top.method][flows[Len(flows) - 1].next], o)
                     /\ ~InFilter(clauses[Top.method][flows[Len(flows) - 1].next], o)
  THEN {"abandoned"} ELSE {}

-----------------------------------------------------------------------------
(* The dispatch loop *)

Instr == code[ipBase][ip]
Running(op) == phase = "run" /\ Instr.op = op

GoTo(o) == ip' = o /\ phase' = "run" /\ origin' = o

\* Dereferencing a null entry or the null exception ends the process.  The
\* IL2CPP_ASSERTs on the type of an entry do not: they are compiled out.
Abort == phase' = "aborted" /\ UNCHANGED <<frames, imi, ipBase, ip, origin, departures>>

\* ExitEvalLoop, UnWindFail or an exception raised by the catch block: Execute
\* is left and its locals are gone
EndExecute ==
  /\ phase' = "idle" /\ frames' = <<>>
  /\ imi' = NoMethod /\ ipBase' = NoMethod /\ ip' = 1 /\ origin' = 1
  /\ departures' = {}

HasRoom(fs) == Len(fs[Len(fs)].flows) < FlowCap

\* the catch block of Execute: PREPARE_EXCEPTION(ex, 0), then the search
RaiseIn(fs, ex) ==
  /\ HasRoom(fs)
  /\ frames' = Prepare(fs, ip, ex, 0)
  /\ phase' = "search" /\ origin' = ip

\* PREPARE_NEW_FRAME_FROM_NATIVE; failing to enter raises before the try
Execute(m) ==
  /\ phase = "idle"
  /\ frames' = <<[method |-> m, ip |-> 1, flows |-> <<>>]>>
  /\ imi' = m /\ ipBase' = m
  /\ GoTo(1)
  /\ UNCHANGED departures

\* Any instruction without control flow: it completes or raises
Op ==
  /\ Running("op")
  /\ \/ GoTo(ip + 1) /\ UNCHANGED <<frames, departures>>
     \/ \E ex \in Instr.raises : RaiseIn(frames, ex) /\ UNCHANGED <<ip, departures>>
  /\ UNCHANGED <<imi, ipBase>>

Branch ==
  /\ Running("br")
  /\ \E o \in {ip + 1, Instr.target} : GoTo(o)
  /\ UNCHANGED <<frames, imi, ipBase, departures>>

\* CALL_INTERP_*: SAVE_CUR_FRAME, then PREPARE_NEW_FRAME_FROM_INTERPRETER.
\* imi is already the callee's when entering it raises.
Call ==
  /\ Running("call")
  /\ imi' = Instr.method
  /\ LET saved == [frames EXCEPT ![Len(frames)].ip = ip + 1] IN
     \/ /\ Len(frames) < MaxFrames
        /\ frames' = Append(saved, [method |-> Instr.method, ip |-> 1, flows |-> <<>>])
        /\ ipBase' = Instr.method
        /\ GoTo(1)
        /\ UNCHANGED departures
     \/ /\ Instr.method \in FailingEntry \/ Len(frames) >= MaxFrames
        /\ RaiseIn(saved, EntryEx)
        /\ Depart(IF Instr.method # Top.method THEN {"foreign"} ELSE {})
        /\ UNCHANGED <<ip, ipBase>>

\* LEAVE_FRAME; the frame's flow entries go with it
Ret ==
  /\ Running("ret")
  /\ IF Len(frames) = 1
     THEN EndExecute
     ELSE LET caller == frames[Len(frames) - 1] IN
          /\ frames' = Front(frames)
          /\ imi' = caller.method /\ ipBase' = caller.method
          /\ GoTo(caller.ip)
          /\ UNCHANGED departures

\* ThrowEx carries the index found by FindFirstThrowHandlerIndex
Throw ==
  /\ Running("throw") /\ HasRoom(frames)
  /\ LET first == FirstThrowHandlerIndex(clauses[ipBase], ip) IN
     /\ frames' = Prepare(frames, ip, Instr.ex, first)
     /\ Depart(IF \E i \in 1..first : InTry(clauses[ipBase][i], ip) THEN {"faultSkipped"} ELSE {})
  /\ phase' = "search" /\ origin' = ip
  /\ UNCHANGED <<imi, ipBase, ip>>

\* RETHROW_EX raises what the current entry has, whatever its type
Rethrow ==
  /\ Running("rethrow")
  /\ IF HasCur /\ Efi.ex # NoEx
     THEN RaiseIn(frames, Efi.ex) /\ UNCHANGED <<imi, ipBase, ip, departures>>
     ELSE Abort

\* Add_leave: LeaveEx, LeaveEx_Directly or a plain branch
LeaveEx(h) ==
  LET left == PopCatchHandlers(Flows, Instr.target) IN
  /\ HasRoom(frames)
  /\ frames' = WithFlows(frames, Append(left, Entry("Leave", ip, NoEx, h, Instr.target)))
  /\ GoTo(clauses[imi][h].handlerBegin)
  /\ UNCHANGED departures

LeaveEx_Directly ==
  /\ frames' = WithFlows(frames, PopCatchHandlers(Flows, Instr.target))
  /\ GoTo(Instr.target)
  /\ UNCHANGED departures

LeaveByBranch ==
  /\ GoTo(Instr.target)
  /\ Depart(IF HasCur /\ LeftBy(Efi, Instr.target) THEN {"leaked"} ELSE {})
  /\ UNCHANGED frames

LeaveHandlersHere == LeaveHandlers(clauses[ipBase], ip, Instr.target)

Leave ==
  /\ Running("leave")
  /\ LET cs == clauses[ipBase]
         handlers == LeaveHandlersHere
     IN  IF handlers # {} THEN LeaveEx(First(handlers))
         ELSE IF IsLeaveInTryBlock(cs, ip) THEN LeaveByBranch
         ELSE LeaveEx_Directly
  /\ UNCHANGED <<imi, ipBase>>

\* CONTINUE_NEXT_FINALLY: the next clause around the leave that is a finally
\* or whose try also holds the target.  A Catch entry left on top is continued
\* like a leave, to the start of the method.
NextFinally ==
  LET cs == clauses[imi]
      stops == {i \in DOMAIN cs :
                  /\ i > Efi.next
                  /\ InTry(cs[i], Efi.throwOffset)
                  /\ cs[i].flags = "Finally" \/ InTry(cs[i], Efi.target)}
  IN  IF stops # {} /\ ~InTry(cs[First(stops)], Efi.target)
      THEN /\ frames' = [frames EXCEPT ![Len(frames)].flows[Len(Flows)].next = First(stops)]
           /\ GoTo(cs[First(stops)].handlerBegin)
      ELSE /\ frames' = WithFlows(frames, Front(Flows))
           /\ GoTo(Efi.target)

\* ENDFINALLY_EX
EndFinally ==
  /\ Running("endfinally")
  /\ IF HasCur /\ Efi.type = "Exception"
     THEN phase' = "search" /\ origin' = ip /\ UNCHANGED <<frames, imi, ipBase, ip, departures>>
     ELSE IF HasCur
     THEN NextFinally /\ UNCHANGED <<imi, ipBase, departures>>
     ELSE Abort

\* ENDFILTER_EX: the handler follows the filter's code
EndFilter ==
  /\ Running("endfilter")
  /\ IF HasCur
     THEN \/ /\ phase' = "search" /\ origin' = ip
             /\ UNCHANGED <<frames, imi, ipBase, ip, departures>>
          \/ /\ frames' = [frames EXCEPT ![Len(frames)].flows[Len(Flows)].type = "Catch"]
             /\ GoTo(ip + 1)
             /\ UNCHANGED <<imi, ipBase, departures>>
     ELSE Abort

-----------------------------------------------------------------------------
(* FIND_NEXT_EX_HANDLER_OR_UNWIND, one step per turn of its loops *)

Searching == phase = "search"
ClausesLeft == Efi.next < Len(clauses[imi])

Superseded ==
  /\ HasPrev /\ Efi.next >= PrevEfi.next
  /\ ~InHandler(clauses[imi][PrevEfi.next], Efi.throwOffset)

SearchPopPrev ==
  /\ Searching /\ ClausesLeft /\ Superseded
  /\ frames' = WithFlows(frames, PopPrev(Flows))
  /\ UNCHANGED <<imi, ipBase, ip, phase, origin, departures>>

Candidate == clauses[imi][Efi.next + 1]

Advanced == [Flows EXCEPT ![Len(Flows)].next = @ + 1]

\* mutant: the entry of the catch does not name its clause
Caught_KeepsIndex == [Flows EXCEPT ![Len(Flows)].type = "Catch"]

Caught == [Advanced EXCEPT ![Len(Flows)].type = "Catch"]

\* mutant: a clause that does not protect the instruction is looked at again
SearchPass_Again ==
  /\ Searching /\ ClausesLeft /\ ~Superseded
  /\ InTry(Candidate, Efi.throwOffset) =>
       Candidate.flags = "Exception" /\ Efi.ex \in Exceptions \ Candidate.catches
  /\ UNCHANGED vars

\* The next clause, when it does not take the exception
SearchPass ==
  /\ Searching /\ ClausesLeft /\ ~Superseded
  /\ InTry(Candidate, Efi.throwOffset) =>
       Candidate.flags = "Exception" /\ Efi.ex \in Exceptions \ Candidate.catches
  /\ frames' = WithFlows(frames, Advanced)
  /\ UNCHANGED <<imi, ipBase, ip, phase, origin, departures>>

CandidateProtects ==
  Searching /\ ClausesLeft /\ ~Superseded /\ InTry(Candidate, Efi.throwOffset)

SearchCatch ==
  /\ CandidateProtects /\ Candidate.flags = "Exception" /\ Efi.ex \in Candidate.catches
  /\ frames' = WithFlows(frames, Caught)
  /\ GoTo(Candidate.handlerBegin)
  /\ Depart(Abandons(Flows, Candidate.handlerBegin))
  /\ UNCHANGED <<imi, ipBase>>

\* IsAssignableFrom is asked about the class of a Leave entry's exception
SearchNull ==
  CandidateProtects /\ Candidate.flags = "Exception" /\ Efi.ex = NoEx /\ Abort

\* A filter, finally or fault runs while the entry is still an Exception
SearchRun ==
  /\ CandidateProtects /\ Candidate.flags # "Exception"
  /\ LET o == IF Candidate.flags = "Filter" THEN Candidate.filterBegin ELSE Candidate.handlerBegin
     IN GoTo(o) /\ Depart(Abandons(Flows, o))
  /\ frames' = WithFlows(frames, Advanced)
  /\ UNCHANGED <<imi, ipBase>>

\* No clause left: leave the frame and prepare the exception in its caller,
\* at the caller's return address; Execute's caller has it raised again
SearchUnwind ==
  /\ Searching /\ ~ClausesLeft
  /\ IF Len(frames) = 1
     THEN IF Efi.ex = NoEx THEN Abort ELSE EndExecute
     ELSE LET caller == frames[Len(frames) - 1] IN
          /\ HasRoom(Front(frames))
          /\ imi' = caller.method /\ ipBase' = caller.method
          /\ ip' = caller.ip /\ origin' = caller.ip - 1
          /\ frames' = PrepareFrom(Front(frames), caller.ip - 1, caller.ip, Efi.ex, 0)
          /\ Depart(IF \E i \in DOMAIN clauses[caller.method] :
                         InTry(clauses[caller.method][i], caller.ip)
                           # InTry(clauses[caller.method][i], caller.ip - 1)
                    THEN {"misplaced"} ELSE {})
          /\ UNCHANGED phase

\* No entry is left for an exception or a leave: the allocator raises, the
\* catch block's PREPARE_EXCEPTION raises again, and that leaves Execute.
OutOfFlows ==
  /\ \/ /\ phase = "run" /\ ~HasRoom(frames)
        /\ \/ Instr.op = "op" /\ Instr.raises # {}
           \/ Instr.op = "throw"
           \/ Instr.op = "rethrow" /\ HasCur /\ Efi.ex # NoEx
           \/ Instr.op = "call" /\ (Instr.method \in FailingEntry \/ Len(frames) >= MaxFrames)
           \/ Instr.op = "leave" /\ LeaveHandlersHere # {}
     \/ /\ Searching /\ ~ClausesLeft
        /\ Len(frames) > 1 /\ ~HasRoom(Front(frames))
  /\ EndExecute

\* The process is gone
Aborted == phase = "aborted" /\ UNCHANGED vars

-----------------------------------------------------------------------------
Init ==
  /\ frames = <<>> /\ phase = "idle" /\ ip = 1 /\ origin = 1
  /\ imi = NoMethod /\ ipBase = NoMethod
  /\ departures = {}

Search ==
  \/ SearchPopPrev \/ SearchPass \/ SearchCatch \/ SearchRun \/ SearchNull
  \/ SearchUnwind \/ OutOfFlows

Next ==
  \/ \E m \in Methods : Execute(m)
  \/ Op \/ Branch \/ Call \/ Ret
  \/ Throw \/ Rethrow \/ Leave \/ EndFinally \/ EndFilter
  \/ SearchPopPrev \/ SearchPass \/ SearchCatch \/ SearchRun \/ SearchNull
  \/ SearchUnwind \/ OutOfFlows \/ Aborted

\* The search is a loop of the running thread: it goes on by itself.
Spec == Init /\ [][Next]_vars /\ WF_vars(Search)
-----------------------------------------------------------------------------
(* Properties *)

FlowEntry ==
  [type : FlowTypes, throwOffset : Nat, ex : Exceptions \cup {NoEx}, next : Nat,
   target : Nat, at : Nat]

\* The variables hold values of their types: a return address stays inside the
\* caller's code and every entry has the fields its type uses.
TypeOK ==
  /\ \A i \in DOMAIN frames :
       /\ frames[i].method \in Methods
       /\ frames[i].ip \in DOMAIN code[frames[i].method]
       /\ \A k \in DOMAIN frames[i].flows : frames[i].flows[k] \in FlowEntry
  /\ {imi, ipBase} \subseteq Methods \cup {NoMethod}
  /\ ip \in Nat
  /\ phase \in {"idle", "run", "search", "aborted"}
  /\ departures \subseteq Departures

Enclosing(m, o) ==
  {i \in DOMAIN clauses[m] : InHandler(clauses[m][i], o) \/ InFilter(clauses[m][i], o)}

\* The types an entry may have while control is in clause c's handler
EntryTypes(c, o) ==
  CASE InFilter(c, o) -> {"Exception"}
    [] c.flags \in {"Exception", "Filter"} /\ ~InFilter(c, o) -> {"Catch"}
    [] c.flags = "Fault" -> {"Exception"}
    [] c.flags = "Finally" -> {"Exception", "Leave"}

\* LEAVE_EX pops the catches it leaves before their inner finallys run
AlreadyLeft(f, i) ==
  /\ clauses[f.method][i].flags \in {"Exception", "Filter"}
  /\ \E k \in DOMAIN f.flows :
       /\ f.flows[k].type = "Leave"
       /\ InHandler(clauses[f.method][i], f.flows[k].throwOffset)
       /\ ~InHandler(clauses[f.method][i], f.flows[k].target)

Matches(f, o) ==
  /\ {f.flows[k].next : k \in DOMAIN f.flows}
       = {i \in Enclosing(f.method, o) : ~AlreadyLeft(f, i)}
  /\ \A k \in DOMAIN f.flows :
       /\ f.flows[k].type \in EntryTypes(clauses[f.method][f.flows[k].next], o)
       /\ k > 1 => f.flows[k].next < f.flows[k - 1].next

\* While a program runs, the flow entries of each of its frames are exactly
\* the handlers around the frame's current instruction, innermost last, less
\* the catches a leave in progress is leaving: nothing is left over and
\* nothing is popped too early.
FlowsMatchHandlers ==
  (phase = "run" /\ departures \cap {"abandoned", "leaked", "foreign"} = {}) =>
    \A i \in DOMAIN frames :
      Matches(frames[i], IF i = Len(frames) THEN ip ELSE frames[i].ip - 1)

\* FIND_NEXT reads exClauses[prev->nextExClauseIndex - 1] unchecked: the
\* state is well-typed, and an entry under another one always names a clause of
\* its frame's method.
ClauseIndexInTable ==
  /\ TypeOK
  /\ "foreign" \notin departures =>
       \A i \in DOMAIN frames : \A k \in DOMAIN frames[i].flows :
         (k < Len(frames[i].flows) \/ phase = "run") =>
           frames[i].flows[k].next \in DOMAIN clauses[frames[i].method]

LeavesTry(c) ==
  /\ InTry(c, origin)
  /\ \/ Len(frames') < Len(frames)
     \/ Len(frames') = Len(frames) /\ ~InTry(c, origin')

\* A step out of the try block of a finally, or of a fault because of an
\* exception, is one into its handler.
FinallyRuns ==
  \A i \in DOMAIN clauses[Top.method] :
    LET c == clauses[Top.method][i] IN
    (LeavesTry(c) /\ (c.flags = "Finally" \/ (c.flags = "Fault" /\ phase = "search")))
      => Len(frames') = Len(frames) /\ ip' = c.handlerBegin

\* Control that leaves the try block of a finally, or of a fault because of
\* an exception, goes to its handler first: neither a jump, nor a handler
\* further out, nor leaving the frame passes it by.  Only code that needs an
\* entry when none is left ends Execute there.
FinallyAlwaysRuns ==
  [][(/\ frames # <<>> /\ (departures \cup departures') \cap {"foreign", "faultSkipped"} = {}
      /\ ~(phase = "run" /\ OutOfFlows)) => FinallyRuns]_vars

\* A handler is entered only for an exception raised inside its try block.
HandlerProtectsRaise ==
  [][(phase = "search" /\ phase' = "run" /\ (departures \cup departures') \cap {"misplaced", "foreign"} = {})
     => \E i \in DOMAIN clauses[Top.method] :
          LET c == clauses[Top.method][i] IN
          /\ InTry(c, Efi.at)
          /\ ip' \in {c.handlerBegin} \cup (IF c.flags = "Filter" THEN {c.filterBegin} ELSE {})]_vars

\* An exception finds a handler or leaves Execute: the search does not hang.
SearchEnds == phase = "search" ~> phase # "search"

\* An exception does not leave the frame from the try block of a fault (the
\* finally of a C# iterator) without running its handler.
FaultAlwaysRuns ==
  [][(phase = "search" /\ Len(frames') < Len(frames))
     => ~\E i \in DOMAIN clauses[Top.method] :
           clauses[Top.method][i].flags = "Fault" /\ InTry(clauses[Top.method][i], origin)]_vars
=============================================================================
