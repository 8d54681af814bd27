--------------------------- MODULE MCExceptionFlow ---------------------------
(* Method bodies as their compiled IL: every two-level nesting of catch,    *)
(* filter, finally and fault regions, with raising instructions, rethrows   *)
(* and leaves of one or more levels everywhere they are legal, a few        *)
(* methods that call each other, and filters that throw inside.             *)
EXTENDS ExceptionFlow, TLC

CONSTANTS A, B, Full

MCExceptions == {A, B, Full}

Ins(op) == [op |-> op, raises |-> {}, ex |-> NoEx, target |-> 1, method |-> <<>>]
O(S) == [Ins("op") EXCEPT !.raises = S]
T(e) == [Ins("throw") EXCEPT !.ex = e]
C(m) == [Ins("call") EXCEPT !.method = m]
L(t) == [Ins("leave") EXCEPT !.target = t]
Br(t) == [Ins("br") EXCEPT !.target = t]
R == Ins("rethrow")
EndF == Ins("endfinally")
EndFlt == Ins("endfilter")
Return == Ins("ret")

Clause(flags, tb, te, hb, he, fb, S) ==
  [flags |-> flags, tryBegin |-> tb, tryEnd |-> te, handlerBegin |-> hb,
   handlerEnd |-> he, filterBegin |-> fb, catches |-> S]

\* A piece of a body: target 0 stands for the return at the end
Shift(p, n) ==
  [code |-> [i \in DOMAIN p.code |->
               [p.code[i] EXCEPT !.target = IF @ = 0 THEN 0 ELSE @ + n]],
   clauses |-> [i \in DOMAIN p.clauses |->
                  [p.clauses[i] EXCEPT !.tryBegin = @ + n, !.tryEnd = @ + n,
                     !.handlerBegin = @ + n, !.handlerEnd = @ + n, !.filterBegin = @ + n]]]

Plain(mayLeave) ==
  [code |-> IF mayLeave THEN <<O({A, B}), Br(4), L(0), O({})>> ELSE <<O({A, B})>>,
   clauses |-> <<>>]

\* One protected region around the pieces t and h
Protect(kind, t, h) ==
  LET filter == IF kind = "Filter" THEN <<O({B}), EndFlt>> ELSE <<>>
      te == Len(t.code) + 2
      hb == te + Len(filter)
      end == hb + Len(h.code)
      ending == IF kind \in {"Exception", "Filter"} THEN <<Br(end + 2), R, L(end + 3)>>
                ELSE <<EndF>>
      after == end + Len(ending)
      moved == Shift(h, hb - 1)
  IN  [code |-> t.code \o <<L(after)>> \o filter \o moved.code \o ending,
       clauses |-> t.clauses \o moved.clauses
                     \o <<Clause(kind, 1, te, hb, after, te, {A})>>]

Finish(p) ==
  [p EXCEPT !.code = [i \in DOMAIN @ |-> [@[i] EXCEPT !.target = IF @ = 0 THEN Len(p.code) + 1 ELSE @]]
                       \o <<Return>>]

Kinds == ClauseFlags
Pieces == Kinds \cup {"plain"}
MayLeave(kind) == kind \in {"Exception", "Filter"}

Piece(kind, mayLeave) ==
  IF kind = "plain" THEN Plain(mayLeave)
  ELSE Protect(kind, Plain(mayLeave), Plain(mayLeave /\ MayLeave(kind)))

\* <<"try", outer, mid, t, h>> nests mid in the try block of outer,
\* <<"handler", ...>> in its handler; t and h are inside mid
Nested(m) ==
  LET mayLeave == m[1] = "try" \/ MayLeave(m[2])
      mid == Protect(m[3], Piece(m[4], mayLeave), Piece(m[5], mayLeave /\ MayLeave(m[3])))
  IN  Finish(IF m[1] = "try" THEN Protect(m[2], mid, Plain(MayLeave(m[2])))
                             ELSE Protect(m[2], Plain(TRUE), mid))

NestedMethods == {"try", "handler"} \X Kinds \X Kinds \X Pieces \X Pieces

Calling ==
  \* try { try { throw B; | A } finally { } } catch (A) { }
  <<"callee">> :> [code |-> <<Br(3), T(B), O({A}), L(7), O({}), EndF, Return>>,
                   clauses |-> <<Clause("Finally", 1, 5, 5, 7, 0, {})>>] @@
  \* try { try { callee(); } catch (A) { throw; } finally { } } catch { }
  <<"caller">> :> [code |-> <<O({}), C(<<"callee">>), L(9), O({}), R, L(9), O({}), EndF, L(11),
                              L(11), Return>>,
                   clauses |-> <<Clause("Exception", 1, 4, 4, 6, 0, {A}),
                                 Clause("Finally", 1, 7, 7, 9, 0, {}),
                                 Clause("Exception", 1, 10, 10, 11, 0, {A, B})>>] @@
  \* callee(); try { } catch { }
  <<"callBeforeTry">> :> [code |-> <<C(<<"callee">>), O({A}), L(5), L(5), Return>>,
                          clauses |-> <<Clause("Exception", 2, 4, 4, 5, 0, {A, B})>>] @@
  \* raise A; try { } catch { }
  <<"raiseBeforeTry">> :> [code |-> <<O({A}), O({}), L(5), L(5), Return>>,
                           clauses |-> <<Clause("Exception", 2, 4, 4, 5, 0, {A, B})>>] @@
  \* try { lazy(); } finally { }, where lazy's class constructor may raise
  <<"callLazy">> :> [code |-> <<O({}), C(<<"lazy">>), L(6), O({}), EndF, Return>>,
                     clauses |-> <<Clause("Finally", 1, 4, 4, 6, 0, {})>>] @@
  \* try { } catch { }
  <<"lazy">> :> [code |-> <<O({B}), L(4), L(4), Return>>,
                 clauses |-> <<Clause("Exception", 1, 3, 3, 4, 0, {Full})>>] @@
  \* try { deep(); } finally { }
  <<"deep">> :> [code |-> <<C(<<"deep">>), L(5), O({}), EndF, Return>>,
                 clauses |-> <<Clause("Finally", 1, 3, 3, 5, 0, {})>>] @@
  \* an iterator's MoveNext: try { throw B; | A } fault { }
  <<"iterator">> :> [code |-> <<O({A}), Br(4), T(B), L(7), O({}), EndF, Return>>,
                     clauses |-> <<Clause("Fault", 1, 5, 5, 7, 0, {})>>] @@
  \* try { } when (try { try { } finally { throw A; } } catch (A) { }) { }, whose
  \* filter ends with the finally's Leave entry on top
  <<"filterThrows">> :> [code |-> <<O({A}), L(10), L(6), O({A}), EndF, L(8), L(8), EndFlt, L(10),
                                    Return>>,
                         clauses |-> <<Clause("Finally", 3, 4, 4, 6, 0, {}),
                                       Clause("Exception", 3, 7, 7, 8, 0, {A}),
                                       Clause("Filter", 1, 3, 9, 10, 3, {})>>] @@
  \* the same with a filter in place of the inner catch
  <<"filtersThrow">> :> [code |-> <<O({A}), L(11), L(6), O({A}), EndF, L(9), EndFlt, L(9), EndFlt,
                                    L(11), Return>>,
                         clauses |-> <<Clause("Finally", 3, 4, 4, 6, 0, {}),
                                       Clause("Filter", 3, 7, 8, 9, 7, {}),
                                       Clause("Filter", 1, 3, 10, 11, 3, {})>>]

\* TLC evaluates a definition of this module once, but what a .cfg puts in
\* place of a constant at every use: hence the two steps.
CodeTable == [m \in NestedMethods |-> Nested(m).code]
               @@ [m \in DOMAIN Calling |-> Calling[m].code]
ClauseTable == [m \in NestedMethods |-> Nested(m).clauses]
                 @@ [m \in DOMAIN Calling |-> Calling[m].clauses]
MCMethods == NestedMethods \cup DOMAIN Calling
MCCode == CodeTable
MCClauses == ClauseTable
MCFailing == {<<"lazy">>}
=============================================================================
