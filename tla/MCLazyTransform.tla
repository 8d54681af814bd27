-------------------------- MODULE MCLazyTransform --------------------------
(* A program of five methods and four tokens: a caller of a recursive      *)
(* inlineable method, of one instantiation of a generic method and of a    *)
(* method without a body.  The generic method's other instantiation shares *)
(* the token, is barred from inlining and matches a whole-method kernel.   *)
EXTENDS LazyTransform, TLC

CONSTANTS caller, recur, genInt, genStr, none,  \* methods
          kCaller, kRecur, kGen, kNone          \* tokens

MCTokenOf ==
    (caller :> kCaller) @@ (recur :> kRecur) @@ (genInt :> kGen) @@ (genStr :> kGen) @@ (none :> kNone)

MCSites ==
    (caller :> <<recur, genInt, none, recur>>) @@ (recur :> <<recur>>) @@ (genInt :> <<genStr>>)
        @@ (genStr :> <<genInt>>) @@ (none :> <<>>)

\* Intervals of two and of three versions, with one and two levels of inlining.
MCOptions == {<<1, 1>>, <<6, 2>>}

\* A smaller program for liveness: mutual recursion through an inlined callee.
FewTokenOf == (caller :> kCaller) @@ (recur :> kRecur) @@ (none :> kNone)
FewSites == (caller :> <<recur, none>>) @@ (recur :> <<recur, caller>>) @@ (none :> <<>>)
=============================================================================
