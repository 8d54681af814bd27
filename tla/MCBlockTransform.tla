-------------------------- MODULE MCBlockTransform --------------------------
EXTENDS BlockTransform

I(op, to) == [op |-> op, to |-> to]

Plain == {I(op, <<>>) : op \in {"work", "push", "new", "pop"}}
Jumps(ops, n) == {I(op, <<t>>) : op \in ops, t \in 1..n}
Switches(n) == {I("switch", <<t, u>>) : t \in 1..n, u \in {1, n}}

\* every body over an alphabet that a verifier would accept
Bodies(n, alphabet) ==
  {c \in {Append(s, I("ret", <<>>)) : s \in [1..(n - 1) -> alphabet]} :
     \E d \in [1..n -> 0..2] : Depths([code |-> c, clauses |-> <<>>], d)}

Short == Bodies(4, Plain \cup Jumps({"br", "brtrue", "brfalse"}, 4) \cup Switches(4))
Pairs == Bodies(4, {I("push", <<>>), I("dup", <<>>), I("pop", <<>>)} \cup Jumps({"beq", "br"}, 4))
Long == Bodies(5, {I("work", <<>>), I("push", <<>>)} \cup Jumps({"br", "brtrue"}, 5))

\* A try block at offset b of a method, with one clause: inside the block a
\* branch or none, out of it a leave to what follows, or back to the start
Tries(b) == {<<I("work", <<>>)>>, <<I("push", <<>>), I("throw", <<>>)>>,
             <<I("new", <<>>), I("throw", <<>>)>>,
             <<I("push", <<>>), I("brtrue", <<b>>)>>,
             <<I("push", <<>>), I("brfalse", <<b + 2>>)>>,
             <<I("new", <<>>), I("brtrue", <<b + 3>>), I("work", <<>>)>>}
Handler(flags, after) ==
  CASE flags = "catch" -> {<<I("pop", <<>>), I("leave", <<after>>)>>,
                           <<I("work", <<>>), I("rethrow", <<>>)>>}
    [] flags = "filter" -> {<<I("pop", <<>>), I("leave", <<after>>)>>}
    [] OTHER -> {<<I("work", <<>>), I("endfinally", <<>>)>>}
Filter(flags) == IF flags = "filter" THEN <<I("work", <<>>), I("endfilter", <<>>)>> ELSE <<>>

Guarded(pre, try, flags, home) ==
  LET b == Len(pre) + 1
      e == b + Len(try) + 1
      h == e + Len(Filter(flags))
      after == h + 2
  IN  {[code |-> pre \o try \o <<I("leave", <<IF home THEN b ELSE after>>)>> \o Filter(flags)
                   \o hd \o <<I("work", <<>>), I("ret", <<>>)>>,
        clauses |-> <<[flags |-> flags, tryBegin |-> b, tryEnd |-> e, handler |-> h,
                       handlerEnd |-> after, filter |-> IF flags = "filter" THEN e ELSE 0]>>,
        init |-> TRUE, maxStack |-> 2] : hd \in Handler(flags, after)}

Protected ==
  UNION ({Guarded(<<>>, try, flags, home) :
            try \in Tries(1), flags \in {"catch", "filter", "finally", "fault"}, home \in BOOLEAN}
         \cup {Guarded(<<I("work", <<>>)>>, try, flags, FALSE) :
            try \in Tries(2), flags \in {"catch", "filter", "finally"}})

\* a new object that is dropped before the branch
Dropped == {<<I("push", <<>>), I("new", <<>>), I("pop", <<>>), I(op, <<t>>), I("ret", <<>>)>> :
              op \in {"brtrue", "brfalse"}, t \in {1, 5}}

MCPrograms ==
  {[code |-> c, clauses |-> <<>>, init |-> i, maxStack |-> 2] : c \in Short, i \in BOOLEAN}
    \cup {[code |-> c, clauses |-> <<>>, init |-> TRUE, maxStack |-> 2] : c \in Pairs \cup Long \cup Dropped}
    \cup Protected
=============================================================================
