--------------------------- MODULE MCWaitObject ----------------------------
EXTENDS WaitObject

CONSTANTS t1, t2, t3, m, s, a, e

Plain == [threads |-> {t1, t2, t3}, objects |-> {m}, timeouts |-> {"infinite", "zero"},
          interruptible |-> {FALSE}, apcs |-> 0]
Called == [Plain EXCEPT !.timeouts = {"infinite", "timed"}, !.interruptible = {TRUE},
                        !.threads = {t1, t2}, !.apcs = 1]

\* Every kind of object without timeouts, the events also with timeouts and calls.
MCPrograms == {Plain} \cup
    {[Plain EXCEPT !.objects = {o}, !.timeouts = {"infinite"}] : o \in {s, a, e}} \cup
    {[Called EXCEPT !.objects = {o}] : o \in {a, e}}
=============================================================================
