-------------------------- MODULE MCObjectMonitor --------------------------
EXTENDS ObjectMonitor, TLC

CONSTANTS a, b

\* Threads and monitors are interchangeable.
Symmetry == Permutations(Thread) \cup Permutations(Monitor)

Plain == [objects |-> {a}, enters |-> {"infinite"}, waits |-> {}, interrupts |-> {},
          depth |-> 1, aborts |-> 0]

MCPrograms == {
    [Plain EXCEPT !.objects = {a, b}],
    [Plain EXCEPT !.enters = {"zero"}, !.waits = {"zero"}, !.depth = 2],
    [Plain EXCEPT !.waits = {"infinite"}],
    [Plain EXCEPT !.enters = {"timed"}, !.waits = {"timed"}, !.interrupts = {"enter", "wait"}],
    [Plain EXCEPT !.objects = {a, b}, !.aborts = 1],
    [Plain EXCEPT !.depth = 2, !.aborts = 1]}
=============================================================================
