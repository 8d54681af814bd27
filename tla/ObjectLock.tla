----------------------------- MODULE ObjectLock -----------------------------
(***************************************************************************)
(* What System.Threading.Monitor promises a C# program: an object has at   *)
(* most one holder, a holder may lock again, Wait gives the lock up        *)
(* completely and returns holding it as often as before, and an endless    *)
(* Wait returns only after a Pulse.  ObjectMonitor implements it.          *)
(***************************************************************************)
EXTENDS Naturals

CONSTANTS
    Thread,
    Object,
    None            \* no thread, no object

VARIABLES
    holder,         \* the thread that holds an object's lock, or None
    depth,          \* how often it holds it
    waiting,        \* what each waiting thread has to get back
    mayGiveUp,      \* whether the program's Waits may end without a pulse
    mayAbort        \* whether its threads may be aborted, which ends every promise

settings == <<mayGiveUp, mayAbort>>
vars == <<holder, depth, waiting, settings>>

NotWaiting == [obj |-> None, depth |-> 0, pulsed |-> FALSE]

Init ==
    /\ holder = [o \in Object |-> None]
    /\ depth = [o \in Object |-> 0]
    /\ waiting = [t \in Thread |-> NotWaiting]
    /\ mayGiveUp \in BOOLEAN /\ mayAbort \in BOOLEAN

Take(t, o, n) ==
    /\ holder[o] = None
    /\ holder' = [holder EXCEPT ![o] = t]
    /\ depth' = [depth EXCEPT ![o] = n]

Drop(o) ==
    /\ holder' = [holder EXCEPT ![o] = None]
    /\ depth' = [depth EXCEPT ![o] = 0]

Enter(t, o) ==
    /\ waiting[t] = NotWaiting
    /\ Take(t, o, 1)
    /\ UNCHANGED waiting

Reenter(t, o) ==
    /\ holder[o] = t
    /\ depth' = [depth EXCEPT ![o] = @ + 1]
    /\ UNCHANGED <<holder, waiting>>

Exit(t, o) ==
    /\ holder[o] = t
    /\ IF depth[o] > 1
       THEN depth' = [depth EXCEPT ![o] = @ - 1] /\ UNCHANGED holder
       ELSE Drop(o)
    /\ UNCHANGED waiting

BeginWait(t, o) ==
    /\ holder[o] = t
    /\ waiting' = [waiting EXCEPT ![t] = [obj |-> o, depth |-> depth[o], pulsed |-> FALSE]]
    /\ Drop(o)

\* Pulse and PulseAll: some of the threads that wait for o.
Pulse(t, o) ==
    /\ holder[o] = t
    /\ \E woken \in SUBSET {w \in Thread : waiting[w].obj = o} :
          waiting' = [w \in Thread |->
                         IF w \in woken THEN [waiting[w] EXCEPT !.pulsed = TRUE] ELSE waiting[w]]
    /\ UNCHANGED <<holder, depth>>

EndWait(t, o) ==
    /\ waiting[t].obj = o
    /\ waiting[t].pulsed \/ mayGiveUp
    /\ Take(t, o, waiting[t].depth)
    /\ waiting' = [waiting EXCEPT ![t] = NotWaiting]

Use ==
    \E t \in Thread, o \in Object :
        \/ Enter(t, o) \/ Reenter(t, o) \/ Exit(t, o)
        \/ BeginWait(t, o) \/ Pulse(t, o) \/ EndWait(t, o)

\* What the threads do between their calls; most steps of an implementation.
Elsewhere == UNCHANGED <<holder, depth, waiting>>

Next == (Elsewhere \/ mayAbort \/ Use) /\ UNCHANGED settings

Spec == Init /\ [][Next]_vars
=============================================================================
