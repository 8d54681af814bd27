--------------------------- MODULE ObjectMonitor ---------------------------
(***************************************************************************)
(* System.Threading.Monitor as libil2cpp implements it: an object without  *)
(* a monitor is unlocked; locking inflates it with a MonitorData from a    *)
(* lock-free list, and the last holder deflates it again.  Threads may     *)
(* still refer to a monitor after it has gone back to the list, or into    *)
(* use for another object.                                                 *)
(*                                                                         *)
(* One step is one access of a shared word.  The semaphore is a number of  *)
(* tokens (the primitive itself is WaitObject's part); flushAcknowledged   *)
(* only shortens a wait of one millisecond and is left out.  A thread      *)
(* locks one object at a time.                                             *)
(***************************************************************************)
EXTENDS Naturals, Sequences, FiniteSets, SequencesExt

CONSTANTS
    Thread,
    Object,
    Monitor,        \* the MonitorDatas that are ever allocated
    None,           \* no monitor, no object
    Free,           \* kCanBeAcquiredByOtherThread
    Listed,         \* kHasBeenReturnedToFreeList
    Programs,       \* what the threads may do, a set of records:
                    \*   objects    the objects they lock
                    \*   enters     the timeouts of Enter: "infinite", "timed", "zero"
                    \*   waits      the timeouts of Wait
                    \*   interrupts where Thread.Interrupt strikes: "enter", "wait", "reenter"
                    \*   depth      bound: recursive locks
                    \*   aborts     bound: threads aborted while they wait for a lock
    MaxTokens       \* bound: the semaphore saturates, a token more wakes nobody else

ASSUME ProgramAssumption ==
    \A p \in Programs :
        /\ p.objects \subseteq Object /\ p.depth \in Nat \ {0} /\ p.aborts \in Nat
        /\ p.enters \cup p.waits \subseteq {"infinite", "timed", "zero"}
        /\ p.interrupts \subseteq {"enter", "wait", "reenter"}
ASSUME BoundAssumption == MaxTokens \in Nat \ {0}
ASSUME ThreadAssumption == IsFiniteSet(Thread)
ASSUME NoneAssumption ==
    /\ None \notin Thread \cup Monitor \cup Object
    /\ Free \notin Thread /\ Listed \notin Thread /\ Free # Listed

VARIABLES
    program,        \* the program that runs, one of Programs
    monitor,        \* obj->monitor
    owner,          \* owningThreadId
    locks,          \* recursiveLockingCount
    tokens,         \* the count of the semaphore
    ready,          \* numThreadsWaitingForSemaphore
    pulseList,      \* threadsWaitingForPulse, head first; a node is its thread
    aborted,        \* monitors whose threadAborted is set
    freeList,       \* s_FreeList, the next to be allocated last
    fresh,          \* monitors not allocated yet
    signalled,      \* threads whose node's signalWaitingThread is set
    thread          \* the local state of each thread

heap == <<monitor, owner, locks, tokens, ready, aborted>>
lists == <<pulseList, signalled>>
pool == <<freeList, fresh>>
state == <<heap, lists, pool, thread>>
vars == <<program, state>>

NoWait == [depth |-> 0, kind |-> "none", pulsed |-> FALSE]
Idle == [pc |-> "idle", obj |-> None, mon |-> None, kind |-> "none", wait |-> NoWait]

At(t, pc) == thread[t].pc = pc
Obj(t) == thread[t].obj
Mon(t) == thread[t].mon
Waits(t) == thread[t].wait # NoWait

Goto(t, pc) == thread' = [thread EXCEPT ![t].pc = pc]
Become(t, r) == thread' = [thread EXCEPT ![t] = r]

\* Enter has the lock; inside Wait the recursion count is still to be restored.
Entered(t) == Goto(t, IF Waits(t) THEN "restore" ELSE "held")

Post(m, n) ==
    tokens' = [tokens EXCEPT ![m] = IF @ + n > MaxTokens THEN MaxTokens ELSE @ + n]

Init ==
    /\ program \in Programs
    /\ monitor = [o \in Object |-> None]
    /\ owner = [m \in Monitor |-> Listed]
    /\ locks = [m \in Monitor |-> 1]
    /\ tokens = [m \in Monitor |-> 0]
    /\ ready = [m \in Monitor |-> 0]
    /\ pulseList = [m \in Monitor |-> <<>>]
    /\ aborted = {}
    /\ freeList = <<>>
    /\ fresh = Monitor
    /\ signalled = {}
    /\ thread = [t \in Thread |-> Idle]

-----------------------------------------------------------------------------
(* Monitor::TryEnter                                                       *)

Enter(t) ==
    /\ At(t, "idle")
    /\ \E o \in program.objects, k \in program.enters :
          Become(t, [Idle EXCEPT !.pc = "read", !.obj = o, !.kind = k])
    /\ UNCHANGED <<heap, lists, pool>>

ReadMonitor(t) ==
    /\ At(t, "read")
    /\ LET m == monitor[Obj(t)] IN
       Become(t, [thread[t] EXCEPT !.pc = IF m = None THEN "allocate" ELSE "try", !.mon = m])
    /\ UNCHANGED <<heap, lists, pool>>

\* ThreadSafeFreeList::Allocate
Allocate(t) ==
    /\ At(t, "allocate")
    /\ \E m \in IF freeList # <<>> THEN {Last(freeList)} ELSE fresh :
          /\ freeList' = IF freeList # <<>> THEN Front(freeList) ELSE freeList
          /\ fresh' = fresh \ {m}
          /\ owner' = [owner EXCEPT ![m] = t]
          /\ Become(t, [thread[t] EXCEPT !.pc = "install", !.mon = m])
    /\ UNCHANGED <<monitor, locks, tokens, ready, aborted, lists>>

\* mutant: the monitor is left up for grabs
Recycle_Free(m) ==
    /\ owner' = [owner EXCEPT ![m] = Free]
    /\ freeList' = Append(freeList, m)
    /\ UNCHANGED fresh

\* The monitor goes back to the free list, which no thread can take it from before.
Recycle(m) ==
    /\ owner' = [owner EXCEPT ![m] = Listed]
    /\ freeList' = Append(freeList, m)
    /\ UNCHANGED fresh

Install(t) ==
    /\ At(t, "install")
    /\ \/ /\ monitor[Obj(t)] = None
          /\ monitor' = [monitor EXCEPT ![Obj(t)] = Mon(t)]
          /\ Entered(t)
          /\ UNCHANGED <<owner, pool>>
       \/ /\ monitor[Obj(t)] # None
          /\ Recycle(Mon(t))
          /\ Goto(t, "read")
          /\ UNCHANGED monitor
    /\ UNCHANGED <<locks, tokens, ready, aborted, lists>>

TryAcquire(t) ==
    /\ owner[Mon(t)] = Free
    /\ owner' = [owner EXCEPT ![Mon(t)] = t]

Try(t) ==
    /\ At(t, "try")
    /\ \/ TryAcquire(t) /\ Goto(t, "verify")
       \/ /\ owner[Mon(t)] # Free
          /\ IF thread[t].kind = "zero" THEN Become(t, Idle) ELSE Goto(t, "join")
          /\ UNCHANGED owner
    /\ UNCHANGED <<monitor, locks, tokens, ready, aborted, lists, pool>>

\* mutant: the acquired monitor is not compared with the object's
Verify_Trusts(t) ==
    /\ At(t, "verify")
    /\ Entered(t)
    /\ UNCHANGED <<heap, lists, pool>>

\* The monitor may have been taken off the object before it was acquired.
Verify(t) ==
    /\ At(t, "verify")
    /\ \/ /\ monitor[Obj(t)] = Mon(t)
          /\ Entered(t)
          /\ UNCHANGED owner
       \/ /\ monitor[Obj(t)] # Mon(t)
          /\ owner' = [owner EXCEPT ![Mon(t)] = Free]
          /\ Goto(t, "read")
    /\ UNCHANGED <<monitor, locks, tokens, ready, aborted, lists, pool>>

\* AddCurrentThreadToReadyList
Join(t) ==
    /\ At(t, "join")
    /\ ready' = [ready EXCEPT ![Mon(t)] = @ + 1]
    /\ Goto(t, "loop")
    /\ UNCHANGED <<monitor, owner, locks, tokens, aborted, lists, pool>>

\* RemoveCurrentThreadFromReadyList
Leave(m) == ready' = [ready EXCEPT ![m] = @ - 1]

\* The test after joining and the one of the loop, which do the same.
Loop(t) ==
    /\ At(t, "loop")
    /\ \/ /\ monitor[Obj(t)] = Mon(t)
          /\ Goto(t, "grab")
          /\ UNCHANGED ready
       \/ /\ monitor[Obj(t)] # Mon(t)
          /\ Leave(Mon(t))      \* VacateDyingMonitor
          /\ Goto(t, "read")
    /\ UNCHANGED <<monitor, owner, locks, tokens, aborted, lists, pool>>

Grab(t) ==
    /\ At(t, "grab")
    /\ \/ TryAcquire(t) /\ Leave(Mon(t)) /\ Entered(t)
       \/ owner[Mon(t)] # Free /\ Goto(t, "sleep") /\ UNCHANGED <<owner, ready>>
    /\ UNCHANGED <<monitor, locks, tokens, aborted, lists, pool>>

Wake(t) ==
    /\ At(t, "sleep")
    /\ tokens[Mon(t)] > 0
    /\ tokens' = [tokens EXCEPT ![Mon(t)] = @ - 1]
    /\ Goto(t, "loop")
    /\ UNCHANGED <<monitor, owner, locks, ready, aborted, lists, pool>>

\* The last waiting thread tries once more, since an owner that has counted it
\* did not deflate the object.
EnterTimesOut(t) ==
    /\ At(t, "sleep")
    /\ thread[t].kind = "timed"
    /\ Leave(Mon(t))
    /\ IF ready[Mon(t)] = 1 THEN Goto(t, "lastRead") ELSE Become(t, Idle)
    /\ UNCHANGED <<monitor, owner, locks, tokens, aborted, lists, pool>>

LastRead(t) ==
    /\ At(t, "lastRead")
    /\ IF monitor[Obj(t)] = Mon(t) THEN Goto(t, "lastGrab") ELSE Become(t, Idle)
    /\ UNCHANGED <<heap, lists, pool>>

LastGrab(t) ==
    /\ At(t, "lastGrab")
    /\ \/ TryAcquire(t) /\ Entered(t)
       \/ owner[Mon(t)] # Free /\ Become(t, Idle) /\ UNCHANGED owner
    /\ UNCHANGED <<monitor, locks, tokens, ready, aborted, lists, pool>>

\* An exception out of the semaphore; in Wait it leaves the node on its list.
EnterIsInterrupted(t) ==
    /\ At(t, "sleep")
    /\ (IF Waits(t) THEN "reenter" ELSE "enter") \in program.interrupts
    /\ Leave(Mon(t))
    /\ Become(t, IF Waits(t) THEN [Idle EXCEPT !.pc = "thrown"] ELSE Idle)
    /\ UNCHANGED <<monitor, owner, locks, tokens, aborted, lists, pool>>

\* NativeThreadAbortException, at shutdown: the thread stays in the ready count.
EnterIsAborted(t) ==
    /\ At(t, "sleep") /\ ~ Waits(t)
    /\ Cardinality({u \in Thread : thread[u].kind = "aborted"}) < program.aborts
    /\ aborted' = aborted \cup {Mon(t)}
    /\ Become(t, [thread[t] EXCEPT !.pc = "aborted", !.kind = "aborted"])
    /\ UNCHANGED <<monitor, owner, locks, tokens, ready, lists, pool>>

-----------------------------------------------------------------------------
(* A thread that holds the lock                                            *)

Reenter(t) ==
    /\ At(t, "held")
    /\ locks[Mon(t)] < program.depth
    /\ locks' = [locks EXCEPT ![Mon(t)] = @ + 1]
    /\ UNCHANGED <<monitor, owner, tokens, ready, aborted, lists, pool, thread>>

ExitInner(t) ==
    /\ At(t, "held")
    /\ locks[Mon(t)] > 1
    /\ locks' = [locks EXCEPT ![Mon(t)] = @ - 1]
    /\ UNCHANGED <<monitor, owner, tokens, ready, aborted, lists, pool, thread>>

\* What Monitor::Exit does with the lock, from who is interested in it.
ExitWay(m) ==
    IF ready[m] # 0 THEN "hand" ELSE IF pulseList[m] # <<>> THEN "park" ELSE "deflate"

ExitOuter(t) ==
    /\ At(t, "exit") \/ (At(t, "held") /\ locks[Mon(t)] = 1)
    /\ Goto(t, ExitWay(Mon(t)))
    /\ UNCHANGED <<heap, lists, pool>>

\* The exit is over: Wait goes on to its event, or at once back to Enter.
Released(t) ==
    Become(t, IF thread[t].kind = "aborted" THEN [Idle EXCEPT !.pc = "dead", !.kind = "aborted"]
              ELSE IF ~ Waits(t) THEN Idle
              ELSE [thread[t] EXCEPT !.pc = IF thread[t].wait.kind = "zero" THEN "read" ELSE "pulse",
                                     !.mon = None])

Unacquire(t) ==
    /\ At(t, "hand") \/ At(t, "park")
    /\ owner' = [owner EXCEPT ![Mon(t)] = Free]
    /\ Goto(t, IF At(t, "hand") THEN "post" ELSE "postIfReady")
    /\ UNCHANGED <<monitor, locks, tokens, ready, aborted, lists, pool>>

PostOne(t) ==
    /\ At(t, "post")
    /\ Post(Mon(t), 1)
    /\ Released(t)
    /\ UNCHANGED <<monitor, owner, locks, ready, aborted, lists, pool>>

\* mutant: the count is not looked at again
PostIfReady_Never(t) ==
    /\ At(t, "postIfReady")
    /\ Released(t)
    /\ UNCHANGED <<heap, lists, pool>>

\* The second look at the count, after the lock has been given up.
PostIfReady(t) ==
    /\ At(t, "postIfReady")
    /\ IF ready[Mon(t)] # 0 THEN Post(Mon(t), 1) ELSE UNCHANGED tokens
    /\ Released(t)
    /\ UNCHANGED <<monitor, owner, locks, ready, aborted, lists, pool>>

Deflate(t) ==
    /\ At(t, "deflate")
    /\ monitor' = [monitor EXCEPT ![Obj(t)] = None]
    /\ Goto(t, "flush")
    /\ UNCHANGED <<owner, locks, tokens, ready, aborted, lists, pool>>

\* Kick the threads off the monitor that joined it after the count was read.
Flush(t) ==
    /\ At(t, "flush")
    /\ ready[Mon(t)] # 0
    /\ Post(Mon(t), ready[Mon(t)])
    /\ UNCHANGED <<monitor, owner, locks, ready, aborted, lists, pool, thread>>

ReturnMonitor(t) ==
    /\ At(t, "flush")
    /\ ready[Mon(t)] = 0
    /\ Recycle(Mon(t))
    /\ Released(t)
    /\ UNCHANGED <<monitor, locks, tokens, ready, aborted, lists>>

\* A thread whose Enter was aborted calls Exit: threadAborted lets it pass.
LetPass(t) ==
    /\ At(t, "aborted")
    /\ monitor[Obj(t)] # None
    /\ owner[monitor[Obj(t)]] # t /\ monitor[Obj(t)] \in aborted

\* It undoes one of the owner's recursive locks; read and written in one step.
ExitInnerAfterAbort(t) ==
    /\ LetPass(t)
    /\ locks[monitor[Obj(t)]] > 1
    /\ locks' = [locks EXCEPT ![monitor[Obj(t)]] = @ - 1]
    /\ Become(t, [Idle EXCEPT !.pc = "dead", !.kind = thread[t].kind])
    /\ UNCHANGED <<monitor, owner, tokens, ready, aborted, lists, pool>>

\* Or it gives up the lock the owner has.
ExitAfterAbort(t) ==
    /\ LetPass(t)
    /\ locks[monitor[Obj(t)]] = 1
    /\ LET m == monitor[Obj(t)] IN
       Become(t, [thread[t] EXCEPT !.pc = ExitWay(m), !.mon = m])
    /\ UNCHANGED <<heap, lists, pool>>

-----------------------------------------------------------------------------
(* Monitor::TryWait and Monitor::Pulse                                     *)

\* Up to the call of Exit; the node is pushed by the holder of the lock.
Wait(t) ==
    /\ At(t, "held")
    /\ \E k \in program.waits :
          /\ Become(t, [thread[t] EXCEPT !.pc = "exit", !.kind = "infinite",
                            !.wait = [depth |-> locks[Mon(t)], kind |-> k, pulsed |-> FALSE]])
          /\ pulseList' = IF k = "zero" THEN pulseList
                          ELSE [pulseList EXCEPT ![Mon(t)] = <<t>> \o @]
    /\ locks' = [locks EXCEPT ![Mon(t)] = 1]
    /\ UNCHANGED <<monitor, owner, tokens, ready, aborted, signalled, pool>>

Pulsed(t) ==
    /\ At(t, "pulse")
    /\ t \in signalled
    /\ signalled' = signalled \ {t}
    /\ Become(t, [thread[t] EXCEPT !.pc = "read", !.wait.pulsed = TRUE])
    /\ UNCHANGED <<heap, pulseList, pool>>

\* A timeout or an interrupt: either way the lock is taken again first.
WaitGivesUp(t) ==
    /\ At(t, "pulse")
    /\ thread[t].wait.kind = "timed" \/ "wait" \in program.interrupts
    /\ Goto(t, "read")
    /\ UNCHANGED <<heap, lists, pool>>

\* RemoveFromPulseWaitingList, which finds nothing when the node was pulsed.
Unlink(list, t) ==
    IF \E i \in DOMAIN list : list[i] = t
    THEN RemoveAt(list, CHOOSE i \in DOMAIN list : list[i] = t)
    ELSE list

\* mutant: the recursion count is not restored
Restore_Once(t) ==
    /\ At(t, "restore")
    /\ pulseList' = [pulseList EXCEPT ![Mon(t)] = Unlink(@, t)]
    /\ signalled' = signalled \ {t}
    /\ Become(t, [thread[t] EXCEPT !.pc = "held", !.kind = "none", !.wait = NoWait])
    /\ UNCHANGED <<heap, pool>>

\* The recursion count is restored, the node removed and given back.
Restore(t) ==
    /\ At(t, "restore")
    /\ locks' = [locks EXCEPT ![Mon(t)] = thread[t].wait.depth]
    /\ pulseList' = [pulseList EXCEPT ![Mon(t)] = Unlink(@, t)]
    /\ signalled' = signalled \ {t}
    /\ Become(t, [thread[t] EXCEPT !.pc = "held", !.kind = "none", !.wait = NoWait])
    /\ UNCHANGED <<monitor, owner, tokens, ready, aborted, pool>>

\* PulseMonitor: the first n nodes, one for Pulse and all of them for PulseAll.
PulseFirst(t, n) ==
    LET list == pulseList[Mon(t)] IN
    /\ pulseList' = [pulseList EXCEPT ![Mon(t)] = SubSeq(list, n + 1, Len(list))]
    /\ signalled' = signalled \cup Range(SubSeq(list, 1, n))

Pulse(t) ==
    /\ At(t, "held")
    /\ pulseList[Mon(t)] # <<>>
    /\ \/ PulseFirst(t, 1)
       \/ PulseFirst(t, Len(pulseList[Mon(t)]))
    /\ UNCHANGED <<heap, pool, thread>>

-----------------------------------------------------------------------------
\* The steps a thread takes by itself once it is inside the monitor's code.
Run(t) ==
    \/ ReadMonitor(t) \/ Allocate(t) \/ Install(t) \/ Try(t) \/ Verify(t) \/ Join(t)
    \/ Loop(t) \/ Grab(t) \/ Wake(t) \/ LastRead(t) \/ LastGrab(t)
    \/ Unacquire(t) \/ PostOne(t) \/ PostIfReady(t) \/ Deflate(t) \/ Flush(t)
    \/ ReturnMonitor(t) \/ Pulsed(t) \/ Restore(t)

\* The program's calls of Exit.
Leaves(t) == ExitInner(t) \/ ExitOuter(t)

Program(t) == Enter(t) \/ Reenter(t) \/ Wait(t) \/ Pulse(t) \/ Leaves(t)

\* Timeouts, interrupts and aborts.
Disturbance(t) ==
    \/ EnterTimesOut(t) \/ WaitGivesUp(t) \/ EnterIsInterrupted(t) \/ EnterIsAborted(t)
    \/ ExitInnerAfterAbort(t) \/ ExitAfterAbort(t)

Next ==
    /\ \E t \in Thread : Program(t) \/ Run(t) \/ Disturbance(t)
    /\ UNCHANGED program

Spec == Init /\ [][Next]_vars

-----------------------------------------------------------------------------
Holding == {"held", "exit", "hand", "park", "deflate"}
Holds(t) == thread[t].pc \in Holding
OneObject == \A o, p \in program.objects : o = p

\* LastGrab takes the monitor it waited for without looking whether it is still
\* the object's: harmless while it cannot be another object's.
MonitorsKeepTheirObject == OneObject \/ "timed" \notin program.enters

\* The variables hold values of their types.
TypeOK ==
    /\ monitor \in [Object -> Monitor \cup {None}]
    /\ owner \in [Monitor -> Thread \cup {Free, Listed}]
    /\ locks \in [Monitor -> 1 .. program.depth]
    /\ tokens \in [Monitor -> 0 .. MaxTokens]
    /\ ready \in [Monitor -> 0 .. Cardinality(Thread)]
    /\ pulseList \in [Monitor -> Seq(Thread)]
    /\ aborted \subseteq Monitor /\ fresh \subseteq Monitor /\ signalled \subseteq Thread
    /\ freeList \in Seq(Monitor)
    /\ \A t \in Thread : Obj(t) \in Object \cup {None} /\ Mon(t) \in Monitor \cup {None}

\* A thread that was told it has the lock owns the monitor that is installed on
\* the object, whatever became of the monitors it read on the way; so no two
\* threads hold one object.  Not so when monitors are recycled between objects
\* while Enter times out (LastGrab does not look again), nor when an aborted
\* thread calls Exit.
HoldersOwn ==
    MonitorsKeepTheirObject /\ program.aborts = 0 =>
        \A t \in Thread :
            Holds(t) => monitor[Obj(t)] = Mon(t) /\ owner[Mon(t)] = t

\* A monitor that Allocate can hand out is on the list once and as a new one:
\* installed nowhere, owned by nobody, locked once and with no node on its list.
\* Stale threads may have left tokens or still count themselves.
FreeMonitorsAreClean ==
    /\ IsInjective(freeList) /\ Range(freeList) \cap fresh = {}
    /\ \A m \in Range(freeList) \cup fresh :
          /\ \A o \in Object : monitor[o] # m
          /\ owner[m] = Listed /\ locks[m] = 1 /\ pulseList[m] = <<>>

\* A thread has one node on a monitor's list, while it waits or after it was
\* interrupted, and the list is the one of the object it waits for.
NodesAreWaiting ==
    \A m \in Monitor :
        /\ IsInjective(pulseList[m])
        /\ \A t \in Range(pulseList[m]) :
              At(t, "thrown") \/ (Waits(t) /\ monitor[Obj(t)] = m)

\* A thread that will post the semaphore of a sleeping thread or take its lock.
Helps(u, t) ==
    /\ Mon(u) = Mon(t)
    /\ \/ thread[u].pc \in {"post", "postIfReady"}
       \/ Obj(u) = Obj(t) /\ thread[u].pc \in {"try", "join", "loop", "grab", "lastRead", "lastGrab"}

\* While monitors are not recycled between objects and no thread is aborted,
\* nobody sleeps on a free lock: when a thread is asleep on the semaphore of its
\* object's monitor and nobody owns the monitor, there is a token or another
\* thread on its way to post one or to take the lock.
NoSleepOnFreeLock ==
    OneObject /\ program.aborts = 0 => \A t \in Thread :
        At(t, "sleep") /\ monitor[Obj(t)] = Mon(t) /\ owner[Mon(t)] = Free =>
            tokens[Mon(t)] > 0 \/ \E u \in Thread : Helps(u, t)

\* An object nobody uses is deflated: an installed monitor without an owner has
\* waiting nodes or a thread that still comes for the lock; if no thread gives up
\* or is aborted and monitors are not recycled between objects.
IdleObjectsAreDeflated ==
    OneObject /\ program.enters = {"infinite"} /\ program.interrupts = {}
              /\ program.aborts = 0 => \A o \in Object :
        monitor[o] # None /\ owner[monitor[o]] = Free =>
            \/ pulseList[monitor[o]] # <<>>
            \/ \E t \in Thread : Obj(t) = o

\* Monitors come and go in order: the state is well-typed, free monitors are
\* clean, nodes belong to waiting threads, and installed monitors are in use.
MonitorsAreAccountedFor ==
    /\ TypeOK
    /\ MonitorsKeepTheirObject => FreeMonitorsAreClean
    /\ MonitorsKeepTheirObject /\ program.aborts = 0 => NodesAreWaiting
    /\ IdleObjectsAreDeflated

\* The lock a C# program knows, by the threads' own belief: who holds an object,
\* how often, and what each waiting thread has to get back.
Has(t, o) == Holds(t) /\ Obj(t) = o
DepthOf(t) == IF Waits(t) THEN thread[t].wait.depth ELSE locks[Mon(t)]

LockHolder ==
    [o \in Object |->
        IF \E t \in Thread : Has(t, o) THEN CHOOSE t \in Thread : Has(t, o) ELSE None]
LockDepth ==
    [o \in Object |->
        IF \E t \in Thread : Has(t, o) THEN DepthOf(CHOOSE t \in Thread : Has(t, o)) ELSE 0]
LockWaiting ==
    [t \in Thread |->
        IF Waits(t) /\ ~ Holds(t)
        THEN [obj |-> Obj(t), depth |-> thread[t].wait.depth,
              pulsed |-> thread[t].wait.pulsed \/ t \in signalled]
        ELSE [obj |-> None, depth |-> 0, pulsed |-> FALSE]]

Lock == INSTANCE ObjectLock WITH
    holder <- LockHolder, depth <- LockDepth, waiting <- LockWaiting,
    mayGiveUp <- program.waits # {"infinite"} \/ "wait" \in program.interrupts,
    mayAbort <- program.aborts > 0

\* Every step of the monitor is a step of that lock, or invisible to it.
ImplementsLock == Lock!Spec
=============================================================================
