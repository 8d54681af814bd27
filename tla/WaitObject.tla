----------------------------- MODULE WaitObject -----------------------------
(***************************************************************************)
(* The waitable objects of libil2cpp's POSIX layer: mutexes, events and    *)
(* semaphores are a count under a lock, and a condition variable made of a *)
(* list of waiting threads with one binary semaphore per thread.  Any      *)
(* thread can queue an asynchronous procedure call (APC) on another, which *)
(* interrupts an interruptible wait; the call may throw.                   *)
(*                                                                         *)
(* Code that runs under an object's lock is one step up to the next access *)
(* of a word that is read without it: a thread's semaphore, its queue of   *)
(* APCs and its m_CurrentWaitObject.                                       *)
(***************************************************************************)
EXTENDS Naturals, Sequences, FiniteSets, SequencesExt

CONSTANTS
    Thread,
    Mutex,          \* the objects of type kMutex
    Semaphore,      \* ... kSemaphore
    AutoEvent,      \* ... kAutoResetEvent
    ManualEvent,    \* ... kManualResetEvent
    None,           \* no thread, no object
    MaxCount,       \* bound: the maximum of a semaphore
    MaxDepth,       \* bound: recursive locks
    Programs        \* what runs, a set of records:
                    \*   threads   those that run
                    \*   objects   those they use
                    \*   timeouts  of their waits: "infinite", "timed", "zero"
                    \*   interruptible  whether their waits are, a set of Booleans
                    \*   apcs      bound: calls queued on one thread, ever

Object == Mutex \cup Semaphore \cup AutoEvent \cup ManualEvent

ASSUME ProgramAssumption ==
    \A p \in Programs :
        /\ p.threads \subseteq Thread /\ p.objects \subseteq Object /\ p.apcs \in Nat
        /\ p.timeouts \subseteq {"infinite", "timed", "zero"}
        /\ p.interruptible \subseteq BOOLEAN
\* An object has one type.
ASSUME KindAssumption ==
    /\ Mutex \cap (Semaphore \cup AutoEvent \cup ManualEvent) = {}
    /\ Semaphore \cap (AutoEvent \cup ManualEvent) = {} /\ AutoEvent \cap ManualEvent = {}
ASSUME BoundAssumption == MaxCount \in Nat \ {0} /\ MaxDepth \in Nat \ {0}
ASSUME NoneAssumption == None \notin Thread \cup Object

VARIABLES
    program,        \* the program that runs, one of Programs
    lock,           \* m_Mutex of each object
    count,          \* m_Count
    waiters,        \* m_WaitingThreads, which m_WaitingThreadCount counts
    owner,          \* m_OwningThread of a mutex
    depth,          \* m_RecursionCount of a mutex
    token,          \* m_ConditionSemaphore of each thread, capped at one
    apcs,           \* the length of m_PendingAPCs
    queued,         \* how many calls were ever queued
    queuers,        \* calls of QueueUserAPC between the queue and the signal
    waitsOn,        \* whether m_CurrentWaitObject is set
    thread          \* the local state of each thread

object == <<lock, count, waiters, owner, depth>>
signals == <<token, apcs, queued, queuers, waitsOn>>
state == <<object, signals, thread>>
vars == <<program, state>>

Idle == [pc |-> "idle", obj |-> None, timeout |-> "none", interruptible |-> FALSE, timedOut |-> FALSE]

At(t, pc) == thread[t].pc = pc
Obj(t) == thread[t].obj
Interruptible(t) == thread[t].interruptible
Goto(t, pc) == thread' = [thread EXCEPT ![t].pc = pc]
Return(t) == thread' = [thread EXCEPT ![t] = Idle]

Init ==
    /\ program \in Programs
    /\ lock = [o \in Object |-> None]
    /\ count = [o \in Object |-> IF o \in Mutex THEN 1 ELSE 0]
    /\ waiters = [o \in Object |-> <<>>]
    /\ owner = [o \in Mutex |-> None]
    /\ depth = [o \in Mutex |-> 0]
    /\ token = [t \in Thread |-> 0]
    /\ apcs = [t \in Thread |-> 0]
    /\ queued = [t \in Thread |-> 0]
    /\ queuers = [t \in Thread |-> 0]
    /\ waitsOn = [t \in Thread |-> FALSE]
    /\ thread = [t \in Thread |-> Idle]

\* erase_swap_back
RemoveWaiter(list, t) ==
    LET i == CHOOSE i \in 1 .. Len(list) : list[i] = t
    IN  Front([list EXCEPT ![i] = Last(list)])

Signal(woken) == token' = [t \in Thread |-> IF t \in woken THEN 1 ELSE token[t]]

\* WakeupOneThread: the head of the list, whatever that thread is doing.
First(list) == IF list = <<>> THEN {} ELSE {list[1]}

-----------------------------------------------------------------------------
(* WaitObject::Wait                                                        *)

Call(t) ==
    /\ At(t, "idle")
    /\ \E o \in program.objects, k \in program.timeouts, i \in program.interruptible :
          /\ o \in Mutex => owner[o] # t
          /\ thread' = [thread EXCEPT ![t] =
                [Idle EXCEPT !.pc = IF i /\ k # "zero" THEN "check" ELSE "lock",
                             !.obj = o, !.timeout = k, !.interruptible = i]]
    /\ UNCHANGED <<object, signals>>

\* TryLock by the owner.
LockAgain(t) ==
    /\ At(t, "idle")
    /\ \E o \in Mutex :
          /\ owner[o] = t /\ depth[o] < MaxDepth
          /\ depth' = [depth EXCEPT ![o] = @ + 1]
    /\ UNCHANGED <<lock, count, waiters, owner, signals, thread>>

\* The places where CheckForUserAPCAndHandle is called, the first without the lock.
CheckPoints == {"check", "checkRegistered", "checkWoken", "checkDone"}

\* A pending call is run; if it throws, the wait ends.
HandleAPC(t) ==
    /\ thread[t].pc \in CheckPoints
    /\ apcs[t] > 0
    /\ apcs' = [apcs EXCEPT ![t] = @ - 1]
    /\ \/ UNCHANGED <<lock, waitsOn, thread>>
       \/ /\ waitsOn' = [waitsOn EXCEPT ![t] = FALSE]
          /\ lock' = IF At(t, "check") THEN lock ELSE [lock EXCEPT ![Obj(t)] = None]
          /\ Return(t)
    /\ UNCHANGED <<count, waiters, owner, depth, token, queued, queuers>>

BeginWait(t) ==
    /\ At(t, "check")
    /\ apcs[t] = 0
    /\ Goto(t, "lock")
    /\ UNCHANGED <<object, signals>>

\* mutant: a mutex is taken and stays up for grabs
Taken_Mutex(o) ==
    IF o \in ManualEvent \cup Mutex THEN count[o] ELSE IF o \in Semaphore THEN count[o] - 1 ELSE 0

\* The count after a successful wait.
Taken(o) ==
    IF o \in ManualEvent THEN count[o] ELSE IF o \in Semaphore THEN count[o] - 1 ELSE 0

\* mutant: releases that are left wake nobody
Succeed_NoChain(t, o) ==
    /\ count' = [count EXCEPT ![o] = Taken(o)]
    /\ lock' = [lock EXCEPT ![o] = None]
    /\ owner' = IF o \in Mutex THEN [owner EXCEPT ![o] = t] ELSE owner
    /\ depth' = IF o \in Mutex THEN [depth EXCEPT ![o] = 1] ELSE depth
    /\ Return(t)
    /\ UNCHANGED <<waiters, token>>

\* The object is acquired and the lock released; a semaphore with releases left
\* signals the next thread in line.
Succeed(t, o) ==
    /\ count' = [count EXCEPT ![o] = Taken(o)]
    /\ lock' = [lock EXCEPT ![o] = None]
    /\ owner' = IF o \in Mutex THEN [owner EXCEPT ![o] = t] ELSE owner
    /\ depth' = IF o \in Mutex THEN [depth EXCEPT ![o] = 1] ELSE depth
    /\ Signal(IF o \in Semaphore /\ count[o] > 1 THEN First(waiters[o]) ELSE {})
    /\ Return(t)
    /\ UNCHANGED waiters

\* The thread puts itself on the list and releases the lock to block.
Block(t, o) ==
    /\ waiters' = [waiters EXCEPT ![o] = Append(@, t)]
    /\ lock' = [lock EXCEPT ![o] = None]
    /\ Goto(t, "blocked")
    /\ UNCHANGED <<count, owner, depth>>

Lock(t) ==
    LET o == Obj(t) IN
    /\ At(t, "lock")
    /\ lock[o] = None
    /\ \/ /\ count[o] > 0
          /\ Succeed(t, o)
          /\ UNCHANGED waitsOn
       \/ /\ count[o] = 0 /\ thread[t].timeout = "zero"
          /\ Return(t)
          /\ UNCHANGED <<object, token, waitsOn>>
       \/ /\ count[o] = 0 /\ thread[t].timeout # "zero" /\ Interruptible(t)
          /\ lock' = [lock EXCEPT ![o] = t]
          /\ waitsOn' = [waitsOn EXCEPT ![t] = TRUE]
          /\ Goto(t, "checkRegistered")
          /\ UNCHANGED <<count, waiters, owner, depth, token>>
       \/ /\ count[o] = 0 /\ thread[t].timeout # "zero" /\ ~ Interruptible(t)
          /\ Block(t, o)
          /\ UNCHANGED <<token, waitsOn>>
    /\ UNCHANGED <<apcs, queued, queuers>>

\* mutant: the queue is not checked again once the wait object is set
Registered_Unchecked(t) ==
    /\ At(t, "checkRegistered")
    /\ Block(t, Obj(t))
    /\ UNCHANGED signals

Registered(t) ==
    /\ At(t, "checkRegistered")
    /\ apcs[t] = 0
    /\ Block(t, Obj(t))
    /\ UNCHANGED signals

\* The thread's semaphore lets it through, or its time is over.
Unblock(t) ==
    /\ At(t, "blocked")
    /\ \/ /\ token[t] = 1
          /\ token' = [token EXCEPT ![t] = 0]
          /\ Goto(t, "relock")
       \/ /\ token[t] = 0 /\ thread[t].timeout = "timed"
          /\ thread' = [thread EXCEPT ![t].pc = "relock", ![t].timedOut = TRUE]
          /\ UNCHANGED token
    /\ UNCHANGED <<object, apcs, queued, queuers, waitsOn>>

\* Back under the lock; a wait that timed out does not look at the count again.
Relock(t) ==
    /\ At(t, "relock")
    /\ lock[Obj(t)] = None
    /\ waiters' = [waiters EXCEPT ![Obj(t)] = RemoveWaiter(@, t)]
    /\ lock' = [lock EXCEPT ![Obj(t)] = t]
    /\ Goto(t, IF thread[t].timedOut THEN "leave"
               ELSE IF Interruptible(t) THEN "checkWoken" ELSE "test")
    /\ UNCHANGED <<count, owner, depth, signals>>

Test(t) ==
    /\ At(t, "test") \/ (At(t, "checkWoken") /\ apcs[t] = 0)
    /\ \/ count[Obj(t)] = 0 /\ Block(t, Obj(t))
       \/ count[Obj(t)] > 0 /\ Goto(t, "leave") /\ UNCHANGED object
    /\ UNCHANGED signals

Leave(t) ==
    /\ At(t, "leave")
    /\ waitsOn' = [waitsOn EXCEPT ![t] = FALSE]
    /\ Goto(t, IF Interruptible(t) THEN "checkDone" ELSE "done")
    /\ UNCHANGED <<object, token, apcs, queued, queuers>>

EndWait(t) ==
    /\ At(t, "done") \/ (At(t, "checkDone") /\ apcs[t] = 0)
    /\ IF thread[t].timedOut
       THEN /\ lock' = [lock EXCEPT ![Obj(t)] = None]
            /\ Return(t)
            /\ UNCHANGED <<count, waiters, owner, depth, token>>
       ELSE Succeed(t, Obj(t))
    /\ UNCHANGED <<apcs, queued, queuers, waitsOn>>

-----------------------------------------------------------------------------
(* MutexImpl::Unlock, SemaphoreImpl::Post, EventImpl::Set and Reset        *)

UnlockInner(t) ==
    /\ At(t, "idle")
    /\ \E o \in Mutex : owner[o] = t /\ depth[o] > 1 /\ depth' = [depth EXCEPT ![o] = @ - 1]
    /\ UNCHANGED <<lock, count, waiters, owner, signals, thread>>

UnlockOuter(t) ==
    /\ At(t, "idle")
    /\ \E o \in Mutex :
          /\ owner[o] = t /\ depth[o] = 1 /\ lock[o] = None
          /\ depth' = [depth EXCEPT ![o] = 0]
          /\ count' = [count EXCEPT ![o] = 1]
          /\ owner' = [owner EXCEPT ![o] = None]
          /\ Signal(First(waiters[o]))
    /\ UNCHANGED <<lock, waiters, apcs, queued, queuers, waitsOn, thread>>

Post(t) ==
    /\ At(t, "idle")
    /\ \E o \in Semaphore \cap program.objects, n \in 1 .. MaxCount :
          /\ lock[o] = None /\ count[o] + n <= MaxCount
          /\ count' = [count EXCEPT ![o] = @ + n]
          /\ Signal(First(waiters[o]))
    /\ UNCHANGED <<lock, waiters, owner, depth, apcs, queued, queuers, waitsOn, thread>>

\* mutant: Set wakes one thread
SetEvent_One(t) ==
    /\ At(t, "idle")
    /\ \E o \in (AutoEvent \cup ManualEvent) \cap program.objects :
          /\ lock[o] = None
          /\ count' = [count EXCEPT ![o] = 1]
          /\ Signal(First(waiters[o]))
    /\ UNCHANGED <<lock, waiters, owner, depth, apcs, queued, queuers, waitsOn, thread>>

SetEvent(t) ==
    /\ At(t, "idle")
    /\ \E o \in (AutoEvent \cup ManualEvent) \cap program.objects :
          /\ lock[o] = None
          /\ count' = [count EXCEPT ![o] = 1]
          /\ Signal(Range(waiters[o]))
    /\ UNCHANGED <<lock, waiters, owner, depth, apcs, queued, queuers, waitsOn, thread>>

ResetEvent(t) ==
    /\ At(t, "idle")
    /\ \E o \in (AutoEvent \cup ManualEvent) \cap program.objects :
          /\ lock[o] = None
          /\ count' = [count EXCEPT ![o] = 0]
    /\ UNCHANGED <<lock, waiters, owner, depth, signals, thread>>

-----------------------------------------------------------------------------
(* ThreadImpl::QueueUserAPC, by anyone                                     *)

QueueAPC(t) ==
    /\ queued[t] < program.apcs
    /\ queued' = [queued EXCEPT ![t] = @ + 1]
    /\ apcs' = [apcs EXCEPT ![t] = @ + 1]
    /\ queuers' = [queuers EXCEPT ![t] = @ + 1]
    /\ UNCHANGED <<object, token, waitsOn, thread>>

SignalAPC(t) ==
    /\ queuers[t] > 0
    /\ queuers' = [queuers EXCEPT ![t] = @ - 1]
    /\ Signal(IF waitsOn[t] THEN {t} ELSE {})
    /\ UNCHANGED <<object, apcs, queued, waitsOn, thread>>

-----------------------------------------------------------------------------
\* What a thread does by itself once it waits.
Run(t) ==
    \/ HandleAPC(t) \/ BeginWait(t) \/ Lock(t) \/ Registered(t) \/ Unblock(t)
    \/ Relock(t) \/ Test(t) \/ Leave(t) \/ EndWait(t) \/ SignalAPC(t)

Unlock(t) == UnlockInner(t) \/ UnlockOuter(t)

Program(t) ==
    \/ Call(t) \/ LockAgain(t) \/ Unlock(t) \/ Post(t) \/ SetEvent(t) \/ ResetEvent(t)
    \/ QueueAPC(t)

Next ==
    /\ \E t \in program.threads : Program(t) \/ Run(t)
    /\ UNCHANGED program

\* Threads are scheduled, also when other threads take an object's lock over
\* and over, and owners unlock.
Fairness ==
    \A t \in Thread : WF_state(Run(t)) /\ SF_state(Lock(t)) /\ SF_state(Relock(t)) /\ WF_state(Unlock(t))

Spec == Init /\ [][Next]_vars
FairSpec == Spec /\ Fairness

-----------------------------------------------------------------------------
Step == {"idle", "check", "lock", "checkRegistered", "blocked", "relock", "checkWoken",
         "test", "leave", "checkDone", "done"}
ThreadState ==
    [pc : Step, obj : Object \cup {None}, timeout : {"none", "infinite", "timed", "zero"},
     interruptible : BOOLEAN, timedOut : BOOLEAN]

\* The variables hold values of their types.
TypeOK ==
    /\ program \in Programs
    /\ lock \in [Object -> Thread \cup {None}]
    /\ count \in [Object -> Nat]
    /\ \A o \in Object : count[o] <= IF o \in Semaphore THEN MaxCount ELSE 1
    /\ waiters \in [Object -> Seq(Thread)] /\ \A o \in Object : IsInjective(waiters[o])
    /\ owner \in [Mutex -> Thread \cup {None}]
    /\ depth \in [Mutex -> 0 .. MaxDepth]
    /\ token \in [Thread -> 0 .. 1]
    /\ queued \in [Thread -> 0 .. program.apcs] /\ apcs \in [Thread -> 0 .. program.apcs] /\ queuers \in [Thread -> 0 .. program.apcs]
    /\ waitsOn \in [Thread -> BOOLEAN]
    /\ thread \in [Thread -> ThreadState]

\* A mutex is free exactly when it has no owner: nobody can take an owned mutex,
\* and a wait that times out or throws does not take it away either.
\* The state stays well-typed.
FreeMeansNoOwner ==
    /\ TypeOK
    /\ \A o \in Mutex : (count[o] = 1 <=> owner[o] = None) /\ (depth[o] = 0 <=> owner[o] = None)

Asleep(t) == At(t, "blocked") /\ token[t] = 0

\* A thread that will look at o's count, or give it to a thread that does.
LooksAt(t, o) ==
    /\ Obj(t) = o /\ ~ thread[t].timedOut
    /\ At(t, "blocked") => token[t] = 1
    /\ thread[t].pc \notin {"check", "lock"}

\* No wake-up is lost: while threads sleep on an object that could be acquired,
\* one of its waiters is awake and will look at the count.
NoLostWakeup ==
    \A o \in Object, t \in Thread :
        Asleep(t) /\ Obj(t) = o /\ count[o] > 0 => \E u \in Thread : LooksAt(u, o)

\* Post wakes one thread whatever it releases, and each thread the next: releases
\* do not stay while threads sleep for them.
AvailableIsTaken ==
    \A o \in Semaphore :
        (count[o] > 0 /\ \E t \in Thread : Asleep(t) /\ Obj(t) = o)
            ~> (count[o] = 0 \/ \A t \in Thread : Asleep(t) => Obj(t) # o)

\* A call queued on a thread that waits interruptibly is handled.
CallsAreHandled ==
    \A t \in Thread : apcs[t] > 0 /\ At(t, "blocked") /\ Interruptible(t) ~> apcs[t] = 0
=============================================================================
