------------------------- MODULE WaitObject_proofs -------------------------
(***************************************************************************)
(* Theorems of WaitObject for any number of threads and objects, and any   *)
(* programs.                                                               *)
(***************************************************************************)
EXTENDS WaitObject, SequenceTheorems, TLAPS

Event == AutoEvent \cup ManualEvent

\* where a thread is on its object's list, and where it holds the object's lock
OnList(t, o) == Obj(t) = o /\ thread[t].pc \in {"blocked", "relock"}
Holding == {"checkRegistered", "checkWoken", "test", "leave", "checkDone", "done"}

\* What a thread's local state says of the object it waits for.
Place(t) ==
  /\ Obj(t) = None <=> At(t, "idle")
  /\ ~ At(t, "idle") => /\ Obj(t) \in program.objects
                        /\ thread[t].timeout \in program.timeouts
                        /\ Interruptible(t) \in program.interruptible
  /\ thread[t].pc \in CheckPoints => Interruptible(t)
  /\ thread[t].timedOut => /\ thread[t].timeout = "timed"
                           /\ thread[t].pc \in {"relock", "leave", "checkDone", "done"}
  /\ thread[t].pc \in Holding => lock[Obj(t)] = t
  /\ At(t, "checkRegistered") => count[Obj(t)] = 0
  /\ thread[t].pc \in {"leave", "checkDone", "done"} /\ ~ thread[t].timedOut => count[Obj(t)] > 0

Places == \A t \in Thread : Place(t)
Lists == \A o \in Object, t \in Thread : t \in Range(waiters[o]) <=> OnList(t, o)
Calls == \A t \in Thread : apcs[t] <= queued[t] /\ queuers[t] <= queued[t]
Owners ==
  \A o \in Mutex : (count[o] = 1 <=> owner[o] = None) /\ (depth[o] = 0 <=> owner[o] = None)

Sleeps(o) == \E t \in Thread : Asleep(t) /\ Obj(t) = o
Looked(o) == \E t \in Thread : LooksAt(t, o)
IsServed(o) == count[o] > 0 /\ Sleeps(o) => Looked(o)
IsQuiet(o) == count[o] > 0 => ~ Sleeps(o)

\* Nobody sleeps on an event that is set.
EventsWakeAll == \A o \in Event : IsQuiet(o)

\* The programs that wait for mutexes and semaphores without a timeout, and without
\* being interrupted: elsewhere a wake-up can be spent on a thread that has given up.
Patient ==
  program.objects \subseteq Event
    \/ ("timed" \notin program.timeouts /\ (TRUE \notin program.interruptible \/ program.apcs = 0))

Served == Patient => \A o \in Mutex \cup Semaphore : IsServed(o)

IInv == TypeOK /\ Places /\ Lists /\ Calls /\ Owners /\ EventsWakeAll /\ Served

-----------------------------------------------------------------------------
(* The lists of waiting threads                                            *)

\* A thread joins a list at its end.
LEMMA Joined ==
  ASSUME NEW s \in Seq(Thread), IsInjective(s), NEW t \in Thread, t \notin Range(s)
  PROVE  /\ Append(s, t) \in Seq(Thread) /\ IsInjective(Append(s, t))
         /\ Range(Append(s, t)) = Range(s) \cup {t}
<1>1. /\ Append(s, t) \in Seq(Thread) /\ Len(s) \in Nat /\ DOMAIN s = 1 .. Len(s)
      /\ DOMAIN Append(s, t) = 1 .. Len(s) + 1 /\ Append(s, t)[Len(s) + 1] = t
      /\ \A i \in 1 .. Len(s) : Append(s, t)[i] = s[i] /\ s[i] # t
  BY DEF Range
<1> QED  BY <1>1 DEF Range, IsInjective

\* erase_swap_back takes one thread off the list and keeps the others on it.
LEMMA Removed ==
  ASSUME NEW s \in Seq(Thread), IsInjective(s), NEW t \in Range(s)
  PROVE  /\ RemoveWaiter(s, t) \in Seq(Thread) /\ IsInjective(RemoveWaiter(s, t))
         /\ Range(RemoveWaiter(s, t)) = Range(s) \ {t}
<1>1. PICK n \in Nat \ {0} : n = Len(s) /\ DOMAIN s = 1 .. n
  BY DEF Range
<1>2. PICK i \in 1 .. n : i = (CHOOSE j \in 1 .. n : s[j] = t) /\ s[i] = t
  BY <1>1 DEF Range
<1>3. /\ s[n] \in Thread
      /\ \A j, k \in 1 .. n : s[j] = s[k] => j = k
  BY <1>1 DEF IsInjective
<1>4. PICK z : z = [s EXCEPT ![i] = s[n]]
  OBVIOUS
<1>5. /\ z \in Seq(Thread) /\ Len(z) = n
      /\ \A j \in 1 .. n : z[j] = IF j = i THEN s[n] ELSE s[j]
  BY <1>1, <1>3, <1>4, ExceptSeq
<1>6. PICK r : r = SubSeq(z, 1, n - 1)
  OBVIOUS
<1>7. /\ r \in Seq(Thread) /\ DOMAIN r = 1 .. n - 1
      /\ \A j \in 1 .. n - 1 : r[j] = IF j = i THEN s[n] ELSE s[j]
  BY <1>5, <1>6
<1>8. r = RemoveWaiter(s, t)
  BY <1>1, <1>2, <1>4, <1>5, <1>6 DEF RemoveWaiter, Front, Last
<1>9. ASSUME NEW j \in 1 .. n - 1, NEW k \in 1 .. n - 1, r[j] = r[k] PROVE j = k
  BY <1>3, <1>7, <1>9
<1>10. ASSUME NEW j \in 1 .. n - 1 PROVE r[j] # t /\ r[j] \in Range(s)
  <2>1. PICK k \in 1 .. n : r[j] = s[k] /\ k # i
    <3>1. CASE j = i
      BY <3>1, <1>7
    <3>2. CASE j # i
      BY <3>2, <1>7
    <3> QED  BY <3>1, <3>2
  <2> QED  BY <2>1, <1>1, <1>2, <1>3 DEF Range
<1>11. ASSUME NEW u \in Range(s), u # t PROVE \E j \in 1 .. n - 1 : r[j] = u
  <2>1. PICK j \in 1 .. n : s[j] = u /\ j # i
    BY <1>1, <1>2, <1>11 DEF Range
  <2>2. CASE j = n
    BY <2>1, <2>2, <1>7
  <2>3. CASE j # n
    BY <2>1, <2>3, <1>7
  <2> QED  BY <2>2, <2>3
<1>12. IsInjective(r)
  BY <1>7, <1>9 DEF IsInjective
<1>13. Range(r) \subseteq Range(s) \ {t}
  BY <1>7, <1>10 DEF Range
<1>14. Range(s) \ {t} \subseteq Range(r)
  BY <1>7, <1>11 DEF Range
<1> QED  BY <1>7, <1>8, <1>12, <1>13, <1>14

\* WakeupOneThread reaches a thread of the list, if there is one.
LEMMA HeadOnList ==
  ASSUME NEW s \in Seq(Thread)
  PROVE  /\ First(s) \subseteq Range(s)
         /\ Range(s) # {} => \E u \in Range(s) : First(s) = {u}
<1>1. CASE s = <<>>
  BY <1>1 DEF First, Range
<1>2. CASE s # <<>>
  <2>1. 1 \in DOMAIN s /\ s[1] \in Range(s)
    BY <1>2 DEF Range
  <2> QED  BY <2>1, <1>2 DEF First
<1> QED  BY <1>1, <1>2

-----------------------------------------------------------------------------
(* Steps of one thread                                                     *)

\* Nothing of the other threads' local state changes.
Alone(t) == thread' \in [Thread -> ThreadState] /\ \A u \in Thread \ {t} : thread'[u] = thread[u]

\* Thread t goes to pc and keeps the rest.
Moves(t, pc) ==
  /\ Alone(t)
  /\ thread'[t].pc = pc /\ thread'[t].obj = thread[t].obj /\ thread'[t].timeout = thread[t].timeout
  /\ thread'[t].interruptible = thread[t].interruptible /\ thread'[t].timedOut = thread[t].timedOut

Stops(t) == Alone(t) /\ thread'[t] = Idle

LEMMA Going ==
  ASSUME TypeOK, NEW t \in Thread, NEW pc \in Step, Goto(t, pc)
  PROVE  Moves(t, pc)
<1>1. /\ thread \in [Thread -> ThreadState] /\ thread[t] \in ThreadState
      /\ thread' = [thread EXCEPT ![t] = [thread[t] EXCEPT !.pc = pc]]
  BY DEF TypeOK, Goto
<1>2. PICK w : w = [thread[t] EXCEPT !.pc = pc]
  OBVIOUS
<1>3. w \in ThreadState
  BY <1>1, <1>2 DEF ThreadState
<1>4. /\ w.pc = pc /\ w.obj = thread[t].obj /\ w.timeout = thread[t].timeout
      /\ w.interruptible = thread[t].interruptible /\ w.timedOut = thread[t].timedOut
  BY <1>1, <1>2 DEF ThreadState
<1>5. thread' = [thread EXCEPT ![t] = w]
  BY <1>1, <1>2
<1>6. thread'[t] = w /\ Alone(t)
  BY <1>1, <1>3, <1>5 DEF Alone
<1> QED  BY <1>4, <1>6 DEF Moves

LEMMA IdleTyped == Idle \in ThreadState /\ Idle.pc = "idle" /\ Idle.obj = None /\ Idle.timedOut = FALSE
  BY DEF Idle, ThreadState, Step

LEMMA Returning ==
  ASSUME TypeOK, NEW t \in Thread, Return(t)
  PROVE  Stops(t)
  BY IdleTyped DEF TypeOK, Return, Stops, Alone

\* What holds of a waiting thread.
LEMMA Waiting ==
  ASSUME IInv, NEW t \in Thread, ~ At(t, "idle")
  PROVE  /\ thread[t] \in ThreadState /\ Obj(t) \in Object /\ Obj(t) \in program.objects /\ Place(t)
         /\ thread[t].timedOut \in BOOLEAN /\ thread[t].interruptible \in BOOLEAN
<1>1. thread[t] \in ThreadState /\ Place(t)
  BY DEF IInv, TypeOK, Places
<1>2. program \in Programs /\ program.objects \subseteq Object
  BY ProgramAssumption DEF IInv, TypeOK
<1> QED  BY <1>1, <1>2 DEF Place, ThreadState

\* A step of t says what t's place is: it disturbs no lock that another holds.
LEMMA OthersStay ==
  ASSUME IInv, NEW t \in Thread, Alone(t), program' = program,
         \A o \in Object : lock[o] \notin {None, t} => lock'[o] = lock[o] /\ count'[o] = count[o],
         Place(t)'
  PROVE  Places'
<1>1. ASSUME NEW u \in Thread \ {t} PROVE Place(u)'
  <2>1. thread'[u] = thread[u] /\ Place(u)
    BY DEF Alone, IInv, Places
  <2>2. CASE thread[u].pc \in Holding
    <3>1. Obj(u) \in Object /\ lock[Obj(u)] = u /\ u \notin {None, t}
      BY <2>2, <2>1, Waiting, NoneAssumption DEF Place, Holding, At
    <3>2. lock'[Obj(u)] = lock[Obj(u)] /\ count'[Obj(u)] = count[Obj(u)]
      BY <3>1
    <3> QED  BY <2>1, <3>2 DEF Place, At, Obj, Interruptible
  <2>3. CASE thread[u].pc \notin Holding
    BY <2>1, <2>3 DEF Place, Holding, At, Obj, Interruptible
  <2> QED  BY <2>2, <2>3
<1> QED  BY <1>1 DEF Places

\* Threads stay on their lists.
LEMMA ListsStay ==
  ASSUME IInv, NEW t \in Thread, Alone(t), waiters' = waiters,
         \/ thread[t].pc \notin {"blocked", "relock"} /\ thread'[t].pc \notin {"blocked", "relock"}
         \/ /\ thread[t].pc \in {"blocked", "relock"} /\ thread'[t].pc \in {"blocked", "relock"}
            /\ thread'[t].obj = thread[t].obj
  PROVE  Lists'
<1>1. ASSUME NEW o \in Object, NEW u \in Thread
      PROVE  OnList(u, o)' <=> OnList(u, o)
  <2>1. CASE u = t
    BY <2>1 DEF OnList, Obj
  <2>2. CASE u # t
    BY <2>2 DEF OnList, Obj, Alone
  <2> QED  BY <2>1, <2>2
<1> QED  BY <1>1 DEF IInv, Lists

\* o was available before, and t does not fall asleep on it.
NoNewSleep(t, o) ==
  count'[o] > 0 => count[o] > 0 /\ (Asleep(t)' /\ Obj(t)' = o => Asleep(t) /\ Obj(t) = o)

TokensStay(t) == \A u \in Thread \ {t} : token[u] = 1 => token'[u] = 1

LEMMA StillQuiet ==
  ASSUME IInv, TypeOK', NEW t \in Thread, Alone(t), TokensStay(t), NEW o \in Object, NoNewSleep(t, o)
  PROVE  count'[o] > 0 /\ Sleeps(o)' => count[o] > 0 /\ Sleeps(o)
<1> SUFFICES ASSUME count'[o] > 0, Sleeps(o)' PROVE Sleeps(o)
  BY DEF NoNewSleep
<1>1. PICK u \in Thread : Asleep(u)' /\ Obj(u)' = o
  BY DEF Sleeps
<1>2. CASE u = t
  BY <1>1, <1>2 DEF Sleeps, NoNewSleep
<1>3. CASE u # t
  <2>1. thread'[u] = thread[u] /\ token'[u] = 0 /\ token[u] \in 0 .. 1
    BY <1>1, <1>3 DEF Alone, Asleep, IInv, TypeOK
  <2>2. Asleep(u) /\ Obj(u) = o
    BY <2>1, <1>1, <1>3 DEF Asleep, At, Obj, TokensStay
  <2> QED  BY <2>2 DEF Sleeps
<1> QED  BY <1>2, <1>3

LEMMA StillLooked ==
  ASSUME NEW t \in Thread, Alone(t), TokensStay(t), NEW o \in Object,
         LooksAt(t, o) => LooksAt(t, o)', Looked(o)
  PROVE  Looked(o)'
<1>1. PICK u \in Thread : LooksAt(u, o)
  BY DEF Looked
<1>2. CASE u = t
  BY <1>1, <1>2 DEF Looked
<1>3. CASE u # t
  <2>1. LooksAt(u, o)'
    BY <1>1, <1>3 DEF LooksAt, Alone, At, Obj, TokensStay
  <2> QED  BY <2>1 DEF Looked
<1> QED  BY <1>2, <1>3

\* What a step of t must keep.
LEMMA Kept ==
  ASSUME IInv, NEW t \in Thread, program' = program, Alone(t), TokensStay(t),
         TypeOK', Places', Lists', Calls', Owners',
         \A o \in Event : IsQuiet(o)' \/ NoNewSleep(t, o),
         Patient => \A o \in Mutex \cup Semaphore :
            \/ IsServed(o)'
            \/ NoNewSleep(t, o) /\ (count'[o] > 0 /\ LooksAt(t, o) => LooksAt(t, o)')
  PROVE  IInv'
<1>1. ASSUME NEW o \in Event PROVE IsQuiet(o)'
  <2>1. o \in Object /\ IsQuiet(o)
    BY DEF Event, Object, IInv, EventsWakeAll
  <2> QED  BY <2>1, StillQuiet DEF IsQuiet
<1>2. ASSUME Patient', NEW o \in Mutex \cup Semaphore PROVE IsServed(o)'
  <2>1. o \in Object /\ Patient
    BY <1>2 DEF Patient, Object
  <2>2. IsServed(o)
    BY <2>1 DEF IInv, Served
  <2>3. CASE NoNewSleep(t, o) /\ (count'[o] > 0 /\ LooksAt(t, o) => LooksAt(t, o)')
    BY <2>1, <2>2, <2>3, StillQuiet, StillLooked DEF IsServed
  <2> QED  BY <2>1, <2>3
<1> QED  BY <1>1, <1>2 DEF IInv, EventsWakeAll, Served

\* Patient programs' threads do not give up: the head of the list looks at the count.
LEMMA HeadLooks ==
  ASSUME NEW o \in Mutex \cup Semaphore, Patient, program' = program,
         IInv, waiters' = waiters, Signal(First(waiters[o])), TypeOK', Places', Lists'
  PROVE  IsServed(o)'
<1> SUFFICES ASSUME Sleeps(o)' PROVE Looked(o)'
  BY DEF IsServed
<1>1. o \in Object /\ waiters[o] \in Seq(Thread) /\ Range(waiters[o]) \subseteq Thread
  BY DEF Object, IInv, TypeOK, Range
<1>2. PICK v \in Thread : At(v, "blocked")' /\ Obj(v)' = o
  BY DEF Sleeps, Asleep
<1>3. v \in Range(waiters[o])
  BY <1>1, <1>2 DEF Lists, OnList, At
<1>4. PICK u \in Range(waiters[o]) : First(waiters[o]) = {u}
  BY <1>1, <1>3, HeadOnList
<1>5. u \in Thread /\ OnList(u, o)' /\ token'[u] = 1 /\ Place(u)'
  BY <1>1, <1>4 DEF Lists, Signal, Places
<1>6. thread'[u].pc \in {"blocked", "relock"} /\ thread'[u].obj = o
  BY <1>5 DEF OnList, Obj
<1>7. o \in program.objects /\ o \notin Event
  BY <1>5, <1>6, KindAssumption DEF Place, At, Obj, Event
<1>8. ~ thread'[u].timedOut
  BY <1>5, <1>6, <1>7 DEF Patient, Place, At
<1>9. LooksAt(u, o)'
  BY <1>5, <1>6, <1>8 DEF LooksAt, At, Obj
<1> QED  BY <1>5, <1>9 DEF Looked

-----------------------------------------------------------------------------
(* The actions                                                             *)

LEMMA Start ==
  ASSUME Init
  PROVE  IInv
<1>1. TypeOK
  <2>1. program \in Programs /\ program.apcs \in Nat
    BY ProgramAssumption DEF Init
  <2>2. count \in [Object -> Nat] /\ \A o \in Object : count[o] <= IF o \in Semaphore THEN MaxCount ELSE 1
    BY BoundAssumption, KindAssumption DEF Init
  <2>3. waiters \in [Object -> Seq(Thread)] /\ \A o \in Object : IsInjective(waiters[o])
    BY DEF Init, IsInjective
  <2>4. lock \in [Object -> Thread \cup {None}] /\ owner \in [Mutex -> Thread \cup {None}]
        /\ depth \in [Mutex -> 0 .. MaxDepth] /\ token \in [Thread -> 0 .. 1]
    BY BoundAssumption DEF Init
  <2>5. queued \in [Thread -> 0 .. program.apcs] /\ apcs \in [Thread -> 0 .. program.apcs]
        /\ queuers \in [Thread -> 0 .. program.apcs] /\ waitsOn \in [Thread -> BOOLEAN]
    BY <2>1 DEF Init
  <2>6. thread \in [Thread -> ThreadState]
    BY IdleTyped DEF Init
  <2> QED  BY <2>1, <2>2, <2>3, <2>4, <2>5, <2>6 DEF TypeOK
<1>2. \A t \in Thread : thread[t].pc = "idle" /\ thread[t].obj = None /\ thread[t].timedOut = FALSE
  BY IdleTyped DEF Init
<1>3. Places
  BY <1>2 DEF Places, Place, At, Obj, Holding, CheckPoints
<1>4. \A o \in Object : Range(waiters[o]) = {}
  BY DEF Init, Range
<1>5. Lists
  BY <1>2, <1>4 DEF Lists, OnList
<1>6. Calls /\ Owners
  BY NoneAssumption DEF Init, Calls, Owners, Object
<1>7. EventsWakeAll /\ Served
  BY <1>2 DEF EventsWakeAll, Served, IsQuiet, IsServed, Sleeps, Asleep, At
<1> QED  BY <1>1, <1>3, <1>5, <1>6, <1>7 DEF IInv

LEMMA Calling ==
  ASSUME IInv, NEW t \in Thread, program' = program, Call(t)
  PROVE  IInv'
<1>1. PICK o \in program.objects, k \in program.timeouts, i \in program.interruptible :
        thread' = [thread EXCEPT ![t] =
                [Idle EXCEPT !.pc = IF i /\ k # "zero" THEN "check" ELSE "lock",
                             !.obj = o, !.timeout = k, !.interruptible = i]]
  BY DEF Call
<1>2. PICK w : w = [Idle EXCEPT !.pc = IF i /\ k # "zero" THEN "check" ELSE "lock",
                                !.obj = o, !.timeout = k, !.interruptible = i]
  OBVIOUS
<1>3. o \in Object /\ o # None /\ k \in {"infinite", "timed", "zero"} /\ i \in BOOLEAN
  BY ProgramAssumption, NoneAssumption DEF IInv, TypeOK
<1>4. /\ w \in ThreadState /\ w.pc \in {"check", "lock"} /\ w.obj = o /\ w.timeout = k
      /\ w.interruptible = i /\ w.timedOut = FALSE
  BY <1>2, <1>3 DEF Idle, ThreadState, Step
<1>5. w.pc = "check" => i
  BY <1>2 DEF Idle
<1>6. thread' = [thread EXCEPT ![t] = w] /\ thread \in [Thread -> ThreadState]
  BY <1>1, <1>2 DEF IInv, TypeOK
<1>7. thread'[t] = w /\ Alone(t)
  BY <1>4, <1>6 DEF Alone
<1>8. At(t, "idle") /\ UNCHANGED <<object, signals>>
  BY DEF Call
<1>9. TypeOK'
  BY <1>7, <1>8 DEF IInv, TypeOK, Alone, object, signals
<1>10. Places'
  <2>1. Place(t)'
    BY <1>3, <1>4, <1>5, <1>7 DEF Place, At, Obj, Interruptible, CheckPoints, Holding
  <2> QED  BY <2>1, <1>7, <1>8, OthersStay DEF object
<1>11. Lists'
  BY <1>4, <1>7, <1>8, ListsStay DEF object, At
<1>12. Calls' /\ Owners' /\ TokensStay(t)
  BY <1>8 DEF IInv, Calls, Owners, object, signals, TokensStay
<1>13. \A x \in Object : NoNewSleep(t, x) /\ ~ LooksAt(t, x)
  BY <1>4, <1>7, <1>8, NoneAssumption, Waiting DEF NoNewSleep, Asleep, LooksAt, At, object, IInv, Places, Place, Obj
<1> QED  BY <1>7, <1>9, <1>10, <1>11, <1>12, <1>13, Kept DEF Object, Event

\* Steps that leave the objects alone.
LEMMA LeavesObjects ==
  ASSUME IInv, NEW t \in Thread, program' = program, UNCHANGED object, Alone(t), TypeOK', Calls',
         TokensStay(t), Place(t)',
         \/ thread[t].pc \notin {"blocked", "relock"} /\ thread'[t].pc \notin {"blocked", "relock"}
         \/ /\ thread[t].pc \in {"blocked", "relock"} /\ thread'[t].pc \in {"blocked", "relock"}
            /\ thread'[t].obj = thread[t].obj,
         Asleep(t)' => Asleep(t),
         Patient => \A o \in Mutex \cup Semaphore : count[o] > 0 /\ LooksAt(t, o) => LooksAt(t, o)'
  PROVE  IInv'
<1>1. lock' = lock /\ count' = count /\ waiters' = waiters /\ owner' = owner /\ depth' = depth
  BY DEF object
<1>2. Places' /\ Lists' /\ Owners'
  BY <1>1, OthersStay, ListsStay DEF IInv, Owners
<1>3. ASSUME NEW o \in Object PROVE NoNewSleep(t, o)
  <2>1. Asleep(t)' /\ Obj(t)' = o => Obj(t) = o
    BY DEF Asleep, At, Obj
  <2> QED  BY <2>1, <1>1 DEF NoNewSleep
<1> QED  BY <1>1, <1>2, <1>3, Kept DEF Object, Event

LEMMA BeginningWait ==
  ASSUME IInv, NEW t \in Thread, program' = program, BeginWait(t)
  PROVE  IInv'
<1>1. Moves(t, "lock") /\ At(t, "check") /\ UNCHANGED <<object, signals>>
  BY Going DEF BeginWait, Step, IInv
<1>2. TypeOK' /\ Calls' /\ TokensStay(t)
  BY <1>1 DEF IInv, TypeOK, Calls, Moves, Alone, object, signals, TokensStay
<1>3. Place(t)'
  BY <1>1, Waiting DEF Place, Moves, At, Obj, Interruptible, CheckPoints, Holding, object
<1>4. ~ Asleep(t)' /\ \A o : ~ LooksAt(t, o)
  BY <1>1 DEF Asleep, LooksAt, Moves, At
<1> QED  BY <1>1, <1>2, <1>3, <1>4, LeavesObjects DEF Moves, At

LEMMA Unblocking ==
  ASSUME IInv, NEW t \in Thread, program' = program, Unblock(t)
  PROVE  IInv'
<1>1. UNCHANGED <<object, apcs, queued, queuers, waitsOn>> /\ At(t, "blocked")
  BY DEF Unblock
<1>2. /\ thread[t] \in ThreadState /\ thread \in [Thread -> ThreadState] /\ Place(t)
      /\ Obj(t) \in Object
  BY <1>1, Waiting DEF IInv, TypeOK, At
<1>3. ~ thread[t].timedOut
  BY <1>1, <1>2 DEF Place, At
<1>4. CASE token[t] = 1 /\ token' = [token EXCEPT ![t] = 0] /\ Goto(t, "relock")
  <2>1. Moves(t, "relock") /\ token' \in [Thread -> 0 .. 1] /\ TokensStay(t)
    BY <1>4, Going DEF IInv, TypeOK, Step, TokensStay
  <2>2. TypeOK' /\ Calls'
    BY <1>1, <2>1 DEF IInv, TypeOK, Calls, Moves, Alone, object
  <2>3. Place(t)'
    BY <1>1, <1>2, <1>3, <2>1 DEF Place, Moves, At, Obj, Interruptible, CheckPoints, Holding, object
  <2>4. ~ Asleep(t)' /\ \A o : LooksAt(t, o) => LooksAt(t, o)'
    BY <1>1, <2>1 DEF Asleep, LooksAt, Moves, At, Obj
  <2> QED  BY <1>1, <2>1, <2>2, <2>3, <2>4, LeavesObjects DEF Moves, At
<1>5. CASE /\ token[t] = 0 /\ thread[t].timeout = "timed" /\ UNCHANGED token
           /\ thread' = [thread EXCEPT ![t].pc = "relock", ![t].timedOut = TRUE]
  <2>1. PICK w : w = [thread[t] EXCEPT !.pc = "relock", !.timedOut = TRUE]
    OBVIOUS
  <2>2. /\ w \in ThreadState /\ w.pc = "relock" /\ w.obj = thread[t].obj
        /\ w.timeout = thread[t].timeout /\ w.interruptible = thread[t].interruptible
    BY <1>2, <2>1 DEF ThreadState, Step
  <2>3. thread' = [thread EXCEPT ![t] = w]
    BY <1>2, <1>5, <2>1
  <2>4. thread'[t] = w /\ Alone(t)
    BY <1>2, <2>2, <2>3 DEF Alone
  <2>5. TypeOK' /\ Calls' /\ TokensStay(t)
    BY <1>1, <1>5, <2>4 DEF IInv, TypeOK, Calls, Alone, object, TokensStay
  <2>6. Place(t)'
    BY <1>1, <1>2, <1>5, <2>2, <2>4 DEF Place, At, Obj, Interruptible, CheckPoints, Holding, object
  <2>7. ~ Asleep(t)'
    BY <2>2, <2>4 DEF Asleep, At
  <2>8. \A o : ~ LooksAt(t, o)
    BY <1>1, <1>5 DEF LooksAt
  <2> QED  BY <1>1, <1>5, <2>2, <2>4, <2>5, <2>6, <2>7, <2>8, LeavesObjects DEF At
<1> QED  BY <1>4, <1>5 DEF Unblock

LEMMA Leaving ==
  ASSUME IInv, NEW t \in Thread, program' = program, Leave(t)
  PROVE  IInv'
<1>1. UNCHANGED <<object, token, apcs, queued, queuers>> /\ At(t, "leave")
  BY DEF Leave
<1>2. Place(t)
  BY <1>1, Waiting DEF At
<1>3. PICK pc \in {"checkDone", "done"} : Moves(t, pc) /\ (pc = "checkDone" => Interruptible(t))
  <2>1. CASE Interruptible(t)
    BY <2>1, Going DEF Leave, Step, IInv
  <2>2. CASE ~ Interruptible(t)
    BY <2>2, Going DEF Leave, Step, IInv
  <2> QED  BY <2>1, <2>2
<1>4. TypeOK' /\ Calls' /\ TokensStay(t)
  <2>1. waitsOn' \in [Thread -> BOOLEAN]
    BY DEF Leave, IInv, TypeOK
  <2> QED  BY <1>1, <1>3, <2>1 DEF IInv, TypeOK, Calls, Moves, Alone, object, TokensStay
<1>5. Place(t)'
  BY <1>1, <1>2, <1>3 DEF Place, Moves, At, Obj, Interruptible, CheckPoints, Holding, object
<1>6. ~ Asleep(t)' /\ \A o : LooksAt(t, o) => LooksAt(t, o)'
  BY <1>1, <1>3 DEF Asleep, LooksAt, Moves, At, Obj
<1> QED  BY <1>1, <1>3, <1>4, <1>5, <1>6, LeavesObjects DEF Moves, At

\* t stays where it is.
LEMMA StaysThere ==
  ASSUME IInv, NEW t \in Thread, UNCHANGED <<program, lock, count, thread>>
  PROVE  Alone(t) /\ Place(t)'
  BY DEF IInv, TypeOK, Alone, Places, Place, At, Obj, Interruptible

LEMMA QueueingAPC ==
  ASSUME IInv, NEW t \in Thread, program' = program, QueueAPC(t)
  PROVE  IInv'
<1>1. UNCHANGED <<object, token, waitsOn, thread>>
  BY DEF QueueAPC
<1>2. Alone(t) /\ Place(t)' /\ TokensStay(t)
  BY <1>1, StaysThere DEF object, TokensStay
<1>3. program.apcs \in Nat /\ queued[t] \in Nat /\ apcs[t] \in Nat /\ queuers[t] \in Nat
      /\ queued[t] + 1 <= program.apcs /\ apcs[t] <= queued[t] /\ queuers[t] <= queued[t]
  BY ProgramAssumption DEF QueueAPC, IInv, TypeOK, Calls
<1>4. /\ queued' \in [Thread -> 0 .. program.apcs] /\ apcs' \in [Thread -> 0 .. program.apcs]
      /\ queuers' \in [Thread -> 0 .. program.apcs] /\ Calls'
  BY <1>3 DEF QueueAPC, IInv, TypeOK, Calls
<1>5. TypeOK'
  BY <1>1, <1>4 DEF IInv, TypeOK, object
<1>6. thread' = thread /\ (Asleep(t)' <=> Asleep(t)) /\ \A o : LooksAt(t, o)' <=> LooksAt(t, o)
  BY <1>1 DEF Asleep, LooksAt, At, Obj
<1> QED  BY <1>1, <1>2, <1>4, <1>5, <1>6, LeavesObjects

LEMMA SignallingAPC ==
  ASSUME IInv, NEW t \in Thread, program' = program, SignalAPC(t)
  PROVE  IInv'
<1>1. UNCHANGED <<object, apcs, queued, waitsOn, thread>>
  BY DEF SignalAPC
<1>2. token' \in [Thread -> 0 .. 1] /\ \A u \in Thread : token[u] = 1 => token'[u] = 1
  BY DEF SignalAPC, Signal, IInv, TypeOK
<1>3. Alone(t) /\ Place(t)' /\ TokensStay(t)
  BY <1>1, <1>2, StaysThere DEF object, TokensStay
<1>4. queuers' \in [Thread -> 0 .. program.apcs] /\ Calls'
  <2>1. program.apcs \in Nat
    BY ProgramAssumption DEF IInv, TypeOK
  <2> QED  BY <1>1, <2>1 DEF SignalAPC, IInv, TypeOK, Calls
<1>5. TypeOK'
  BY <1>1, <1>2, <1>4 DEF IInv, TypeOK, object
<1>6. thread' = thread /\ (Asleep(t)' => Asleep(t)) /\ \A o : LooksAt(t, o) => LooksAt(t, o)'
  BY <1>1, <1>2 DEF Asleep, LooksAt, At, Obj, IInv, TypeOK
<1> QED  BY <1>1, <1>3, <1>4, <1>5, <1>6, LeavesObjects

\* The end of a wait that did not succeed.
LEMMA GivingUp ==
  ASSUME IInv, NEW t \in Thread, program' = program, Return(t), ~ At(t, "idle"),
         thread[t].pc \notin {"blocked", "relock"}, UNCHANGED <<count, waiters, owner, depth>>,
         \A o \in Object : lock[o] \notin {None, t} => lock'[o] = lock[o],
         lock' \in [Object -> Thread \cup {None}], token' = token, queued' = queued, queuers' = queuers,
         waitsOn' \in [Thread -> BOOLEAN], apcs' \in [Thread -> 0 .. program.apcs],
         \A u \in Thread : apcs'[u] <= apcs[u],
         Patient => \A o \in Mutex \cup Semaphore : count[o] > 0 => ~ LooksAt(t, o)
  PROVE  IInv'
<1>1. Stops(t) /\ TokensStay(t)
  BY Returning DEF IInv, TokensStay
<1>2. /\ Alone(t) /\ thread'[t].pc = "idle" /\ thread'[t].obj = None
      /\ thread'[t].timedOut = FALSE
  BY <1>1, IdleTyped DEF Stops
<1>3. TypeOK'
  BY <1>2 DEF IInv, TypeOK, Alone
<1>4. Calls'
  <2> SUFFICES ASSUME NEW u \in Thread PROVE apcs'[u] <= queued[u] /\ queuers[u] <= queued[u]
    BY DEF Calls
  <2>1. apcs'[u] \in Nat /\ apcs[u] \in Nat /\ queued[u] \in Nat /\ apcs'[u] <= apcs[u]
    BY ProgramAssumption DEF IInv, TypeOK
  <2> QED  BY <2>1 DEF IInv, Calls
<1>5. Place(t)'
  BY <1>2 DEF Place, At, Obj, Holding, CheckPoints
<1>6. Places' /\ Lists' /\ Owners'
  BY <1>2, <1>5, OthersStay, ListsStay DEF IInv, Owners
<1>7. \A o \in Object : NoNewSleep(t, o)
  BY <1>2 DEF NoNewSleep, Asleep, At
<1> QED  BY <1>1, <1>2, <1>3, <1>4, <1>6, <1>7, Kept DEF Object, Event

LEMMA HandlingAPC ==
  ASSUME IInv, NEW t \in Thread, program' = program, HandleAPC(t)
  PROVE  IInv'
<1>1. /\ thread[t].pc \in CheckPoints /\ apcs[t] > 0 /\ apcs' = [apcs EXCEPT ![t] = @ - 1]
      /\ UNCHANGED <<count, waiters, owner, depth, token, queued, queuers>>
  BY DEF HandleAPC
<1>2. /\ apcs' \in [Thread -> 0 .. program.apcs] /\ program.apcs # 0
      /\ \A u \in Thread : apcs'[u] \in Nat /\ apcs[u] \in Nat /\ queued[u] \in Nat /\ apcs'[u] <= apcs[u]
  BY <1>1, ProgramAssumption DEF IInv, TypeOK
<1>3. Place(t) /\ Obj(t) \in Object /\ ~ At(t, "idle") /\ Interruptible(t) \in BOOLEAN
  BY <1>1, Waiting DEF CheckPoints, At, Interruptible
<1>4. CASE UNCHANGED <<lock, waitsOn, thread>>
  <2>1. Alone(t) /\ Place(t)' /\ TokensStay(t) /\ UNCHANGED object
    BY <1>1, <1>4, StaysThere DEF object, TokensStay
  <2>2. Calls'
    BY <1>1, <1>2 DEF IInv, Calls
  <2>3. TypeOK'
    BY <1>1, <1>2, <1>4 DEF IInv, TypeOK
  <2>4. thread' = thread /\ (Asleep(t)' => Asleep(t)) /\ \A o : LooksAt(t, o) => LooksAt(t, o)'
    BY <1>1, <1>4 DEF Asleep, LooksAt, At, Obj
  <2> QED  BY <2>1, <2>2, <2>3, <2>4, LeavesObjects
<1>5. CASE /\ waitsOn' = [waitsOn EXCEPT ![t] = FALSE] /\ Return(t)
           /\ lock' = IF At(t, "check") THEN lock ELSE [lock EXCEPT ![Obj(t)] = None]
  <2>1. waitsOn' \in [Thread -> BOOLEAN] /\ lock' \in [Object -> Thread \cup {None}]
    BY <1>3, <1>5 DEF IInv, TypeOK
  <2>2. ASSUME NEW o \in Object, lock[o] \notin {None, t} PROVE lock'[o] = lock[o]
    <3>1. CASE At(t, "check")
      BY <3>1, <1>5
    <3>2. CASE ~ At(t, "check")
      <4>1. lock[Obj(t)] = t
        BY <1>1, <1>3, <3>2 DEF Place, CheckPoints, Holding, At
      <4> QED  BY <4>1, <2>2, <3>2, <1>5 DEF IInv, TypeOK
    <3> QED  BY <3>1, <3>2
  <2>3. Interruptible(t) = TRUE
    BY <1>1, <1>3 DEF Place
  <2>4. Patient => Obj(t) \in Event
    BY <1>2, <1>3, <2>3 DEF Patient, Place
  <2>5. Patient => \A o \in Mutex \cup Semaphore : ~ LooksAt(t, o)
    BY <2>4, KindAssumption DEF LooksAt, Event
  <2> QED  BY <1>1, <1>2, <1>3, <1>5, <2>1, <2>2, <2>5, GivingUp DEF CheckPoints
<1> QED  BY <1>4, <1>5 DEF HandleAPC

\* A recursive lock and its unlocking.
LEMMA LocksAgain ==
  ASSUME IInv, NEW t \in Thread, program' = program, LockAgain(t) \/ UnlockInner(t)
  PROVE  IInv'
<1>1. UNCHANGED <<lock, count, waiters, owner, signals, thread>> /\ At(t, "idle")
  BY DEF LockAgain, UnlockInner
<1>2. PICK o \in Mutex, d \in 1 .. MaxDepth : owner[o] = t /\ depth' = [depth EXCEPT ![o] = d]
  <2>1. CASE LockAgain(t)
    <3>1. PICK o \in Mutex : owner[o] = t /\ depth[o] < MaxDepth /\ depth' = [depth EXCEPT ![o] = depth[o] + 1]
      BY <2>1 DEF LockAgain
    <3>2. depth[o] + 1 \in 1 .. MaxDepth
      BY <3>1, BoundAssumption DEF IInv, TypeOK
    <3> QED  BY <3>1, <3>2
  <2>2. CASE UnlockInner(t)
    <3>1. PICK o \in Mutex : owner[o] = t /\ depth[o] > 1 /\ depth' = [depth EXCEPT ![o] = depth[o] - 1]
      BY <2>2 DEF UnlockInner
    <3>2. depth[o] - 1 \in 1 .. MaxDepth
      BY <3>1, BoundAssumption DEF IInv, TypeOK
    <3> QED  BY <3>1, <3>2
  <2> QED  BY <2>1, <2>2
<1>3. Owners'
  <2>1. depth \in [Mutex -> 0 .. MaxDepth] /\ t # None
    BY NoneAssumption DEF IInv, TypeOK
  <2> QED  BY <1>1, <1>2, <2>1 DEF IInv, Owners
<1>4. depth' \in [Mutex -> 0 .. MaxDepth]
  BY <1>2 DEF IInv, TypeOK
<1>5. TypeOK' /\ Calls' /\ TokensStay(t)
  BY <1>1, <1>4 DEF IInv, TypeOK, Calls, signals, TokensStay
<1>6. Alone(t) /\ Place(t)'
  BY <1>1, StaysThere
<1>7. Places' /\ Lists'
  BY <1>1, <1>6, OthersStay, ListsStay DEF At
<1>8. \A x \in Object : NoNewSleep(t, x) /\ ~ LooksAt(t, x)
  <2>1. Obj(t) = None
    BY <1>1 DEF IInv, Places, Place
  <2> QED  BY <1>1, <2>1, NoneAssumption DEF NoNewSleep, Asleep, LooksAt, At, Obj
<1> QED  BY <1>3, <1>5, <1>6, <1>7, <1>8, Kept DEF Object, Event

\* Steps of an idle thread on an object whose lock is free.
LEMMA FromOutside ==
  ASSUME IInv, NEW t \in Thread, program' = program, At(t, "idle"),
         UNCHANGED <<lock, waiters, apcs, queued, queuers, waitsOn, thread>>,
         NEW o \in Object, lock[o] = None, NEW c \in Nat, count' = [count EXCEPT ![o] = c],
         c <= IF o \in Semaphore THEN MaxCount ELSE 1,
         owner' \in [Mutex -> Thread \cup {None}], depth' \in [Mutex -> 0 .. MaxDepth], Owners',
         token' \in [Thread -> 0 .. 1], \A u \in Thread : token[u] = 1 => token'[u] = 1,
         \/ c = 0
         \/ o \in Event /\ \A u \in Range(waiters[o]) : token'[u] = 1
         \/ o \in Mutex \cup Semaphore /\ Signal(First(waiters[o]))
  PROVE  IInv'
<1>1. count \in [Object -> Nat] /\ count' \in [Object -> Nat] /\ count'[o] = c
      /\ \A x \in Object \ {o} : count'[x] = count[x]
  BY DEF IInv, TypeOK
<1>2. TypeOK'
  BY <1>1 DEF IInv, TypeOK
<1>3. Alone(t) /\ TokensStay(t) /\ Calls'
  BY DEF IInv, TypeOK, Alone, TokensStay, Calls
<1>4. Obj(t) = None
  BY DEF IInv, Places, Place
<1>5. Place(t)'
  <2>1. thread'[t].pc = "idle" /\ Obj(t)' = None /\ ~ thread'[t].timedOut
    BY <1>4 DEF IInv, Places, Place, At, Obj
  <2> QED  BY <2>1 DEF Place, At, CheckPoints, Holding
<1>6. Places' /\ Lists'
  <2>1. \A x \in Object : lock[x] \notin {None, t} => lock'[x] = lock[x] /\ count'[x] = count[x]
    BY <1>1
  <2> QED  BY <1>3, <1>5, <2>1, OthersStay, ListsStay DEF At
<1>7. ASSUME NEW x \in Object \ {o} PROVE NoNewSleep(t, x)
  BY <1>1, <1>7 DEF NoNewSleep, Asleep, At
<1>8. \A x \in Object : ~ LooksAt(t, x)
  BY <1>4, NoneAssumption DEF LooksAt
<1>9. CASE c = 0
  <2>1. NoNewSleep(t, o)
    BY <1>1, <1>9 DEF NoNewSleep
  <2> QED  BY <1>2, <1>3, <1>6, <1>7, <1>8, <2>1, Kept DEF Object, Event
<1>10. CASE o \in Event /\ \A u \in Range(waiters[o]) : token'[u] = 1
  <2>1. ~ Sleeps(o)'
    <3> SUFFICES ASSUME NEW u \in Thread, Asleep(u)', Obj(u)' = o PROVE FALSE
      BY DEF Sleeps
    <3>1. OnList(u, o)'
      BY DEF Asleep, At, OnList
    <3>2. u \in Range(waiters[o])
      BY <3>1, <1>6 DEF Lists
    <3> QED  BY <3>2, <1>10 DEF Asleep
  <2>2. IsQuiet(o)'
    BY <2>1 DEF IsQuiet
  <2>3. o \notin Mutex \cup Semaphore
    BY <1>10, KindAssumption DEF Event
  <2> QED  BY <1>2, <1>3, <1>6, <1>7, <1>8, <2>2, <2>3, Kept DEF Object, Event
<1>11. CASE o \in Mutex \cup Semaphore /\ Signal(First(waiters[o]))
  <2>1. Patient => IsServed(o)'
    BY <1>2, <1>6, <1>11, HeadLooks
  <2>2. o \notin Event
    BY <1>11, KindAssumption DEF Event
  <2> QED  BY <1>2, <1>3, <1>6, <1>7, <1>8, <2>1, <2>2, Kept DEF Object, Event
<1> QED  BY <1>9, <1>10, <1>11

\* A signal only adds tokens.
LEMMA Signalled ==
  ASSUME IInv, NEW S, Signal(S)
  PROVE  token' \in [Thread -> 0 .. 1] /\ \A u \in Thread : token[u] = 1 => token'[u] = 1
  BY DEF Signal, IInv, TypeOK

LEMMA UnlockingOuter ==
  ASSUME IInv, NEW t \in Thread, program' = program, UnlockOuter(t)
  PROVE  IInv'
<1>1. PICK o \in Mutex :
        /\ owner[o] = t /\ depth[o] = 1 /\ lock[o] = None
        /\ depth' = [depth EXCEPT ![o] = 0] /\ count' = [count EXCEPT ![o] = 1]
        /\ owner' = [owner EXCEPT ![o] = None] /\ Signal(First(waiters[o]))
  BY DEF UnlockOuter
<1>2. o \in Object /\ o \notin Semaphore
  BY KindAssumption DEF Object
<1>3. owner' \in [Mutex -> Thread \cup {None}] /\ depth' \in [Mutex -> 0 .. MaxDepth]
  BY <1>1, BoundAssumption DEF IInv, TypeOK
<1>4. Owners'
  BY <1>1, <1>2 DEF IInv, TypeOK, Owners, Object
<1>5. token' \in [Thread -> 0 .. 1] /\ \A u \in Thread : token[u] = 1 => token'[u] = 1
  BY <1>1, Signalled
<1>6. At(t, "idle") /\ UNCHANGED <<lock, waiters, apcs, queued, queuers, waitsOn, thread>>
  BY DEF UnlockOuter
<1>7. 1 \in Nat /\ 1 <= IF o \in Semaphore THEN MaxCount ELSE 1
  BY BoundAssumption
<1> QED  BY <1>1, <1>2, <1>3, <1>4, <1>5, <1>6, <1>7, FromOutside

\* The count of an object that is not a mutex says nothing of owners.
LEMMA OwnersStay ==
  ASSUME IInv, NEW o \in Object \ Mutex, NEW c, count' = [count EXCEPT ![o] = c],
         UNCHANGED <<owner, depth>>
  PROVE  /\ Owners' /\ owner' \in [Mutex -> Thread \cup {None}] /\ depth' \in [Mutex -> 0 .. MaxDepth]
<1>1. \A x \in Mutex : count'[x] = count[x]
  BY DEF IInv, TypeOK, Object
<1> QED  BY <1>1 DEF IInv, TypeOK, Owners

LEMMA Posting ==
  ASSUME IInv, NEW t \in Thread, program' = program, Post(t)
  PROVE  IInv'
<1>1. PICK o \in Semaphore \cap program.objects, n \in 1 .. MaxCount :
        /\ lock[o] = None /\ count[o] + n <= MaxCount
        /\ count' = [count EXCEPT ![o] = count[o] + n] /\ Signal(First(waiters[o]))
  BY DEF Post
<1>2. o \in Object /\ o \notin Mutex /\ count[o] + n \in Nat
  BY KindAssumption DEF Object, IInv, TypeOK
<1>3. /\ At(t, "idle")
      /\ UNCHANGED <<lock, waiters, owner, depth, apcs, queued, queuers, waitsOn, thread>>
  BY DEF Post
<1>4. token' \in [Thread -> 0 .. 1] /\ \A u \in Thread : token[u] = 1 => token'[u] = 1
  BY <1>1, Signalled
<1> QED  BY <1>1, <1>2, <1>3, <1>4, OwnersStay, FromOutside

LEMMA SettingEvent ==
  ASSUME IInv, NEW t \in Thread, program' = program, SetEvent(t)
  PROVE  IInv'
<1>1. PICK o \in (AutoEvent \cup ManualEvent) \cap program.objects :
        /\ lock[o] = None /\ count' = [count EXCEPT ![o] = 1] /\ Signal(Range(waiters[o]))
  BY DEF SetEvent
<1>2. o \in Object /\ o \notin Mutex /\ o \notin Semaphore /\ o \in Event
  BY KindAssumption DEF Object, Event
<1>3. /\ At(t, "idle")
      /\ UNCHANGED <<lock, waiters, owner, depth, apcs, queued, queuers, waitsOn, thread>>
  BY DEF SetEvent
<1>4. token' \in [Thread -> 0 .. 1] /\ \A u \in Thread : token[u] = 1 => token'[u] = 1
  BY <1>1, Signalled
<1>5. \A u \in Range(waiters[o]) : token'[u] = 1
  BY <1>1, <1>2 DEF Signal, IInv, TypeOK, Range
<1>6. 1 \in Nat /\ 1 <= IF o \in Semaphore THEN MaxCount ELSE 1
  BY BoundAssumption
<1>7. Owners' /\ owner' \in [Mutex -> Thread \cup {None}] /\ depth' \in [Mutex -> 0 .. MaxDepth]
  BY <1>1, <1>2, <1>3, OwnersStay
<1> QED  BY <1>1, <1>2, <1>3, <1>4, <1>5, <1>6, <1>7, FromOutside

LEMMA ResettingEvent ==
  ASSUME IInv, NEW t \in Thread, program' = program, ResetEvent(t)
  PROVE  IInv'
<1>1. PICK o \in (AutoEvent \cup ManualEvent) \cap program.objects :
        lock[o] = None /\ count' = [count EXCEPT ![o] = 0]
  BY DEF ResetEvent
<1>2. o \in Object /\ o \notin Mutex /\ o \notin Semaphore
  BY KindAssumption DEF Object
<1>3. /\ At(t, "idle") /\ UNCHANGED <<lock, waiters, owner, depth, signals, thread>>
  BY DEF ResetEvent
<1>4. /\ token' \in [Thread -> 0 .. 1] /\ \A u \in Thread : token[u] = 1 => token'[u] = 1
      /\ UNCHANGED <<apcs, queued, queuers, waitsOn>>
  BY <1>3 DEF signals, IInv, TypeOK
<1>5. 0 \in Nat /\ 0 <= IF o \in Semaphore THEN MaxCount ELSE 1
  BY BoundAssumption
<1>6. Owners' /\ owner' \in [Mutex -> Thread \cup {None}] /\ depth' \in [Mutex -> 0 .. MaxDepth]
  BY <1>1, <1>2, <1>3, OwnersStay
<1> QED  BY <1>1, <1>2, <1>3, <1>4, <1>5, <1>6, FromOutside

\* Steps under the lock of the object t waits for: what another thread has locked
\* stays as it is.
LEMMA UnderLock ==
  ASSUME IInv, NEW t \in Thread, Alone(t), program' = program, NEW o \in Object,
         lock[o] \in {None, t}, NEW l \in Thread \cup {None}, lock' = [lock EXCEPT ![o] = l],
         \A x \in Object \ {o} : count'[x] = count[x], Place(t)'
  PROVE  Places' /\ lock' \in [Object -> Thread \cup {None}]
<1>1. lock \in [Object -> Thread \cup {None}]
  BY DEF IInv, TypeOK
<1>2. \A x \in Object : lock[x] \notin {None, t} => lock'[x] = lock[x] /\ count'[x] = count[x]
  BY <1>1
<1> QED  BY <1>1, <1>2, OthersStay

\* t takes o.
LEMMA Succeeding ==
  ASSUME IInv, NEW t \in Thread, program' = program, thread[t].pc \in {"lock", "checkDone", "done"},
         NEW o \in Object, o = Obj(t), lock[o] \in {None, t}, count[o] > 0, Succeed(t, o),
         UNCHANGED <<apcs, queued, queuers>>, waitsOn' = waitsOn
  PROVE  IInv'
<1>1. Stops(t)
  BY Returning DEF Succeed, IInv
<1>2. /\ Alone(t) /\ thread'[t].pc = "idle" /\ thread'[t].obj = None
      /\ thread'[t].timedOut = FALSE
  BY <1>1, IdleTyped DEF Stops
<1>3. /\ count' = [count EXCEPT ![o] = Taken(o)] /\ lock' = [lock EXCEPT ![o] = None]
      /\ owner' = IF o \in Mutex THEN [owner EXCEPT ![o] = t] ELSE owner
      /\ depth' = IF o \in Mutex THEN [depth EXCEPT ![o] = 1] ELSE depth
      /\ Signal(IF o \in Semaphore /\ count[o] > 1 THEN First(waiters[o]) ELSE {})
      /\ waiters' = waiters
  BY DEF Succeed
<1>4. token' \in [Thread -> 0 .. 1] /\ TokensStay(t)
  BY <1>3, Signalled DEF TokensStay
<1>5. count \in [Object -> Nat] /\ count[o] \in Nat /\ count[o] <= IF o \in Semaphore THEN MaxCount ELSE 1
  BY DEF IInv, TypeOK
<1>6. Taken(o) \in Nat /\ Taken(o) <= count[o]
  BY <1>5 DEF Taken
<1>7. /\ count' \in [Object -> Nat] /\ count'[o] = Taken(o)
      /\ \A x \in Object \ {o} : count'[x] = count[x]
  BY <1>3, <1>5, <1>6
<1>8. Place(t)'
  BY <1>2 DEF Place, At, Obj, Holding, CheckPoints
<1>9. Places' /\ lock' \in [Object -> Thread \cup {None}]
  BY <1>2, <1>3, <1>7, <1>8, UnderLock
<1>10. Lists'
  BY <1>2, <1>3, ListsStay
<1>11. owner' \in [Mutex -> Thread \cup {None}] /\ depth' \in [Mutex -> 0 .. MaxDepth]
  BY <1>3, BoundAssumption DEF IInv, TypeOK
<1>12. Owners'
  <2>1. CASE o \in Mutex
    <3>1. Taken(o) = 0
      BY <2>1, KindAssumption DEF Taken
    <3> QED  BY <2>1, <3>1, <1>3, <1>7, NoneAssumption DEF IInv, TypeOK, Owners, Object
  <2>2. CASE o \notin Mutex
    BY <2>2, <1>3, OwnersStay
  <2> QED  BY <2>1, <2>2
<1>13. TypeOK' /\ Calls'
  <2>1. \A x \in Object : count'[x] <= IF x \in Semaphore THEN MaxCount ELSE 1
    <3> SUFFICES ASSUME NEW x \in Object PROVE count'[x] <= IF x \in Semaphore THEN MaxCount ELSE 1
      OBVIOUS
    <3>1. CASE x = o
      BY <3>1, <1>5, <1>6, <1>7, BoundAssumption
    <3>2. CASE x # o
      BY <3>2, <1>7 DEF IInv, TypeOK
    <3> QED  BY <3>1, <3>2
  <2> QED  BY <1>2, <1>3, <1>4, <1>7, <1>9, <1>11, <2>1 DEF IInv, TypeOK, Calls, Alone
<1>14. \A x \in Object : NoNewSleep(t, x)
  BY <1>2, <1>6, <1>7 DEF NoNewSleep, Asleep, At
<1>15. \A x \in Object \ {o} : ~ LooksAt(t, x)
  BY DEF LooksAt
<1>16. CASE o \in Semaphore /\ count[o] > 1
  <2>1. Signal(First(waiters[o]))
    BY <1>3, <1>16
  <2>2. Patient => IsServed(o)'
    BY <1>3, <1>9, <1>10, <1>13, <1>16, <2>1, HeadLooks
  <2> QED  BY <1>2, <1>4, <1>9, <1>10, <1>12, <1>13, <1>14, <1>15, <2>2, Kept DEF Object, Event
<1>17. CASE ~ (o \in Semaphore /\ count[o] > 1)
  <2>1. o \in Mutex \cup Semaphore => count'[o] = 0
    BY <1>5, <1>7, <1>17, KindAssumption DEF Taken
  <2> QED  BY <1>2, <1>4, <1>9, <1>10, <1>12, <1>13, <1>14, <1>15, <2>1, Kept DEF Object, Event
<1> QED  BY <1>16, <1>17

\* t goes to sleep on o, which is not available.
LEMMA Blocking ==
  ASSUME IInv, NEW t \in Thread, program' = program,
         thread[t].pc \in {"lock", "checkRegistered", "test", "checkWoken"},
         NEW o \in Object, o = Obj(t), lock[o] \in {None, t}, count[o] = 0, Block(t, o),
         UNCHANGED signals
  PROVE  IInv'
<1>1. Moves(t, "blocked")
  BY Going DEF Block, IInv, Step
<1>2. /\ waiters' = [waiters EXCEPT ![o] = Append(waiters[o], t)] /\ lock' = [lock EXCEPT ![o] = None]
      /\ UNCHANGED <<count, owner, depth>>
  BY DEF Block
<1>3. Place(t)'
  <2>1. Place(t) /\ ~ At(t, "idle") /\ ~ thread[t].timedOut
    BY DEF IInv, Places, Place, At
  <2> QED  BY <1>1, <2>1 DEF Place, Moves, At, Obj, Interruptible, CheckPoints, Holding
<1>4. Places' /\ lock' \in [Object -> Thread \cup {None}]
  BY <1>1, <1>2, <1>3, UnderLock DEF Moves
<1>5. waiters \in [Object -> Seq(Thread)] /\ IsInjective(waiters[o]) /\ t \notin Range(waiters[o])
  BY DEF IInv, TypeOK, Lists, OnList
<1>6. PICK list : list = Append(waiters[o], t)
  OBVIOUS
<1>7. list \in Seq(Thread) /\ IsInjective(list) /\ Range(list) = Range(waiters[o]) \cup {t}
  BY <1>5, <1>6, Joined
<1>8. waiters' \in [Object -> Seq(Thread)] /\ waiters'[o] = list /\ \A x \in Object \ {o} : waiters'[x] = waiters[x]
  BY <1>2, <1>5, <1>6, <1>7
<1>9. TypeOK'
  <2>1. \A x \in Object : IsInjective(waiters'[x])
    BY <1>7, <1>8 DEF IInv, TypeOK
  <2> QED  BY <1>1, <1>2, <1>4, <1>8, <2>1 DEF IInv, TypeOK, Moves, Alone, signals
<1>10. Lists'
  <2> SUFFICES ASSUME NEW x \in Object, NEW u \in Thread
               PROVE  u \in Range(waiters'[x]) <=> OnList(u, x)'
    BY DEF Lists
  <2>1. u \in Range(waiters[x]) <=> OnList(u, x)
    BY DEF IInv, Lists
  <2>2. CASE u = t
    <3>1. OnList(t, x)' <=> x = o
      BY <1>1 DEF OnList, Moves, Obj
    <3>2. t \notin Range(waiters[x])
      BY <2>1, <2>2 DEF OnList
    <3> QED  BY <2>2, <3>1, <3>2, <1>7, <1>8
  <2>3. CASE u # t
    <3>1. OnList(u, x)' <=> OnList(u, x)
      BY <1>1, <2>3 DEF OnList, Moves, Alone, Obj
    <3> QED  BY <2>1, <2>3, <3>1, <1>7, <1>8
  <2> QED  BY <2>2, <2>3
<1>11. Calls' /\ Owners' /\ TokensStay(t)
  BY <1>2 DEF IInv, Calls, Owners, signals, TokensStay
<1>12. \A x \in Object : NoNewSleep(t, x) /\ (count'[x] > 0 /\ LooksAt(t, x) => LooksAt(t, x)')
  BY <1>1, <1>2 DEF NoNewSleep, LooksAt, Moves, Obj
<1> QED  BY <1>1, <1>4, <1>9, <1>10, <1>11, <1>12, Kept DEF Moves, Object, Event

LEMMA Locking ==
  ASSUME IInv, NEW t \in Thread, program' = program, Lock(t)
  PROVE  IInv'
<1> PICK o : o = Obj(t)
  OBVIOUS
<1>1. /\ At(t, "lock") /\ lock[o] = None /\ UNCHANGED <<apcs, queued, queuers>>
  BY DEF Lock
<1>2. o \in Object /\ Place(t) /\ ~ At(t, "idle") /\ ~ thread[t].timedOut
  BY <1>1, Waiting DEF At, Place
<1>3. CASE count[o] > 0 /\ Succeed(t, o) /\ UNCHANGED waitsOn
  BY <1>1, <1>2, <1>3, Succeeding DEF At
<1>4. CASE count[o] = 0 /\ Return(t) /\ UNCHANGED <<object, token, waitsOn>>
  <2>1. UNCHANGED <<lock, count, waiters, owner, depth>>
    BY <1>4 DEF object
  <2>2. /\ lock \in [Object -> Thread \cup {None}] /\ waitsOn' \in [Thread -> BOOLEAN]
        /\ apcs' \in [Thread -> 0 .. program.apcs] /\ \A u \in Thread : apcs'[u] <= apcs[u]
    BY <1>1, <1>4, ProgramAssumption DEF IInv, TypeOK
  <2>3. \A x : ~ LooksAt(t, x)
    BY <1>1 DEF LooksAt, At
  <2> QED  BY <1>1, <1>2, <1>4, <2>1, <2>2, <2>3, GivingUp DEF At
<1>5. CASE /\ count[o] = 0 /\ Interruptible(t) /\ lock' = [lock EXCEPT ![o] = t]
           /\ waitsOn' = [waitsOn EXCEPT ![t] = TRUE] /\ Goto(t, "checkRegistered")
           /\ UNCHANGED <<count, waiters, owner, depth, token>>
  <2>1. Moves(t, "checkRegistered")
    BY <1>5, Going DEF IInv, Step
  <2>2. lock'[o] = t
    BY <1>2, <1>5 DEF IInv, TypeOK
  <2>3. Place(t)'
    BY <1>1, <1>2, <1>5, <2>1, <2>2 DEF Place, Moves, At, Obj, Interruptible, CheckPoints, Holding
  <2>4. Places' /\ lock' \in [Object -> Thread \cup {None}]
    BY <1>1, <1>2, <1>5, <2>1, <2>3, UnderLock DEF Moves
  <2>5. waitsOn' \in [Thread -> BOOLEAN]
    BY <1>5 DEF IInv, TypeOK
  <2>6. TypeOK' /\ Calls' /\ Owners' /\ TokensStay(t)
    BY <1>1, <1>5, <2>1, <2>4, <2>5 DEF IInv, TypeOK, Calls, Owners, Moves, Alone, TokensStay
  <2>7. Lists'
    BY <1>1, <1>5, <2>1, ListsStay DEF Moves, At
  <2>8. \A x \in Object : NoNewSleep(t, x) /\ ~ LooksAt(t, x)
    BY <1>1, <1>5, <2>1 DEF NoNewSleep, Asleep, LooksAt, Moves, At
  <2> QED  BY <2>1, <2>4, <2>6, <2>7, <2>8, Kept DEF Moves, Object, Event
<1>6. CASE count[o] = 0 /\ Block(t, o) /\ UNCHANGED <<token, waitsOn>>
  BY <1>1, <1>2, <1>6, Blocking DEF At, signals
<1> QED  BY <1>3, <1>4, <1>5, <1>6 DEF Lock

LEMMA Registering ==
  ASSUME IInv, NEW t \in Thread, program' = program, Registered(t)
  PROVE  IInv'
<1> PICK o : o = Obj(t)
  OBVIOUS
<1>1. At(t, "checkRegistered") /\ Block(t, o) /\ UNCHANGED signals
  BY DEF Registered
<1>2. o \in Object /\ lock[o] = t /\ count[o] = 0
  BY <1>1, Waiting DEF At, Place, Holding
<1> QED  BY <1>1, <1>2, Blocking DEF At

LEMMA Testing ==
  ASSUME IInv, NEW t \in Thread, program' = program, Test(t)
  PROVE  IInv'
<1> PICK o : o = Obj(t)
  OBVIOUS
<1>1. thread[t].pc \in {"test", "checkWoken"} /\ UNCHANGED signals
  BY DEF Test, At
<1>2. o \in Object /\ lock[o] = t /\ Place(t) /\ ~ At(t, "idle")
  BY <1>1, Waiting DEF At, Place, Holding
<1>3. CASE count[o] = 0 /\ Block(t, o)
  BY <1>1, <1>2, <1>3, Blocking
<1>4. CASE count[o] > 0 /\ Goto(t, "leave") /\ UNCHANGED object
  <2>1. Moves(t, "leave")
    BY <1>4, Going DEF IInv, Step
  <2>2. TypeOK' /\ Calls' /\ TokensStay(t)
    BY <1>1, <1>4, <2>1 DEF IInv, TypeOK, Calls, Moves, Alone, object, signals, TokensStay
  <2>3. Place(t)'
    BY <1>1, <1>2, <1>4, <2>1 DEF Place, Moves, At, Obj, Interruptible, CheckPoints, Holding, object
  <2>4. ~ Asleep(t)' /\ \A x : LooksAt(t, x) => LooksAt(t, x)'
    BY <1>1, <2>1 DEF Asleep, LooksAt, Moves, At, Obj
  <2> QED  BY <1>1, <1>4, <2>1, <2>2, <2>3, <2>4, LeavesObjects DEF Moves
<1> QED  BY <1>3, <1>4 DEF Test

LEMMA EndingWait ==
  ASSUME IInv, NEW t \in Thread, program' = program, EndWait(t)
  PROVE  IInv'
<1> PICK o : o = Obj(t)
  OBVIOUS
<1>1. thread[t].pc \in {"done", "checkDone"} /\ UNCHANGED <<apcs, queued, queuers, waitsOn>>
  BY DEF EndWait, At
<1>2. o \in Object /\ lock[o] = t /\ Place(t) /\ ~ At(t, "idle")
  BY <1>1, Waiting DEF At, Place, Holding
<1>3. CASE thread[t].timedOut
  <2>1. /\ lock' = [lock EXCEPT ![o] = None] /\ Return(t)
        /\ UNCHANGED <<count, waiters, owner, depth, token>>
    BY <1>3 DEF EndWait
  <2>2. lock' \in [Object -> Thread \cup {None}] /\ waitsOn' \in [Thread -> BOOLEAN]
    BY <1>1, <2>1 DEF IInv, TypeOK
  <2>5. apcs' \in [Thread -> 0 .. program.apcs] /\ \A u \in Thread : apcs'[u] <= apcs[u]
    BY <1>1, ProgramAssumption DEF IInv, TypeOK
  <2>3. \A x \in Object : lock[x] \notin {None, t} => lock'[x] = lock[x]
    BY <1>2, <2>1 DEF IInv, TypeOK
  <2>4. \A x : ~ LooksAt(t, x)
    BY <1>3 DEF LooksAt
  <2> QED  BY <1>1, <1>2, <2>1, <2>2, <2>3, <2>4, <2>5, GivingUp
<1>4. CASE ~ thread[t].timedOut
  <2>1. count[o] > 0 /\ Succeed(t, o)
    BY <1>1, <1>2, <1>4 DEF EndWait, Place, At
  <2> QED  BY <1>1, <1>2, <2>1, Succeeding
<1> QED  BY <1>3, <1>4

LEMMA Relocking ==
  ASSUME IInv, NEW t \in Thread, program' = program, Relock(t)
  PROVE  IInv'
<1> PICK o : o = Obj(t)
  OBVIOUS
<1>1. /\ At(t, "relock") /\ lock[o] = None /\ UNCHANGED <<count, owner, depth, signals>>
      /\ waiters' = [waiters EXCEPT ![o] = RemoveWaiter(waiters[o], t)]
      /\ lock' = [lock EXCEPT ![o] = t]
  BY DEF Relock
<1>2. o \in Object /\ Place(t) /\ ~ At(t, "idle") /\ OnList(t, o)
  BY <1>1, Waiting DEF At, OnList
<1>3. PICK pc \in {"leave", "checkWoken", "test"} :
        /\ Moves(t, pc)
        /\ pc = "leave" => thread[t].timedOut
        /\ pc # "leave" => ~ thread[t].timedOut
        /\ pc = "checkWoken" => Interruptible(t)
  <2>1. CASE thread[t].timedOut
    <3>1. Goto(t, "leave")
      BY <2>1 DEF Relock
    <3> QED  BY <2>1, <3>1, Going DEF Step, IInv
  <2>2. CASE ~ thread[t].timedOut /\ Interruptible(t)
    <3>1. Goto(t, "checkWoken")
      BY <2>2 DEF Relock
    <3> QED  BY <2>2, <3>1, Going DEF Step, IInv
  <2>3. CASE ~ thread[t].timedOut /\ ~ Interruptible(t)
    <3>1. Goto(t, "test")
      BY <2>3 DEF Relock
    <3> QED  BY <2>3, <3>1, Going DEF Step, IInv
  <2> QED  BY <2>1, <2>2, <2>3
<1>4. lock'[o] = t
  BY <1>1, <1>2 DEF IInv, TypeOK
<1>5. Place(t)'
  BY <1>1, <1>2, <1>3, <1>4 DEF Place, Moves, At, Obj, Interruptible, CheckPoints, Holding
<1>6. Places' /\ lock' \in [Object -> Thread \cup {None}]
  BY <1>1, <1>2, <1>3, <1>5, UnderLock DEF Moves
<1>7. waiters \in [Object -> Seq(Thread)] /\ IsInjective(waiters[o]) /\ t \in Range(waiters[o])
  BY <1>2 DEF IInv, TypeOK, Lists
<1>8. PICK list : list = RemoveWaiter(waiters[o], t)
  OBVIOUS
<1>9. list \in Seq(Thread) /\ IsInjective(list) /\ Range(list) = Range(waiters[o]) \ {t}
  BY <1>2, <1>7, <1>8, Removed
<1>10. waiters' \in [Object -> Seq(Thread)] /\ waiters'[o] = list /\ \A x \in Object \ {o} : waiters'[x] = waiters[x]
  BY <1>1, <1>2, <1>7, <1>8, <1>9
<1>11. TypeOK'
  <2>1. \A x \in Object : IsInjective(waiters'[x])
    BY <1>9, <1>10 DEF IInv, TypeOK
  <2> QED  BY <1>1, <1>3, <1>6, <1>10, <2>1 DEF IInv, TypeOK, Moves, Alone, signals
<1>12. Lists'
  <2> SUFFICES ASSUME NEW x \in Object, NEW u \in Thread
               PROVE  u \in Range(waiters'[x]) <=> OnList(u, x)'
    BY DEF Lists
  <2>1. u \in Range(waiters[x]) <=> OnList(u, x)
    BY DEF IInv, Lists
  <2>2. CASE u = t
    <3>1. ~ OnList(t, x)'
      BY <1>3 DEF OnList, Moves
    <3>2. x # o => t \notin Range(waiters[x])
      BY <2>1, <2>2 DEF OnList
    <3> QED  BY <2>2, <3>1, <3>2, <1>9, <1>10
  <2>3. CASE u # t
    <3>1. OnList(u, x)' <=> OnList(u, x)
      BY <1>3, <2>3 DEF OnList, Moves, Alone, Obj
    <3> QED  BY <2>1, <2>3, <3>1, <1>9, <1>10
  <2> QED  BY <2>2, <2>3
<1>13. Calls' /\ Owners' /\ TokensStay(t)
  BY <1>1 DEF IInv, Calls, Owners, signals, TokensStay
<1>14. \A x \in Object : NoNewSleep(t, x) /\ (LooksAt(t, x) => LooksAt(t, x)')
  BY <1>1, <1>3 DEF NoNewSleep, Asleep, LooksAt, Moves, Obj, At
<1> QED  BY <1>3, <1>6, <1>11, <1>12, <1>13, <1>14, Kept DEF Moves, Object, Event

LEMMA Stuttering ==
  ASSUME IInv, UNCHANGED vars
  PROVE  IInv'
<1>1. UNCHANGED <<program, lock, count, waiters, owner, depth, token, apcs, queued, queuers, waitsOn, thread>>
  BY DEF vars, state, object, signals
<1>2. TypeOK' /\ Calls' /\ Owners'
  BY <1>1 DEF IInv, TypeOK, Calls, Owners
<1>3. Places'
  BY <1>1 DEF IInv, Places, Place, At, Obj, Interruptible
<1>4. Lists'
  BY <1>1 DEF IInv, Lists, OnList, Obj
<1>5. EventsWakeAll' /\ Served'
  BY <1>1 DEF IInv, EventsWakeAll, Served, Patient, IsQuiet, IsServed, Sleeps, Looked, Asleep, LooksAt, At, Obj
<1> QED  BY <1>2, <1>3, <1>4, <1>5 DEF IInv

LEMMA IInvStep == IInv /\ [Next]_vars => IInv'
<1> SUFFICES ASSUME IInv, [Next]_vars PROVE IInv'
  OBVIOUS
<1>1. CASE Next
  <2>1. PICK t \in program.threads : Program(t) \/ Run(t)
    BY <1>1 DEF Next
  <2>2. t \in Thread /\ program' = program
    BY <1>1, ProgramAssumption DEF Next, IInv, TypeOK
  <2>3. CASE Program(t)
    BY <2>2, <2>3, Calling, LocksAgain, UnlockingOuter, Posting, SettingEvent, ResettingEvent, QueueingAPC
    DEF Program, Unlock
  <2>4. CASE Run(t)
    BY <2>2, <2>4, HandlingAPC, BeginningWait, Locking, Registering, Unblocking, Relocking, Testing,
       Leaving, EndingWait, SignallingAPC DEF Run
  <2> QED  BY <2>1, <2>3, <2>4
<1>2. CASE UNCHANGED vars
  BY <1>2, Stuttering
<1> QED  BY <1>1, <1>2

LEMMA AlwaysIInv == Spec => []IInv
  BY Start, IInvStep, PTL DEF Spec

-----------------------------------------------------------------------------
(* The theorems                                                            *)

\* The count of a mutex is 1 exactly while nobody owns it, and its recursion count
\* 0: MutexImpl::Unlock and WaitObject::Wait keep the three words in step, whether
\* waits succeed, time out or end with an exception from an APC.
THEOREM AMutexHasOneOwner == Spec => []FreeMeansNoOwner
<1>1. IInv => FreeMeansNoOwner
  BY DEF IInv, Owners, FreeMeansNoOwner
<1> QED  BY <1>1, AlwaysIInv, PTL

\* Nobody sleeps for an object that could be had, without somebody awake who will
\* look at its count: on events always, on mutexes and semaphores as long as
\* waits for them have no timeout and are not interrupted (Patient), because
\* WakeupOneThread gives its one wake-up to the head of the list.
THEOREM WakeUpsAreNotLost == Spec => [](Patient => NoLostWakeup)
<1>1. IInv => (Patient => NoLostWakeup)
  <2> SUFFICES ASSUME IInv, Patient, NEW o \in Object, NEW t \in Thread,
                      Asleep(t) /\ Obj(t) = o /\ count[o] > 0
               PROVE  \E u \in Thread : LooksAt(u, o)
    BY DEF NoLostWakeup
  <2>1. Sleeps(o)
    BY DEF Sleeps
  <2>2. o \notin Event
    BY <2>1 DEF IInv, EventsWakeAll, IsQuiet
  <2>3. o \in Mutex \cup Semaphore
    BY <2>2 DEF Object, Event
  <2> QED  BY <2>1, <2>3 DEF IInv, Served, IsServed, Looked
<1> QED  BY <1>1, AlwaysIInv, PTL

\* Set wakes every waiting thread, and a thread goes to sleep only under the lock
\* under which it found the event reset: nobody sleeps on a set event, whatever
\* the timeouts and calls of the program.
THEOREM NobodySleepsOnSetEvent ==
  Spec => [](\A o \in Event, t \in Thread : Asleep(t) /\ Obj(t) = o => count[o] = 0)
<1>1. IInv => \A o \in Event, t \in Thread : Asleep(t) /\ Obj(t) = o => count[o] = 0
  <2> SUFFICES ASSUME IInv, NEW o \in Event, NEW t \in Thread, Asleep(t) /\ Obj(t) = o
               PROVE  count[o] = 0
    OBVIOUS
  <2>1. Sleeps(o) /\ count[o] \in Nat
    BY DEF Sleeps, IInv, TypeOK, Event, Object
  <2> QED  BY <2>1 DEF IInv, EventsWakeAll, IsQuiet
<1> QED  BY <1>1, AlwaysIInv, PTL
====
