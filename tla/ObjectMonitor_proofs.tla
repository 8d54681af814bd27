------------------------ MODULE ObjectMonitor_proofs ------------------------
(***************************************************************************)
(* Theorems of ObjectMonitor for any number of threads, objects, monitors  *)
(* and programs.                                                           *)
(***************************************************************************)
EXTENDS ObjectMonitor, FiniteSetTheorems, SequenceTheorems, TLAPS

PC == {"idle", "read", "allocate", "install", "try", "verify", "join", "loop", "grab",
       "sleep", "lastRead", "lastGrab", "held", "exit", "hand", "park", "deflate", "flush",
       "post", "postIfReady", "restore", "pulse", "thrown", "aborted", "dead"}

\* where a thread refers to no object, and where it refers to a monitor
WithoutObject == {"idle", "thrown", "dead"}
WithMonitor ==
  {"install", "try", "verify", "join", "loop", "grab", "sleep", "lastRead", "lastGrab",
   "held", "exit", "hand", "park", "deflate", "flush", "post", "postIfReady", "restore",
   "aborted"}
\* where a thread comes for a lock
Coming == {"read", "allocate", "install", "try", "verify", "join", "loop", "grab", "sleep"}

WaitType ==
  {NoWait} \cup [depth : 1 .. program.depth, kind : {"infinite", "timed", "zero"},
                 pulsed : BOOLEAN]

ThreadType ==
  [pc : PC, obj : Object \cup {None}, mon : Monitor \cup {None},
   kind : {"none", "infinite", "timed", "zero", "aborted"}, wait : WaitType]

\* A thread's local state says where it is.
Local(t) ==
  /\ thread[t].pc \notin WithoutObject => Obj(t) \in program.objects
  /\ thread[t].pc \in WithMonitor => Mon(t) \in Monitor
  /\ thread[t].pc \in {"exit", "restore", "pulse"} => Waits(t)
  /\ thread[t].pc \in {"idle", "held", "thrown", "dead"} => ~ Waits(t)
  /\ Waits(t) => thread[t].kind = "infinite"
  /\ thread[t].pc \in Coming => thread[t].kind \in program.enters \cup {"infinite"}
  /\ thread[t].kind = "timed" => "timed" \in program.enters
  /\ thread[t].pc \in {"lastRead", "lastGrab"} => thread[t].kind = "timed"
  /\ thread[t].kind = "aborted" => thread[t].pc \in {"aborted", "hand", "post", "dead"}

HeapTyped ==
  /\ program \in Programs
  /\ monitor \in [Object -> Monitor \cup {None}]
  /\ owner \in [Monitor -> Thread \cup {Free, Listed}]
  /\ locks \in [Monitor -> 1 .. program.depth]
  /\ tokens \in [Monitor -> 0 .. MaxTokens]
  /\ ready \in [Monitor -> Nat]
  /\ pulseList \in [Monitor -> Seq(Thread)]
  /\ aborted \subseteq Monitor /\ fresh \subseteq Monitor /\ signalled \subseteq Thread
  /\ freeList \in Seq(Monitor)

\* After a step of t, which no other thread has part in.
Lands(t, pc, obj, mon, kind, wait) ==
  /\ thread'[t].pc = pc /\ thread'[t].obj = obj /\ thread'[t].mon = mon
  /\ thread'[t].kind = kind /\ thread'[t].wait = wait
  /\ \A u \in Thread \ {t} : thread'[u] = thread[u]
Moves(t, pc) == Lands(t, pc, Obj(t), Mon(t), thread[t].kind, thread[t].wait)
Stops(t) == Lands(t, "idle", None, None, "none", NoWait)

ThreadsTyped == thread \in [Thread -> ThreadType] /\ \A t \in Thread : Local(t)

USE ProgramAssumption, NoneAssumption, BoundAssumption

LEMMA GotoFacts ==
  ASSUME ThreadsTyped, NEW t \in Thread, NEW p \in PC, Goto(t, p), UNCHANGED program
  PROVE  /\ thread' \in [Thread -> ThreadType']
         /\ (Local(t) => Local(t)') => ThreadsTyped'
         /\ thread'[t].pc = p /\ thread'[t].obj = Obj(t) /\ thread'[t].mon = Mon(t)
         /\ thread'[t].kind = thread[t].kind /\ thread'[t].wait = thread[t].wait
         /\ \A u \in Thread \ {t} : thread'[u] = thread[u]
<1>1. ThreadType' = ThreadType
  BY DEF ThreadType, WaitType
<1>2. thread' = [thread EXCEPT ![t] = [thread[t] EXCEPT !.pc = p]]
  BY DEF Goto
<1>3. thread[t] \in ThreadType
  BY DEF ThreadsTyped
<1>4. [thread[t] EXCEPT !.pc = p] \in ThreadType
  BY <1>3 DEF ThreadType
<1>5. thread' \in [Thread -> ThreadType]
  BY <1>2, <1>4 DEF ThreadsTyped
<1>6. thread'[t] = [thread[t] EXCEPT !.pc = p] /\ \A u \in Thread \ {t} : thread'[u] = thread[u]
  BY <1>2 DEF ThreadsTyped
<1>7. \A u \in Thread \ {t} : Local(u)'
  BY <1>6 DEF ThreadsTyped, Local, Obj, Mon, Waits
<1>8. /\ thread'[t].pc = p /\ thread'[t].obj = Obj(t) /\ thread'[t].mon = Mon(t)
      /\ thread'[t].kind = thread[t].kind /\ thread'[t].wait = thread[t].wait
  BY <1>6, <1>3 DEF ThreadType, Obj, Mon
<1> QED  BY <1>1, <1>5, <1>6, <1>7, <1>8 DEF ThreadsTyped

LEMMA BecomeFacts ==
  ASSUME ThreadsTyped, NEW t \in Thread, NEW r \in ThreadType, Become(t, r), UNCHANGED program
  PROVE  /\ Local(t)' => ThreadsTyped'
         /\ thread'[t] = r
         /\ \A u \in Thread \ {t} : thread'[u] = thread[u]
<1>1. ThreadType' = ThreadType
  BY DEF ThreadType, WaitType
<1>2. thread' = [thread EXCEPT ![t] = r]
  BY DEF Become
<1>5. thread' \in [Thread -> ThreadType]
  BY <1>2 DEF ThreadsTyped
<1>6. thread'[t] = r /\ \A u \in Thread \ {t} : thread'[u] = thread[u]
  BY <1>2 DEF ThreadsTyped
<1>7. \A u \in Thread \ {t} : Local(u)'
  BY <1>6 DEF ThreadsTyped, Local, Obj, Mon, Waits
<1> QED  BY <1>1, <1>5, <1>6, <1>7 DEF ThreadsTyped


LEMMA Arrive ==
  ASSUME ThreadsTyped, NEW t \in Thread, NEW p \in PC, Goto(t, p), UNCHANGED program,
         p \notin WithoutObject => Obj(t) \in program.objects,
         p \in WithMonitor => Mon(t) \in Monitor,
         p \in {"exit", "restore", "pulse"} => Waits(t),
         p \in {"idle", "held", "thrown", "dead"} => ~ Waits(t),
         p \in Coming => thread[t].kind \in program.enters \cup {"infinite"},
         p \in {"lastRead", "lastGrab"} => thread[t].kind = "timed",
         thread[t].kind = "aborted" => p \in {"aborted", "hand", "post", "dead"}
  PROVE  ThreadsTyped'
<1>1. Local(t)'
  BY GotoFacts DEF Local, ThreadsTyped, Obj, Mon, Waits
<1> QED  BY <1>1, GotoFacts

LEMMA GotoMoves ==
  ASSUME ThreadsTyped, NEW t \in Thread, NEW p \in PC, Goto(t, p)
  PROVE  Moves(t, p)
<1>1. thread' = [thread EXCEPT ![t] = [thread[t] EXCEPT !.pc = p]] /\ thread[t] \in ThreadType
  BY DEF Goto, ThreadsTyped
<1>2. thread'[t] = [thread[t] EXCEPT !.pc = p] /\ \A u \in Thread \ {t} : thread'[u] = thread[u]
  BY <1>1 DEF ThreadsTyped
<1> QED  BY <1>1, <1>2 DEF Moves, Lands, Obj, Mon, ThreadType

LEMMA BecomeLands ==
  ASSUME ThreadsTyped, NEW t \in Thread, NEW r, Become(t, r)
  PROVE  Lands(t, r.pc, r.obj, r.mon, r.kind, r.wait)
BY DEF Become, Lands, ThreadsTyped

LEMMA BecomeStops ==
  ASSUME ThreadsTyped, NEW t \in Thread, Become(t, Idle)
  PROVE  Stops(t)
<1>1. Lands(t, Idle.pc, Idle.obj, Idle.mon, Idle.kind, Idle.wait)
  BY BecomeLands
<1> QED  BY <1>1 DEF Stops, Idle


LEMMA BecomeLocal ==
  ASSUME ThreadsTyped, NEW t \in Thread, NEW r \in ThreadType, Become(t, r), UNCHANGED program,
         r.pc \notin WithoutObject => r.obj \in program.objects,
         r.pc \in WithMonitor => r.mon \in Monitor,
         r.pc \in {"exit", "restore", "pulse"} => r.wait # NoWait,
         r.pc \in {"idle", "held", "thrown", "dead"} => r.wait = NoWait,
         r.wait # NoWait => r.kind = "infinite",
         r.pc \in Coming => r.kind \in program.enters \cup {"infinite"},
         r.kind = "timed" => "timed" \in program.enters,
         r.pc \in {"lastRead", "lastGrab"} => r.kind = "timed",
         r.kind = "aborted" => r.pc \in {"aborted", "hand", "post", "dead"}
  PROVE  ThreadsTyped'
<1>1. thread'[t] = r
  BY BecomeFacts
<1>2. Local(t)'
  BY <1>1 DEF Local, Obj, Mon, Waits
<1> QED  BY <1>2, BecomeFacts

LEMMA IdleTyped ==
  Idle \in ThreadType /\ NoWait \in WaitType
BY DEF Idle, ThreadType, PC, WaitType

LEMMA Stop ==
  ASSUME ThreadsTyped, NEW t \in Thread, Become(t, Idle), UNCHANGED program
  PROVE  ThreadsTyped'
<1>1. Idle.pc = "idle" /\ Idle.wait = NoWait /\ Idle.kind = "none"
  BY DEF Idle
<1> QED  BY <1>1, BecomeLocal, IdleTyped DEF WithoutObject, WithMonitor, Coming

Typed == HeapTyped /\ ThreadsTyped

LEMMA TypedEnter ==
  ASSUME Typed, NEW t \in Thread, Enter(t), UNCHANGED program
  PROVE  /\ Typed'
         /\ \E o \in program.objects, k \in program.enters : Lands(t, "read", o, None, k, NoWait)
<1>1. HeapTyped'
  BY DEF Typed, HeapTyped, Enter, heap, lists, pool
<1>2. PICK o \in program.objects, k \in program.enters :
        Become(t, [Idle EXCEPT !.pc = "read", !.obj = o, !.kind = k])
  BY DEF Enter
<1>3. o \in Object /\ k \in {"infinite", "timed", "zero"}
  BY DEF Typed, HeapTyped
<1> DEFINE r == [Idle EXCEPT !.pc = "read", !.obj = o, !.kind = k]
<1>4. r \in ThreadType
  BY <1>3 DEF Idle, ThreadType, PC, WaitType
<1>5. r.pc = "read" /\ r.obj = o /\ r.mon = None /\ r.kind = k /\ r.wait = NoWait
  BY DEF Idle
<1> HIDE DEF r
<1>6. ThreadsTyped'
  BY <1>2, <1>3, <1>4, <1>5, BecomeLocal DEF Typed, WithMonitor, r
<1>7. Lands(t, "read", o, None, k, NoWait)
  <2>1. Become(t, r)
    BY <1>2 DEF r
  <2>2. Lands(t, r.pc, r.obj, r.mon, r.kind, r.wait)
    BY <2>1, BecomeLands DEF Typed
  <2> QED  BY <1>5, <2>2
<1> QED  BY <1>1, <1>6, <1>7 DEF Typed

LEMMA TypedReadMonitor ==
  ASSUME Typed, NEW t \in Thread, ReadMonitor(t), UNCHANGED program
  PROVE  /\ Typed'
         /\ Lands(t, IF monitor[Obj(t)] = None THEN "allocate" ELSE "try", Obj(t),
                  monitor[Obj(t)], thread[t].kind, thread[t].wait)
<1> DEFINE m == monitor[Obj(t)]
           p == IF m = None THEN "allocate" ELSE "try"
           r == [thread[t] EXCEPT !.pc = p, !.mon = m]
<1>1. HeapTyped'
  BY DEF Typed, HeapTyped, ReadMonitor, heap, lists, pool
<1>2. Become(t, r)
  BY DEF ReadMonitor
<1>3. Obj(t) \in program.objects /\ Obj(t) \in Object /\ m \in Monitor \cup {None}
      /\ thread[t].kind \in program.enters \cup {"infinite"} /\ thread[t].kind # "aborted"
      /\ (Waits(t) => thread[t].kind = "infinite")
      /\ (thread[t].kind = "timed" => "timed" \in program.enters)
  BY DEF Typed, ThreadsTyped, HeapTyped, Local, ReadMonitor, At, WithoutObject, Coming
<1>4. thread[t] \in ThreadType
  BY DEF Typed, ThreadsTyped
<1>5. p \in PC /\ p \in {"allocate", "try"} /\ (p = "try" => m \in Monitor)
  BY <1>3 DEF PC
<1> HIDE DEF m, p
<1>6. r \in ThreadType
  BY <1>3, <1>4, <1>5 DEF ThreadType
<1>7. r.pc = p /\ r.obj = Obj(t) /\ r.mon = m /\ r.kind = thread[t].kind /\ r.wait = thread[t].wait
  BY <1>4 DEF Obj, ThreadType
<1> HIDE DEF r
<1>8. ThreadsTyped'
  BY <1>2, <1>3, <1>5, <1>6, <1>7, BecomeLocal DEF Typed, Waits, WithMonitor
<1>9. Lands(t, r.pc, r.obj, r.mon, r.kind, r.wait)
  BY <1>2, BecomeLands DEF Typed
<1> QED  BY <1>1, <1>7, <1>8, <1>9 DEF Typed, m, p

LEMMA TypedAllocate ==
  ASSUME Typed, NEW t \in Thread, Allocate(t), UNCHANGED program
  PROVE  /\ Typed'
         /\ \E m \in IF freeList # <<>> THEN {Last(freeList)} ELSE fresh :
               /\ freeList' = IF freeList # <<>> THEN Front(freeList) ELSE freeList
               /\ fresh' = fresh \ {m} /\ m \in Monitor
               /\ owner' = [owner EXCEPT ![m] = t]
               /\ Lands(t, "install", Obj(t), m, thread[t].kind, thread[t].wait)
<1>1. PICK m \in IF freeList # <<>> THEN {Last(freeList)} ELSE fresh :
          /\ freeList' = IF freeList # <<>> THEN Front(freeList) ELSE freeList
          /\ fresh' = fresh \ {m}
          /\ owner' = [owner EXCEPT ![m] = t]
          /\ Become(t, [thread[t] EXCEPT !.pc = "install", !.mon = m])
  BY DEF Allocate
<1>2. m \in Monitor /\ Front(freeList) \in Seq(Monitor)
  BY DEF Typed, HeapTyped, Last, Front
<1>3. HeapTyped'
  BY <1>1, <1>2 DEF Typed, HeapTyped, Allocate, lists
<1>4. Obj(t) \in program.objects /\ thread[t].kind \in program.enters \cup {"infinite"}
      /\ thread[t].kind # "aborted" /\ (Waits(t) => thread[t].kind = "infinite")
      /\ (thread[t].kind = "timed" => "timed" \in program.enters)
  BY DEF Typed, ThreadsTyped, Local, Allocate, At, WithoutObject, Coming
<1> DEFINE r == [thread[t] EXCEPT !.pc = "install", !.mon = m]
<1>5. thread[t] \in ThreadType
  BY DEF Typed, ThreadsTyped
<1>6. r \in ThreadType
  BY <1>2, <1>5 DEF ThreadType, PC
<1>7. r.pc = "install" /\ r.obj = Obj(t) /\ r.mon = m /\ r.kind = thread[t].kind /\ r.wait = thread[t].wait
  BY <1>5 DEF ThreadType, Obj
<1>8. Become(t, r)
  BY <1>1
<1> HIDE DEF r
<1>9. ThreadsTyped'
  BY <1>2, <1>4, <1>6, <1>7, <1>8, BecomeLocal DEF Typed, Waits
<1>10. Lands(t, r.pc, r.obj, r.mon, r.kind, r.wait)
  BY <1>8, BecomeLands DEF Typed
<1>11. Lands(t, "install", Obj(t), m, thread[t].kind, thread[t].wait)
  BY <1>7, <1>10
<1> QED  BY <1>1, <1>2, <1>3, <1>9, <1>11 DEF Typed
Queued == {"loop", "grab", "sleep"}
Counted(m) == {t \in Thread : thread[t].pc \in Queued /\ Mon(t) = m}
Casualties == {t \in Thread : thread[t].kind = "aborted"}

\* The ready count of a monitor covers the threads that are in its queue, and
\* one that was aborted there; it never exceeds these and the aborted ones.
CountsCover ==
  \A m \in Monitor :
    /\ Cardinality(Counted(m)) + (IF m \in aborted THEN 1 ELSE 0) <= ready[m]
    /\ ready[m] <= Cardinality(Counted(m) \cup Casualties)

AbortsAreRare == program.aborts = 0 => aborted = {} /\ Casualties = {}


LEMMA EnteredTyped ==
  ASSUME ThreadsTyped, NEW t \in Thread, Entered(t), UNCHANGED program,
         Obj(t) \in program.objects, Mon(t) \in Monitor, thread[t].kind # "aborted"
  PROVE  ThreadsTyped'
<1>1. CASE Waits(t)
  BY <1>1, Arrive DEF Entered, PC, Coming
<1>2. CASE ~ Waits(t)
  BY <1>2, Arrive DEF Entered, PC, Coming
<1> QED  BY <1>1, <1>2

\* What a thread at a place of Monitor's code knows of itself.
LEMMA Knows ==
  ASSUME Typed, NEW t \in Thread, thread[t].pc \notin WithoutObject
  PROVE  /\ Obj(t) \in program.objects /\ Obj(t) \in Object
         /\ monitor[Obj(t)] \in Monitor \cup {None}
         /\ thread[t].pc \in WithMonitor => Mon(t) \in Monitor
         /\ thread[t].pc \in Coming => thread[t].kind \in program.enters \cup {"infinite"}
         /\ thread[t].kind = "aborted" => thread[t].pc \in {"aborted", "hand", "post"}
BY DEF Typed, HeapTyped, ThreadsTyped, Local, WithoutObject

LEMMA TypedInstall ==
  ASSUME Typed, NEW t \in Thread, Install(t), UNCHANGED program
  PROVE  Typed'
<1>1. /\ Obj(t) \in program.objects /\ Obj(t) \in Object /\ Mon(t) \in Monitor
      /\ thread[t].kind \in program.enters \cup {"infinite"} /\ thread[t].kind # "aborted"
  BY Knows DEF Install, At, WithoutObject, WithMonitor, Coming
<1>2. UNCHANGED <<locks, tokens, ready, aborted, pulseList, signalled>>
  BY DEF Install, lists
<1>3. CASE /\ monitor' = [monitor EXCEPT ![Obj(t)] = Mon(t)]
           /\ Entered(t)
           /\ UNCHANGED <<owner, pool>>
  <2>1. HeapTyped'
    BY <1>1, <1>2, <1>3 DEF Typed, HeapTyped, pool
  <2>2. ThreadsTyped'
    BY <1>1, <1>3, EnteredTyped DEF Typed
  <2> QED  BY <2>1, <2>2 DEF Typed
<1>4. CASE Recycle(Mon(t)) /\ Goto(t, "read") /\ UNCHANGED monitor
  <2>1. owner' = [owner EXCEPT ![Mon(t)] = Listed] /\ freeList' = Append(freeList, Mon(t))
        /\ UNCHANGED <<fresh, monitor>>
    BY <1>4 DEF Recycle
  <2>2. HeapTyped'
    BY <1>1, <1>2, <2>1 DEF Typed, HeapTyped
  <2>3. ThreadsTyped'
    BY <1>1, <1>4, Arrive DEF Typed, PC, WithMonitor
  <2> QED  BY <2>2, <2>3 DEF Typed
<1> QED  BY <1>3, <1>4 DEF Install

LEMMA TypedTry ==
  ASSUME Typed, NEW t \in Thread, Try(t), UNCHANGED program
  PROVE  Typed'
<1>1. /\ Obj(t) \in program.objects /\ Mon(t) \in Monitor
      /\ thread[t].kind \in program.enters \cup {"infinite"} /\ thread[t].kind # "aborted"
  BY Knows DEF Try, At, WithoutObject, WithMonitor, Coming
<1>2. HeapTyped'
  <2>1. owner' = owner \/ owner' = [owner EXCEPT ![Mon(t)] = t]
    BY DEF Try, TryAcquire
  <2>2. owner' \in [Monitor -> Thread \cup {Free, Listed}]
    BY <1>1, <2>1 DEF Typed, HeapTyped
  <2> QED  BY <2>2 DEF Typed, HeapTyped, Try, lists, pool
<1>3. CASE Goto(t, "verify") \/ Goto(t, "join")
  BY <1>2, <1>1, <1>3, Arrive DEF Typed, PC
<1>4. CASE Become(t, Idle)
  BY <1>2, <1>4, Stop DEF Typed
<1> QED  BY <1>3, <1>4 DEF Try

LEMMA TypedVerify ==
  ASSUME Typed, NEW t \in Thread, Verify(t), UNCHANGED program
  PROVE  Typed'
<1>1. /\ Obj(t) \in program.objects /\ Mon(t) \in Monitor
      /\ thread[t].kind \in program.enters \cup {"infinite"} /\ thread[t].kind # "aborted"
  BY Knows DEF Verify, At, WithoutObject, WithMonitor, Coming
<1>2. HeapTyped'
  BY <1>1 DEF Typed, HeapTyped, Verify, lists, pool
<1>3. CASE Entered(t)
  BY <1>2, <1>1, <1>3, EnteredTyped DEF Typed
<1>4. CASE Goto(t, "read")
  BY <1>2, <1>1, <1>4, Arrive DEF Typed, PC, WithMonitor
<1> QED  BY <1>3, <1>4 DEF Verify

LEMMA TypedJoin ==
  ASSUME Typed, NEW t \in Thread, Join(t), UNCHANGED program
  PROVE  Typed'
<1>1. /\ Obj(t) \in program.objects /\ Mon(t) \in Monitor
      /\ thread[t].kind \in program.enters \cup {"infinite"} /\ thread[t].kind # "aborted"
  BY Knows DEF Join, At, WithoutObject, WithMonitor, Coming
<1>2. HeapTyped'
  <2>1. ready' \in [Monitor -> Nat]
    BY <1>1 DEF Typed, HeapTyped, Join
  <2> QED  BY <2>1 DEF Typed, HeapTyped, Join, lists, pool
<1>5. ThreadsTyped'
  BY <1>1, Arrive DEF Typed, PC, Join
<1> QED  BY <1>2, <1>5 DEF Typed

\* A thread that leaves the queue was counted.
LEMMA Counts ==
  ASSUME Typed, CountsCover, NEW t \in Thread, thread[t].pc \in Queued
  PROVE  Mon(t) \in Monitor /\ ready[Mon(t)] \in Nat \ {0}
<1>1. Mon(t) \in Monitor
  BY Knows DEF WithoutObject, WithMonitor, Queued
<1>2. t \in Counted(Mon(t)) /\ IsFiniteSet(Counted(Mon(t)))
  BY ThreadAssumption, FS_Subset DEF Counted
<1>3. Cardinality(Counted(Mon(t))) \in Nat \ {0}
  BY <1>2, FS_EmptySet, FS_CardinalityType
<1>4. Cardinality(Counted(Mon(t))) + (IF Mon(t) \in aborted THEN 1 ELSE 0) <= ready[Mon(t)]
  BY <1>1 DEF CountsCover
<1>5. ready[Mon(t)] \in Nat
  BY <1>1 DEF Typed, HeapTyped
<1> QED  BY <1>1, <1>3, <1>4, <1>5

LEMMA TypedLoop ==
  ASSUME Typed, CountsCover, NEW t \in Thread, Loop(t), UNCHANGED program
  PROVE  Typed'
<1>1. /\ Obj(t) \in program.objects /\ Mon(t) \in Monitor
      /\ thread[t].kind \in program.enters \cup {"infinite"} /\ thread[t].kind # "aborted"
  BY Knows DEF Loop, At, WithoutObject, WithMonitor, Coming
<1>2. ready[Mon(t)] \in Nat \ {0}
  BY Counts DEF Loop, At, Queued
<1>3. HeapTyped'
  <2>1. ready' = ready \/ ready' = [ready EXCEPT ![Mon(t)] = @ - 1]
    BY DEF Loop, Leave
  <2>2. ready' \in [Monitor -> Nat]
    BY <1>2, <2>1 DEF Typed, HeapTyped
  <2> QED  BY <2>2 DEF Typed, HeapTyped, Loop, lists, pool
<1>4. ThreadsTyped'
  BY <1>1, Arrive DEF Typed, PC, Loop, WithMonitor
<1> QED  BY <1>3, <1>4 DEF Typed

LEMMA TypedGrab ==
  ASSUME Typed, CountsCover, NEW t \in Thread, Grab(t), UNCHANGED program
  PROVE  Typed'
<1>1. /\ Obj(t) \in program.objects /\ Mon(t) \in Monitor
      /\ thread[t].kind \in program.enters \cup {"infinite"} /\ thread[t].kind # "aborted"
  BY Knows DEF Grab, At, WithoutObject, WithMonitor, Coming
<1>2. ready[Mon(t)] \in Nat \ {0}
  BY Counts DEF Grab, At, Queued
<1>3. HeapTyped'
  <2>1. ready' = ready \/ ready' = [ready EXCEPT ![Mon(t)] = @ - 1]
    BY DEF Grab, Leave
  <2>4. owner' = owner \/ owner' = [owner EXCEPT ![Mon(t)] = t]
    BY DEF Grab, TryAcquire
  <2>2. ready' \in [Monitor -> Nat]
    BY <1>2, <2>1 DEF Typed, HeapTyped
  <2>3. owner' \in [Monitor -> Thread \cup {Free, Listed}]
    BY <1>1, <2>4 DEF Typed, HeapTyped
  <2> QED  BY <2>2, <2>3 DEF Typed, HeapTyped, Grab, lists, pool
<1>4. CASE Entered(t)
  BY <1>3, <1>1, <1>4, EnteredTyped DEF Typed
<1>5. CASE Goto(t, "sleep")
  BY <1>3, <1>1, <1>5, Arrive DEF Typed, PC
<1> QED  BY <1>4, <1>5 DEF Grab

LEMMA TypedWake ==
  ASSUME Typed, NEW t \in Thread, Wake(t), UNCHANGED program
  PROVE  Typed'
<1>1. /\ Obj(t) \in program.objects /\ Mon(t) \in Monitor
      /\ thread[t].kind \in program.enters \cup {"infinite"} /\ thread[t].kind # "aborted"
  BY Knows DEF Wake, At, WithoutObject, WithMonitor, Coming
<1>2. HeapTyped'
  BY <1>1 DEF Typed, HeapTyped, Wake, lists, pool
<1>3. ThreadsTyped'
  BY <1>1, Arrive DEF Typed, PC, Wake
<1> QED  BY <1>2, <1>3 DEF Typed

LEMMA TypedEnterTimesOut ==
  ASSUME Typed, CountsCover, NEW t \in Thread, EnterTimesOut(t), UNCHANGED program
  PROVE  Typed'
<1>1. /\ Obj(t) \in program.objects /\ Mon(t) \in Monitor
      /\ thread[t].kind \in program.enters \cup {"infinite"} /\ thread[t].kind # "aborted"
  BY Knows DEF EnterTimesOut, At, WithoutObject, WithMonitor, Coming
<1>2. ready[Mon(t)] \in Nat \ {0}
  BY Counts DEF EnterTimesOut, At, Queued
<1>3. HeapTyped'
  BY <1>1, <1>2 DEF Typed, HeapTyped, EnterTimesOut, Leave, lists, pool
<1>4. CASE Become(t, Idle)
  BY <1>3, <1>4, Stop DEF Typed
<1>5. CASE Goto(t, "lastRead")
  BY <1>3, <1>1, <1>5, Arrive DEF Typed, PC, EnterTimesOut, Coming
<1> QED  BY <1>4, <1>5 DEF EnterTimesOut

LEMMA TypedLastRead ==
  ASSUME Typed, NEW t \in Thread, LastRead(t), UNCHANGED program
  PROVE  Typed'
<1>1. /\ Obj(t) \in program.objects /\ Mon(t) \in Monitor
      /\ thread[t].kind = "timed"
  BY Knows DEF LastRead, At, WithoutObject, WithMonitor, Typed, ThreadsTyped, Local
<1>2. HeapTyped'
  BY DEF Typed, HeapTyped, LastRead, heap, lists, pool
<1>4. CASE Become(t, Idle)
  BY <1>2, <1>4, Stop DEF Typed
<1>5. CASE Goto(t, "lastGrab")
  BY <1>2, <1>1, <1>5, Arrive DEF Typed, PC, Coming
<1> QED  BY <1>4, <1>5 DEF LastRead

LEMMA TypedLastGrab ==
  ASSUME Typed, NEW t \in Thread, LastGrab(t), UNCHANGED program
  PROVE  Typed'
<1>1. /\ Obj(t) \in program.objects /\ Mon(t) \in Monitor
      /\ thread[t].kind # "aborted"
  BY Knows DEF LastGrab, At, WithoutObject, WithMonitor
<1>2. HeapTyped'
  <2>1. owner' = owner \/ owner' = [owner EXCEPT ![Mon(t)] = t]
    BY DEF LastGrab, TryAcquire
  <2>2. owner' \in [Monitor -> Thread \cup {Free, Listed}]
    BY <1>1, <2>1 DEF Typed, HeapTyped
  <2> QED  BY <2>2 DEF Typed, HeapTyped, LastGrab, lists, pool
<1>4. CASE Become(t, Idle)
  BY <1>2, <1>4, Stop DEF Typed
<1>5. CASE Entered(t)
  BY <1>2, <1>1, <1>5, EnteredTyped DEF Typed
<1> QED  BY <1>4, <1>5 DEF LastGrab

LEMMA TypedEnterIsInterrupted ==
  ASSUME Typed, CountsCover, NEW t \in Thread, EnterIsInterrupted(t), UNCHANGED program
  PROVE  /\ Typed'
         /\ IF Waits(t) THEN Lands(t, "thrown", None, None, "none", NoWait) ELSE Stops(t)
<1>1. Mon(t) \in Monitor
  BY Knows DEF EnterIsInterrupted, At, WithoutObject, WithMonitor
<1>2. ready[Mon(t)] \in Nat \ {0}
  BY Counts DEF EnterIsInterrupted, At, Queued
<1>3. HeapTyped'
  <2>1. ready' = [ready EXCEPT ![Mon(t)] = @ - 1]
    BY DEF EnterIsInterrupted, Leave
  <2>2. ready' \in [Monitor -> Nat]
    BY <1>1, <1>2, <2>1 DEF Typed, HeapTyped
  <2> QED  BY <2>2 DEF Typed, HeapTyped, EnterIsInterrupted, lists, pool
<1>4. CASE Become(t, Idle) /\ ~ Waits(t)
  BY <1>3, <1>4, Stop, BecomeStops DEF Typed
<1>5. CASE Become(t, [Idle EXCEPT !.pc = "thrown"]) /\ Waits(t)
  <2> DEFINE r == [Idle EXCEPT !.pc = "thrown"]
  <2>1. /\ r \in ThreadType /\ r.pc = "thrown" /\ r.wait = NoWait /\ r.kind = "none"
        /\ r.obj = None /\ r.mon = None
    BY IdleTyped DEF ThreadType, PC, Idle
  <2> HIDE DEF r
  <2>2. ThreadsTyped'
    BY <1>5, <2>1, BecomeLocal DEF Typed, WithoutObject, WithMonitor, Coming, r
  <2>3. Become(t, r)
    BY <1>5 DEF r
  <2>4. Lands(t, r.pc, r.obj, r.mon, r.kind, r.wait)
    BY <2>3, BecomeLands DEF Typed
  <2> QED  BY <1>3, <1>5, <2>1, <2>2, <2>4 DEF Typed
<1> QED  BY <1>4, <1>5 DEF EnterIsInterrupted

LEMMA TypedEnterIsAborted ==
  ASSUME Typed, NEW t \in Thread, EnterIsAborted(t), UNCHANGED program
  PROVE  Typed' /\ Lands(t, "aborted", Obj(t), Mon(t), "aborted", NoWait)
<1>1. Mon(t) \in Monitor /\ Obj(t) \in program.objects
  BY Knows DEF EnterIsAborted, At, WithoutObject, WithMonitor
<1>2. HeapTyped'
  BY <1>1 DEF Typed, HeapTyped, EnterIsAborted, lists, pool
<1> DEFINE r == [thread[t] EXCEPT !.pc = "aborted", !.kind = "aborted"]
<1>3. thread[t] \in ThreadType /\ thread[t].wait = NoWait
  BY DEF Typed, ThreadsTyped, EnterIsAborted, Waits
<1>4. r \in ThreadType
  BY <1>3 DEF ThreadType, PC
<1>5. r.pc = "aborted" /\ r.obj = Obj(t) /\ r.mon = Mon(t) /\ r.kind = "aborted" /\ r.wait = NoWait
  BY <1>3 DEF ThreadType, Obj, Mon
<1>6. Become(t, r)
  BY DEF EnterIsAborted
<1> HIDE DEF r
<1>7. ThreadsTyped'
  BY <1>1, <1>4, <1>5, <1>6, BecomeLocal DEF Typed, Coming
<1>8. Lands(t, r.pc, r.obj, r.mon, r.kind, r.wait)
  BY <1>6, BecomeLands DEF Typed
<1> QED  BY <1>2, <1>5, <1>7, <1>8 DEF Typed

LEMMA SameThreads ==
  ASSUME ThreadsTyped, UNCHANGED <<thread, program>>
  PROVE  ThreadsTyped'
<1>1. ThreadType' = ThreadType
  BY DEF ThreadType, WaitType
<1> QED  BY <1>1 DEF ThreadsTyped, Local, Obj, Mon, Waits

LEMMA TypedReenter ==
  ASSUME Typed, NEW t \in Thread, Reenter(t), UNCHANGED program
  PROVE  Typed'
<1>1. Mon(t) \in Monitor
  BY Knows DEF Reenter, At, WithoutObject, WithMonitor
<1>2. locks' \in [Monitor -> 1 .. program.depth]
  BY <1>1 DEF Reenter, Typed, HeapTyped
<1>3. HeapTyped'
  BY <1>2 DEF Typed, HeapTyped, Reenter, lists, pool
<1> QED  BY <1>3, SameThreads DEF Typed, Reenter

LEMMA TypedExitInner ==
  ASSUME Typed, NEW t \in Thread, ExitInner(t), UNCHANGED program
  PROVE  Typed'
<1>1. Mon(t) \in Monitor
  BY Knows DEF ExitInner, At, WithoutObject, WithMonitor
<1>2. locks' \in [Monitor -> 1 .. program.depth]
  BY <1>1 DEF ExitInner, Typed, HeapTyped
<1>3. HeapTyped'
  BY <1>2 DEF Typed, HeapTyped, ExitInner, lists, pool
<1> QED  BY <1>3, SameThreads DEF Typed, ExitInner

LEMMA ExitWays ==
  ASSUME NEW m
  PROVE  \/ ready[m] # 0 /\ ExitWay(m) = "hand"
         \/ ready[m] = 0 /\ pulseList[m] # <<>> /\ ExitWay(m) = "park"
         \/ ready[m] = 0 /\ pulseList[m] = <<>> /\ ExitWay(m) = "deflate"
<1>1. CASE ready[m] # 0
  BY <1>1 DEF ExitWay
<1>2. CASE ready[m] = 0 /\ pulseList[m] # <<>>
  BY <1>2 DEF ExitWay
<1>3. CASE ready[m] = 0 /\ pulseList[m] = <<>>
  BY <1>3 DEF ExitWay
<1> QED  BY <1>1, <1>2, <1>3

LEMMA TypedExitOuter ==
  ASSUME Typed, NEW t \in Thread, ExitOuter(t), UNCHANGED program
  PROVE  Typed'
<1>1. Mon(t) \in Monitor /\ Obj(t) \in program.objects /\ thread[t].kind # "aborted"
  BY Knows DEF ExitOuter, At, WithoutObject, WithMonitor
<1>2. HeapTyped'
  BY DEF Typed, HeapTyped, ExitOuter, heap, lists, pool
<1>3. ExitWay(Mon(t)) \in PC /\ ExitWay(Mon(t)) \in {"hand", "park", "deflate"}
  BY ExitWays DEF PC
<1>4. ThreadsTyped'
  BY <1>1, <1>3, Arrive DEF Typed, ExitOuter, Coming
<1> QED  BY <1>2, <1>4 DEF Typed

LEMMA ReleasedTyped ==
  ASSUME Typed, NEW t \in Thread, Released(t), UNCHANGED program,
         thread[t].pc \in {"post", "postIfReady", "flush"}
  PROVE  /\ ThreadsTyped'
         /\ IF thread[t].kind = "aborted" THEN Lands(t, "dead", None, None, "aborted", NoWait)
            ELSE IF ~ Waits(t) THEN Stops(t)
            ELSE Lands(t, IF thread[t].wait.kind = "zero" THEN "read" ELSE "pulse", Obj(t), None,
                       thread[t].kind, thread[t].wait)
<1>1. /\ Obj(t) \in program.objects /\ thread[t] \in ThreadType
      /\ thread[t].kind = "timed" => "timed" \in program.enters
      /\ thread[t].wait # NoWait => thread[t].kind = "infinite"
  BY Knows DEF WithoutObject, Typed, ThreadsTyped, Local, Waits
<1> DEFINE r1 == [Idle EXCEPT !.pc = "dead", !.kind = "aborted"]
           p == IF thread[t].wait.kind = "zero" THEN "read" ELSE "pulse"
           r2 == [thread[t] EXCEPT !.pc = p, !.mon = None]
<1>2. Become(t, IF thread[t].kind = "aborted" THEN r1 ELSE IF ~ Waits(t) THEN Idle ELSE r2)
  BY Zenon DEF Released
<1>3. CASE thread[t].kind = "aborted"
  <2>1. /\ r1 \in ThreadType /\ r1.pc = "dead" /\ r1.kind = "aborted" /\ r1.wait = NoWait
        /\ r1.obj = None /\ r1.mon = None
    BY IdleTyped DEF ThreadType, PC, Idle
  <2> HIDE DEF r1, r2
  <2>2. Become(t, r1)
    BY <1>2, <1>3
  <2>3. ThreadsTyped'
    BY <2>1, <2>2, BecomeLocal DEF Typed, WithoutObject, WithMonitor, Coming
  <2>4. Lands(t, r1.pc, r1.obj, r1.mon, r1.kind, r1.wait)
    BY <2>2, BecomeLands DEF Typed
  <2> QED  BY <1>3, <2>1, <2>3, <2>4
<1>4. CASE thread[t].kind # "aborted" /\ ~ Waits(t)
  <2> HIDE DEF r1, r2
  <2>1. Become(t, Idle)
    BY <1>2, <1>4
  <2> QED  BY <1>4, <2>1, Stop, BecomeStops DEF Typed
<1>5. CASE thread[t].kind # "aborted" /\ Waits(t)
  <2>1. p \in {"read", "pulse"} /\ p \in PC
    BY DEF PC
  <2> HIDE DEF p
  <2>2. r2 \in ThreadType
    BY <1>1, <2>1 DEF ThreadType
  <2>3. r2.pc = p /\ r2.obj = Obj(t) /\ r2.mon = None /\ r2.kind = thread[t].kind
        /\ r2.kind = "infinite" /\ r2.wait = thread[t].wait /\ r2.wait # NoWait
    BY <1>1, <1>5 DEF ThreadType, Obj, Waits
  <2> HIDE DEF r1, r2
  <2>4. Become(t, r2)
    BY <1>2, <1>5
  <2>5. ThreadsTyped'
    BY <1>1, <2>1, <2>2, <2>3, <2>4, BecomeLocal DEF Typed, WithMonitor, Coming
  <2>6. Lands(t, r2.pc, r2.obj, r2.mon, r2.kind, r2.wait)
    BY <2>4, BecomeLands DEF Typed
  <2> QED  BY <1>5, <2>3, <2>5, <2>6 DEF p
<1> QED  BY <1>3, <1>4, <1>5

LEMMA TypedUnacquire ==
  ASSUME Typed, NEW t \in Thread, Unacquire(t), UNCHANGED program
  PROVE  Typed'
<1>1. Mon(t) \in Monitor /\ Obj(t) \in program.objects
  BY Knows DEF Unacquire, At, WithoutObject, WithMonitor
<1>2. owner' \in [Monitor -> Thread \cup {Free, Listed}]
  BY <1>1 DEF Unacquire, Typed, HeapTyped
<1>3. HeapTyped'
  BY <1>2 DEF Typed, HeapTyped, Unacquire, lists, pool
<1>4. CASE At(t, "hand") /\ Goto(t, "post")
  BY <1>1, <1>3, <1>4, Arrive DEF Typed, PC, Coming
<1>5. CASE At(t, "park") /\ Goto(t, "postIfReady")
  <2>1. thread[t].kind # "aborted"
    BY <1>5, Knows DEF At, WithoutObject
  <2> QED  BY <1>1, <1>3, <1>5, <2>1, Arrive DEF Typed, PC, Coming
<1> QED  BY <1>4, <1>5 DEF Unacquire, At

LEMMA PostTyped ==
  ASSUME Typed, NEW m \in Monitor, NEW n \in Nat, Post(m, n)
  PROVE  tokens' \in [Monitor -> 0 .. MaxTokens]
<1>1. tokens[m] \in Nat
  BY DEF Typed, HeapTyped
<1> QED  BY <1>1 DEF Post, Typed, HeapTyped

LEMMA TypedPostOne ==
  ASSUME Typed, NEW t \in Thread, PostOne(t), UNCHANGED program
  PROVE  Typed'
<1>1. Mon(t) \in Monitor
  BY Knows DEF PostOne, At, WithoutObject, WithMonitor
<1>2. tokens' \in [Monitor -> 0 .. MaxTokens]
  BY <1>1, PostTyped DEF PostOne
<1>3. HeapTyped'
  BY <1>2 DEF Typed, HeapTyped, PostOne, lists, pool
<1> QED  BY <1>3, ReleasedTyped DEF Typed, PostOne, At

LEMMA TypedPostIfReady ==
  ASSUME Typed, NEW t \in Thread, PostIfReady(t), UNCHANGED program
  PROVE  Typed'
<1>1. Mon(t) \in Monitor
  BY Knows DEF PostIfReady, At, WithoutObject, WithMonitor
<1>3. tokens' \in [Monitor -> 0 .. MaxTokens]
  <2>1. CASE Post(Mon(t), 1)
    BY <1>1, <2>1, PostTyped
  <2>2. CASE UNCHANGED tokens
    BY <2>2 DEF Typed, HeapTyped
  <2> QED  BY <2>1, <2>2 DEF PostIfReady
<1>4. HeapTyped'
  BY <1>3 DEF Typed, HeapTyped, PostIfReady, lists, pool
<1> QED  BY <1>4, ReleasedTyped DEF Typed, PostIfReady, At

LEMMA TypedDeflate ==
  ASSUME Typed, NEW t \in Thread, Deflate(t), UNCHANGED program
  PROVE  Typed'
<1>1. Mon(t) \in Monitor /\ Obj(t) \in program.objects /\ Obj(t) \in Object /\ thread[t].kind # "aborted"
  BY Knows DEF Deflate, At, WithoutObject, WithMonitor
<1>2. HeapTyped'
  BY <1>1 DEF Typed, HeapTyped, Deflate, lists, pool
<1>3. ThreadsTyped'
  BY <1>1, Arrive DEF Typed, PC, Coming, Deflate
<1> QED  BY <1>2, <1>3 DEF Typed

LEMMA TypedFlush ==
  ASSUME Typed, NEW t \in Thread, Flush(t), UNCHANGED program
  PROVE  Typed'
<1>1. Mon(t) \in Monitor /\ ready[Mon(t)] \in Nat
  BY Knows DEF Flush, At, WithoutObject, WithMonitor, Typed, HeapTyped
<1>2. tokens' \in [Monitor -> 0 .. MaxTokens]
  BY <1>1, PostTyped DEF Flush
<1>3. HeapTyped'
  BY <1>2 DEF Typed, HeapTyped, Flush, lists, pool
<1> QED  BY <1>3, SameThreads DEF Typed, Flush

LEMMA TypedReturnMonitor ==
  ASSUME Typed, NEW t \in Thread, ReturnMonitor(t), UNCHANGED program
  PROVE  Typed'
<1>1. Mon(t) \in Monitor
  BY Knows DEF ReturnMonitor, At, WithoutObject, WithMonitor
<1>2. owner' \in [Monitor -> Thread \cup {Free, Listed}] /\ freeList' \in Seq(Monitor)
  BY <1>1 DEF Typed, HeapTyped, ReturnMonitor, Recycle
<1>3. HeapTyped'
  BY <1>2 DEF Typed, HeapTyped, ReturnMonitor, lists, Recycle
<1> QED  BY <1>3, ReleasedTyped DEF Typed, ReturnMonitor, At

LEMMA TypedExitInnerAfterAbort ==
  ASSUME Typed, NEW t \in Thread, ExitInnerAfterAbort(t), UNCHANGED program
  PROVE  /\ Typed' /\ monitor[Obj(t)] \in aborted
         /\ Lands(t, "dead", None, None, thread[t].kind, NoWait)
<1>1. PICK m : /\ m = monitor[Obj(t)] /\ m \in aborted /\ m \in Monitor /\ locks[m] > 1
               /\ locks' = [locks EXCEPT ![m] = @ - 1]
  BY Knows DEF ExitInnerAfterAbort, LetPass, At, WithoutObject, Typed, HeapTyped
<1>2. locks' \in [Monitor -> 1 .. program.depth]
  BY <1>1 DEF Typed, HeapTyped
<1>3. HeapTyped'
  BY <1>2 DEF Typed, HeapTyped, ExitInnerAfterAbort, lists, pool
<1> DEFINE r == [Idle EXCEPT !.pc = "dead", !.kind = thread[t].kind]
<1>4. thread[t] \in ThreadType /\ (thread[t].kind = "timed" => "timed" \in program.enters)
  BY DEF Typed, ThreadsTyped, Local
<1>5. /\ r \in ThreadType /\ r.pc = "dead" /\ r.kind = thread[t].kind /\ r.wait = NoWait
      /\ r.obj = None /\ r.mon = None
  BY <1>4, IdleTyped DEF ThreadType, PC, Idle
<1>6. Become(t, r)
  BY DEF ExitInnerAfterAbort
<1> HIDE DEF r
<1>7. ThreadsTyped'
  BY <1>4, <1>6, <1>5, BecomeLocal DEF Typed, WithoutObject, WithMonitor, Coming
<1>8. Lands(t, r.pc, r.obj, r.mon, r.kind, r.wait)
  BY <1>6, BecomeLands DEF Typed
<1> QED  BY <1>1, <1>3, <1>7, <1>8, <1>5 DEF Typed

LEMMA TypedExitAfterAbort ==
  ASSUME Typed, CountsCover, NEW t \in Thread, ExitAfterAbort(t), UNCHANGED program
  PROVE  /\ Typed' /\ monitor[Obj(t)] \in aborted
         /\ Lands(t, "hand", Obj(t), monitor[Obj(t)], thread[t].kind, thread[t].wait)
<1> DEFINE m == monitor[Obj(t)]
           r == [thread[t] EXCEPT !.pc = "hand", !.mon = m]
<1>1. /\ Obj(t) \in program.objects /\ m \in Monitor /\ m \in aborted
      /\ thread[t].wait # NoWait => thread[t].kind = "infinite"
      /\ thread[t].kind = "timed" => "timed" \in program.enters
      /\ thread[t] \in ThreadType
  BY Knows DEF ExitAfterAbort, LetPass, At, WithoutObject, WithMonitor, Typed, ThreadsTyped, Local, Waits
<1>2. HeapTyped'
  BY DEF Typed, HeapTyped, ExitAfterAbort, heap, lists, pool
<1>3. ready[m] # 0
  <2>1. Cardinality(Counted(m)) + 1 <= ready[m]
    BY <1>1 DEF CountsCover
  <2>2. Cardinality(Counted(m)) \in Nat
    BY ThreadAssumption, FS_Subset, FS_CardinalityType DEF Counted
  <2> QED  BY <2>1, <2>2
<1>4. Become(t, r)
  <2>1. Become(t, [thread[t] EXCEPT !.pc = ExitWay(m), !.mon = m])
    BY DEF ExitAfterAbort
  <2>2. ExitWay(m) = "hand"
    BY <1>3, ExitWays
  <2> QED  BY <2>1, <2>2
<1>5. r \in ThreadType
  BY <1>1 DEF ThreadType, PC
<1>6. r.pc = "hand" /\ r.obj = Obj(t) /\ r.mon = m /\ r.kind = thread[t].kind /\ r.wait = thread[t].wait
  BY <1>1 DEF ThreadType, Obj
<1> HIDE DEF m, r
<1>7. ThreadsTyped'
  BY <1>1, <1>4, <1>5, <1>6, BecomeLocal DEF Typed, Coming
<1>8. Lands(t, r.pc, r.obj, r.mon, r.kind, r.wait)
  BY <1>4, BecomeLands DEF Typed
<1> QED  BY <1>1, <1>2, <1>6, <1>7, <1>8 DEF Typed, m

LEMMA TypedWait ==
  ASSUME Typed, NEW t \in Thread, Wait(t), UNCHANGED program
  PROVE  /\ Typed'
         /\ \E k \in program.waits :
              /\ k \in {"infinite", "timed", "zero"}
              /\ Lands(t, "exit", Obj(t), Mon(t), "infinite",
                       [depth |-> locks[Mon(t)], kind |-> k, pulsed |-> FALSE])
              /\ pulseList' = IF k = "zero" THEN pulseList
                              ELSE [pulseList EXCEPT ![Mon(t)] = <<t>> \o @]
<1>1. PICK k \in program.waits :
        /\ Become(t, [thread[t] EXCEPT !.pc = "exit", !.kind = "infinite",
                          !.wait = [depth |-> locks[Mon(t)], kind |-> k, pulsed |-> FALSE]])
        /\ pulseList' = IF k = "zero" THEN pulseList
                        ELSE [pulseList EXCEPT ![Mon(t)] = <<t>> \o @]
  BY DEF Wait
<1>2. /\ Obj(t) \in program.objects /\ Mon(t) \in Monitor /\ thread[t] \in ThreadType
      /\ locks[Mon(t)] \in 1 .. program.depth /\ k \in {"infinite", "timed", "zero"}
      /\ program.depth \in Nat \ {0}
  BY Knows DEF Wait, At, WithoutObject, WithMonitor, Typed, ThreadsTyped, HeapTyped
<1> DEFINE w == [depth |-> locks[Mon(t)], kind |-> k, pulsed |-> FALSE]
           r == [thread[t] EXCEPT !.pc = "exit", !.kind = "infinite", !.wait = w]
<1>3. pulseList' \in [Monitor -> Seq(Thread)]
  <2>1. pulseList[Mon(t)] \in Seq(Thread) /\ <<t>> \in Seq(Thread)
    BY <1>2 DEF Typed, HeapTyped
  <2>2. <<t>> \o pulseList[Mon(t)] \in Seq(Thread)
    BY <2>1, ConcatProperties
  <2> QED  BY <1>1, <2>2 DEF Typed, HeapTyped
<1>4. locks' \in [Monitor -> 1 .. program.depth]
  BY <1>2 DEF Wait, Typed, HeapTyped
<1>5. HeapTyped'
  BY <1>3, <1>4 DEF Typed, HeapTyped, Wait, pool
<1>6. w \in WaitType
  BY <1>2 DEF WaitType
<1>7. w # NoWait
  BY <1>2 DEF NoWait
<1> HIDE DEF w
<1>8. r \in ThreadType
  BY <1>2, <1>6 DEF ThreadType, PC
<1>9. r.pc = "exit" /\ r.obj = Obj(t) /\ r.mon = Mon(t) /\ r.kind = "infinite" /\ r.wait = w
  BY <1>2 DEF ThreadType, Obj, Mon
<1>10. Become(t, r)
  BY <1>1 DEF w
<1> HIDE DEF r
<1>11. ThreadsTyped'
  BY <1>2, <1>7, <1>8, <1>9, <1>10, BecomeLocal DEF Typed, Coming
<1>12. Lands(t, r.pc, r.obj, r.mon, r.kind, r.wait)
  BY <1>10, BecomeLands DEF Typed
<1>13. Lands(t, "exit", Obj(t), Mon(t), "infinite", w)
  BY <1>9, <1>12
<1> QED  BY <1>1, <1>2, <1>5, <1>11, <1>13 DEF Typed, w

LEMMA TypedPulsed ==
  ASSUME Typed, NEW t \in Thread, Pulsed(t), UNCHANGED program
  PROVE  /\ Typed' /\ [thread[t].wait EXCEPT !.pulsed = TRUE] # NoWait
         /\ Lands(t, "read", Obj(t), Mon(t), "infinite", [thread[t].wait EXCEPT !.pulsed = TRUE])
<1> DEFINE w == [thread[t].wait EXCEPT !.pulsed = TRUE]
           r == [thread[t] EXCEPT !.pc = "read", !.wait = w]
<1>1. /\ Obj(t) \in program.objects /\ thread[t] \in ThreadType /\ thread[t].wait # NoWait
      /\ thread[t].kind = "infinite"
  BY Knows DEF Pulsed, At, WithoutObject, Typed, ThreadsTyped, Local, Waits
<1>2. HeapTyped'
  BY DEF Typed, HeapTyped, Pulsed, heap, pool
<1>3. w \in WaitType /\ w # NoWait
  BY <1>1 DEF ThreadType, WaitType, NoWait
<1>4. Become(t, r)
  BY DEF Pulsed
<1> HIDE DEF w
<1>5. r \in ThreadType
  BY <1>1, <1>3 DEF ThreadType, PC
<1>6. r.pc = "read" /\ r.obj = Obj(t) /\ r.mon = Mon(t) /\ r.kind = "infinite" /\ r.wait = w
  BY <1>1 DEF ThreadType, Obj, Mon
<1> HIDE DEF r
<1>7. ThreadsTyped'
  BY <1>1, <1>3, <1>4, <1>5, <1>6, BecomeLocal DEF Typed, WithMonitor
<1>8. Lands(t, r.pc, r.obj, r.mon, r.kind, r.wait)
  BY <1>4, BecomeLands DEF Typed
<1> QED  BY <1>2, <1>3, <1>6, <1>7, <1>8 DEF Typed, w

LEMMA TypedWaitGivesUp ==
  ASSUME Typed, NEW t \in Thread, WaitGivesUp(t), UNCHANGED program
  PROVE  Typed'
<1>1. Obj(t) \in program.objects /\ thread[t].kind = "infinite"
  BY Knows DEF WaitGivesUp, At, WithoutObject, Typed, ThreadsTyped, Local
<1>2. HeapTyped'
  BY DEF Typed, HeapTyped, WaitGivesUp, heap, lists, pool
<1>3. ThreadsTyped'
  BY <1>1, Arrive DEF Typed, WaitGivesUp, PC, WithMonitor
<1> QED  BY <1>2, <1>3 DEF Typed

\* Unlinking takes the node off its list, if it is there, and nothing else.
LEMMA Unlinked ==
  ASSUME NEW s \in Seq(Thread), NEW t
  PROVE  /\ Unlink(s, t) \in Seq(Thread)
         /\ Range(Unlink(s, t)) \subseteq Range(s)
         /\ IsInjective(s) => IsInjective(Unlink(s, t)) /\ t \notin Range(Unlink(s, t))
<1>1. CASE \A i \in DOMAIN s : s[i] # t
  <2>1. Unlink(s, t) = s
    BY <1>1 DEF Unlink
  <2> QED  BY <1>1, <2>1 DEF Range
<1>2. CASE \E i \in DOMAIN s : s[i] = t
  <2> DEFINE i == CHOOSE i \in DOMAIN s : s[i] = t
  <2>1. i \in 1 .. Len(s) /\ s[i] = t
    BY <1>2
  <2> HIDE DEF i
  <2> DEFINE r == RemoveAt(s, i)
  <2>2. Unlink(s, t) = r
    BY <1>2 DEF Unlink, i
  <2>3. /\ r \in Seq(Thread) /\ Len(r) = Len(s) - 1
        /\ \A j \in 1 .. Len(r) : r[j] = IF j < i THEN s[j] ELSE s[j + 1]
    <3> DEFINE a == SubSeq(s, 1, i - 1)
               b == SubSeq(s, i + 1, Len(s))
    <3>1. a \in Seq(Thread) /\ Len(a) = i - 1 /\ \A j \in 1 .. i - 1 : a[j] = s[j]
      BY <2>1
    <3>2. b \in Seq(Thread) /\ Len(b) = Len(s) - i /\ \A j \in 1 .. Len(s) - i : b[j] = s[i + j]
      BY <2>1
    <3>3. r = a \o b
      BY DEF RemoveAt
    <3> HIDE DEF a, b, r
    <3>4. r \in Seq(Thread) /\ Len(r) = Len(s) - 1
      BY <2>1, <3>1, <3>2, <3>3, ConcatProperties
    <3>5. \A j \in 1 .. Len(r) : r[j] = IF j <= i - 1 THEN a[j] ELSE b[j - (i - 1)]
      BY <2>1, <3>1, <3>2, <3>3, <3>4, ConcatProperties
    <3>6. \A j \in 1 .. Len(r) : r[j] = IF j < i THEN s[j] ELSE s[j + 1]
      <4> TAKE j \in 1 .. Len(r)
      <4>1. CASE j < i
        BY <2>1, <3>1, <3>5, <4>1
      <4>2. CASE j >= i
        <5>1. r[j] = b[j - (i - 1)] /\ j - (i - 1) \in 1 .. Len(s) - i
          BY <2>1, <3>4, <3>5, <4>2
        <5>2. b[j - (i - 1)] = s[i + (j - (i - 1))]
          BY <3>2, <5>1
        <5>3. i + (j - (i - 1)) = j + 1
          BY <2>1
        <5> QED  BY <2>1, <4>2, <5>1, <5>2, <5>3
      <4> QED  BY <2>1, <4>1, <4>2
    <3> QED  BY <3>4, <3>6
  <2> HIDE DEF r
  <2>4. \A j \in 1 .. Len(r) : r[j] \in Range(s)
    BY <2>1, <2>3 DEF Range
  <2>5. Range(r) \subseteq Range(s)
    BY <2>3, <2>4 DEF Range
  <2>6. ASSUME IsInjective(s)
        PROVE  IsInjective(r) /\ t \notin Range(r)
    <3>1. \A j, k \in 1 .. Len(s) : s[j] = s[k] => j = k
      BY <2>6 DEF IsInjective
    <3>2. \A j \in 1 .. Len(r) : r[j] # t
      BY <2>1, <2>3, <3>1
    <3>3. \A j, k \in 1 .. Len(r) : r[j] = r[k] => j = k
      BY <2>1, <2>3, <3>1
    <3> QED  BY <2>3, <3>2, <3>3 DEF IsInjective, Range
  <2> QED  BY <2>2, <2>3, <2>5, <2>6
<1> QED  BY <1>1, <1>2

LEMMA TypedRestore ==
  ASSUME Typed, NEW t \in Thread, Restore(t), UNCHANGED program
  PROVE  Typed' /\ Lands(t, "held", Obj(t), Mon(t), "none", NoWait)
<1> DEFINE r == [thread[t] EXCEPT !.pc = "held", !.kind = "none", !.wait = NoWait]
<1>1. /\ Obj(t) \in program.objects /\ Mon(t) \in Monitor /\ thread[t] \in ThreadType
      /\ thread[t].wait # NoWait
  BY Knows DEF Restore, At, WithoutObject, WithMonitor, Typed, ThreadsTyped, Local, Waits
<1>2. thread[t].wait.depth \in 1 .. program.depth
  BY <1>1 DEF ThreadType, WaitType
<1>3. locks' \in [Monitor -> 1 .. program.depth]
  BY <1>1, <1>2 DEF Restore, Typed, HeapTyped
<1>4. Unlink(pulseList[Mon(t)], t) \in Seq(Thread)
  BY <1>1, Unlinked DEF Typed, HeapTyped
<1>5. pulseList' \in [Monitor -> Seq(Thread)]
  BY <1>4 DEF Restore, Typed, HeapTyped
<1>6. HeapTyped'
  BY <1>3, <1>5 DEF Typed, HeapTyped, Restore, pool
<1>7. r \in ThreadType
  BY <1>1, IdleTyped DEF ThreadType, PC
<1>8. r.pc = "held" /\ r.obj = Obj(t) /\ r.mon = Mon(t) /\ r.kind = "none" /\ r.wait = NoWait
  BY <1>1 DEF ThreadType, Obj, Mon
<1>9. Become(t, r)
  BY DEF Restore
<1> HIDE DEF r
<1>10. ThreadsTyped'
  BY <1>1, <1>7, <1>8, <1>9, BecomeLocal DEF Typed, Coming
<1>11. Lands(t, r.pc, r.obj, r.mon, r.kind, r.wait)
  BY <1>9, BecomeLands DEF Typed
<1> QED  BY <1>6, <1>8, <1>10, <1>11 DEF Typed

\* Pulse takes nodes off the front of the list and signals their threads.
LEMMA PulseTakes ==
  ASSUME Typed, NEW t \in Thread, Pulse(t)
  PROVE  \E n \in Nat \ {0} :
           /\ n <= Len(pulseList[Mon(t)]) /\ PulseFirst(t, n)
           /\ Mon(t) \in Monitor /\ pulseList[Mon(t)] \in Seq(Thread)
           /\ SubSeq(pulseList[Mon(t)], n + 1, Len(pulseList[Mon(t)])) \in Seq(Thread)
           /\ Range(SubSeq(pulseList[Mon(t)], 1, n)) \subseteq Range(pulseList[Mon(t)])
           /\ Range(pulseList[Mon(t)]) \subseteq Thread
<1>1. Mon(t) \in Monitor
  BY Knows DEF Pulse, At, WithoutObject, WithMonitor
<1>2. pulseList[Mon(t)] \in Seq(Thread) /\ pulseList[Mon(t)] # <<>>
  BY <1>1 DEF Typed, HeapTyped, Pulse
<1> DEFINE s == pulseList[Mon(t)]
<1>3. Len(s) \in Nat \ {0}
  BY <1>2, EmptySeq
<1>4. PICK n \in {1, Len(s)} : PulseFirst(t, n)
  BY DEF Pulse
<1>5. n \in Nat \ {0} /\ n <= Len(s)
  BY <1>3
<1>6. SubSeq(s, n + 1, Len(s)) \in Seq(Thread)
  BY <1>2, <1>3, <1>5
<1>7. Range(SubSeq(s, 1, n)) \subseteq Range(s) /\ Range(s) \subseteq Thread
  BY <1>2, <1>3, <1>5 DEF Range
<1> QED  BY <1>1, <1>2, <1>4, <1>5, <1>6, <1>7

LEMMA TypedPulse ==
  ASSUME Typed, NEW t \in Thread, Pulse(t), UNCHANGED program
  PROVE  Typed'
<1> DEFINE s == pulseList[Mon(t)]
<1>1. PICK n \in Nat \ {0} :
           /\ n <= Len(s) /\ PulseFirst(t, n)
           /\ Mon(t) \in Monitor /\ s \in Seq(Thread)
           /\ SubSeq(s, n + 1, Len(s)) \in Seq(Thread)
           /\ Range(SubSeq(s, 1, n)) \subseteq Range(s)
           /\ Range(s) \subseteq Thread
  BY PulseTakes
<1>2. pulseList' = [pulseList EXCEPT ![Mon(t)] = SubSeq(s, n + 1, Len(s))]
      /\ signalled' = signalled \cup Range(SubSeq(s, 1, n))
  BY <1>1 DEF PulseFirst
<1> HIDE DEF s
<1>3. pulseList' \in [Monitor -> Seq(Thread)] /\ signalled' \subseteq Thread
  BY <1>1, <1>2 DEF Typed, HeapTyped
<1>4. HeapTyped'
  BY <1>3 DEF Typed, HeapTyped, Pulse, heap, pool
<1> QED  BY <1>4, SameThreads DEF Typed, Pulse

-----------------------------------------------------------------------------
(* The ready counts                                                        *)

LEMMA FiniteCounts ==
  ASSUME NEW m
  PROVE  /\ IsFiniteSet(Counted(m)) /\ IsFiniteSet(Casualties)
         /\ IsFiniteSet(Counted(m) \cup Casualties)
         /\ Cardinality(Counted(m)) \in Nat
         /\ Cardinality(Counted(m) \cup Casualties) \in Nat
         /\ Cardinality(Counted(m) \cup Casualties) <= Cardinality(Thread)
         /\ Cardinality(Thread) \in Nat
<1>1. Counted(m) \subseteq Thread /\ Casualties \subseteq Thread
  BY DEF Counted, Casualties
<1> QED  BY <1>1, ThreadAssumption, FS_Subset, FS_CardinalityType

\* A step in which no thread enters or leaves a queue.
LEMMA CountsStay ==
  ASSUME Typed, CountsCover, NEW t \in Thread, NEW pc, NEW o, NEW m, NEW k, NEW w,
         Lands(t, pc, o, m, k, w), UNCHANGED <<ready, aborted>>,
         thread[t].pc \in Queued <=> pc \in Queued,
         pc \in Queued => m = Mon(t),
         thread[t].kind = "aborted" <=> k = "aborted", UNCHANGED program
  PROVE  CountsCover' /\ (AbortsAreRare => AbortsAreRare')
<1>1. ASSUME NEW n \in Monitor
      PROVE  Counted(n)' = Counted(n)
  BY DEF Counted, Lands, Mon
<1>2. Casualties' = Casualties
  BY DEF Casualties, Lands
<1>3. ASSUME NEW n \in Monitor
      PROVE  /\ Cardinality(Counted(n)') + (IF n \in aborted' THEN 1 ELSE 0) <= ready'[n]
             /\ ready'[n] <= Cardinality((Counted(n) \cup Casualties)')
  <2>1. /\ Cardinality(Counted(n)) + (IF n \in aborted THEN 1 ELSE 0) <= ready[n]
        /\ ready[n] <= Cardinality(Counted(n) \cup Casualties)
        /\ ready[n] \in Nat
    BY <1>3 DEF CountsCover, Typed, HeapTyped
  <2>2. IsFiniteSet((Counted(n) \cup Casualties)')
    <3>1. (Counted(n) \cup Casualties)' \subseteq Thread
      BY DEF Counted, Casualties
    <3> QED  BY <3>1, ThreadAssumption, FS_Subset
  <2>3. Counted(n) \cup Casualties \subseteq (Counted(n) \cup Casualties)'
    BY <1>1, <1>2, <1>3
  <2>4. /\ Cardinality(Counted(n) \cup Casualties) <= Cardinality((Counted(n) \cup Casualties)')
        /\ Cardinality((Counted(n) \cup Casualties)') \in Nat
    BY <2>2, <2>3, FS_Subset, FS_CardinalityType
  <2>5. ready[n] <= Cardinality((Counted(n) \cup Casualties)')
    BY <2>1, <2>4, FiniteCounts
  <2> QED  BY <1>1, <1>3, <2>1, <2>5
<1> QED  BY <1>2, <1>3 DEF CountsCover, AbortsAreRare

LEMMA CountsIdle ==
  ASSUME Typed, CountsCover, UNCHANGED <<ready, aborted, thread, program>>
  PROVE  CountsCover' /\ (AbortsAreRare => AbortsAreRare')
BY DEF AbortsAreRare, CountsCover, Counted, Casualties, Mon

LEMMA CountsLeave ==
  ASSUME Typed, CountsCover, NEW t \in Thread, NEW pc, NEW o, NEW m, NEW k, NEW w,
         Lands(t, pc, o, m, k, w), UNCHANGED aborted, Leave(Mon(t)),
         thread[t].pc \in Queued, pc \notin Queued, k # "aborted", UNCHANGED program
  PROVE  CountsCover' /\ (AbortsAreRare => AbortsAreRare')
<1>1. Mon(t) \in Monitor /\ ready[Mon(t)] \in Nat \ {0} /\ thread[t].kind # "aborted"
  BY Counts, Knows DEF Queued, WithoutObject
<1>2. ready' = [ready EXCEPT ![Mon(t)] = @ - 1] /\ ready \in [Monitor -> Nat]
  BY DEF Leave, Typed, HeapTyped
<1>3. ASSUME NEW n \in Monitor
      PROVE  Counted(n)' = Counted(n) \ {t}
  BY DEF Counted, Lands, Mon
<1>4. Casualties' = Casualties /\ t \notin Casualties
  BY <1>1 DEF Casualties, Lands
<1>5. ASSUME NEW n \in Monitor
      PROVE  /\ Cardinality(Counted(n)') + (IF n \in aborted' THEN 1 ELSE 0) <= ready'[n]
             /\ ready'[n] <= Cardinality((Counted(n) \cup Casualties)')
  <2> DEFINE S == Counted(n) \cup Casualties
  <2>1. /\ Cardinality(Counted(n)) + (IF n \in aborted THEN 1 ELSE 0) <= ready[n]
        /\ ready[n] <= Cardinality(S)
        /\ ready[n] \in Nat
    BY <1>5 DEF CountsCover, Typed, HeapTyped
  <2>2. IsFiniteSet(S') /\ Cardinality(S') \in Nat
    <3>1. S' \subseteq Thread
      BY DEF Counted, Casualties
    <3> QED  BY <3>1, ThreadAssumption, FS_Subset, FS_CardinalityType
  <2>3. S \ {t} \subseteq S'
    BY <1>3, <1>4, <1>5
  <2>4. Cardinality(S \ {t}) <= Cardinality(S') /\ IsFiniteSet(S \ {t})
    BY <2>2, <2>3, FS_Subset
  <2>5. IsFiniteSet(S) /\ IsFiniteSet(Counted(n)) /\ Cardinality(Counted(n)) \in Nat /\ Cardinality(S) \in Nat
    BY FiniteCounts
  <2>6. CASE n = Mon(t)
    <3>1. t \in Counted(n)
      BY <2>6 DEF Counted
    <3>2. Cardinality(Counted(n) \ {t}) = Cardinality(Counted(n)) - 1
      BY <2>5, <3>1, FS_RemoveElement
    <3>3. Cardinality(S \ {t}) = Cardinality(S) - 1
      BY <2>5, <3>1, FS_RemoveElement
    <3>4. ready'[n] = ready[n] - 1
      BY <1>2, <1>5, <2>6
    <3>5. Cardinality(Counted(n)') = Cardinality(Counted(n)) - 1
      BY <1>3, <1>5, <3>2
    <3> HIDE DEF S
    <3>6. Cardinality(Counted(n)') + (IF n \in aborted' THEN 1 ELSE 0) <= ready'[n]
      BY <2>1, <2>5, <3>4, <3>5
    <3>7. ready'[n] <= Cardinality(S')
      BY <2>1, <2>2, <2>4, <2>5, <3>3, <3>4
    <3> QED  BY <3>6, <3>7 DEF S
  <2>7. CASE n # Mon(t)
    <3>1. t \notin S
      BY <1>4, <2>7 DEF Counted
    <3>2. Counted(n)' = Counted(n) /\ S \ {t} = S
      BY <1>3, <1>5, <3>1
    <3>4. ready'[n] = ready[n]
      BY <1>2, <1>5, <2>7
    <3>5. Cardinality(S) <= Cardinality(S')
      BY <2>4, <3>2
    <3> HIDE DEF S
    <3>6. Cardinality(Counted(n)') + (IF n \in aborted' THEN 1 ELSE 0) <= ready'[n]
      BY <2>1, <2>5, <3>2, <3>4
    <3>7. ready'[n] <= Cardinality(S')
      BY <2>1, <2>2, <2>5, <3>4, <3>5
    <3> QED  BY <3>6, <3>7 DEF S
  <2> QED  BY <2>6, <2>7
<1> QED  BY <1>4, <1>5 DEF CountsCover, AbortsAreRare

LEMMA CountsJoin ==
  ASSUME Typed, CountsCover, NEW t \in Thread, Join(t), UNCHANGED program
  PROVE  CountsCover' /\ (AbortsAreRare => AbortsAreRare')
<1>1. Moves(t, "loop") /\ Mon(t) \in Monitor /\ thread[t].pc = "join" /\ thread[t].kind # "aborted"
  BY Knows, GotoMoves DEF Typed, Join, PC, At, WithoutObject, WithMonitor
<1>2. ready' = [ready EXCEPT ![Mon(t)] = @ + 1] /\ ready \in [Monitor -> Nat] /\ aborted' = aborted
  BY DEF Join, Typed, HeapTyped
<1>3. ASSUME NEW n \in Monitor
      PROVE  /\ Counted(n)' = IF n = Mon(t) THEN Counted(n) \cup {t} ELSE Counted(n)
             /\ t \notin Counted(n)
  BY <1>1 DEF Counted, Moves, Lands, Mon, Queued
<1>4. Casualties' = Casualties /\ t \notin Casualties
  BY <1>1 DEF Casualties, Moves, Lands
<1>5. ASSUME NEW n \in Monitor
      PROVE  /\ Cardinality(Counted(n)') + (IF n \in aborted' THEN 1 ELSE 0) <= ready'[n]
             /\ ready'[n] <= Cardinality((Counted(n) \cup Casualties)')
  <2> DEFINE S == Counted(n) \cup Casualties
  <2>1. /\ Cardinality(Counted(n)) + (IF n \in aborted THEN 1 ELSE 0) <= ready[n]
        /\ ready[n] <= Cardinality(S)
        /\ ready[n] \in Nat
    BY <1>5 DEF CountsCover, Typed, HeapTyped
  <2>5. IsFiniteSet(S) /\ IsFiniteSet(Counted(n)) /\ Cardinality(Counted(n)) \in Nat /\ Cardinality(S) \in Nat
    BY FiniteCounts
  <2>6. CASE n = Mon(t)
    <3>1. t \notin Counted(n) /\ t \notin S
      BY <1>3, <1>4, <1>5
    <3>2. Cardinality(Counted(n)') = Cardinality(Counted(n)) + 1
      BY <1>3, <1>5, <2>5, <2>6, <3>1, FS_AddElement
    <3>3. S' = S \cup {t}
      BY <1>3, <1>4, <1>5, <2>6
    <3>4. Cardinality(S') = Cardinality(S) + 1
      BY <2>5, <3>1, <3>3, FS_AddElement
    <3>5. ready'[n] = ready[n] + 1
      BY <1>2, <1>5, <2>6
    <3> HIDE DEF S
    <3>6. Cardinality(Counted(n)') + (IF n \in aborted' THEN 1 ELSE 0) <= ready'[n]
      BY <1>2, <2>1, <2>5, <3>2, <3>5
    <3>7. ready'[n] <= Cardinality(S')
      BY <2>1, <2>5, <3>4, <3>5
    <3> QED  BY <3>6, <3>7 DEF S
  <2>7. CASE n # Mon(t)
    BY <1>2, <1>3, <1>4, <1>5, <2>1, <2>7
  <2> QED  BY <2>6, <2>7
<1> QED  BY <1>2, <1>4, <1>5 DEF CountsCover, AbortsAreRare

LEMMA CountsAbort ==
  ASSUME Typed, CountsCover, NEW t \in Thread, EnterIsAborted(t), UNCHANGED program
  PROVE  CountsCover' /\ (AbortsAreRare => AbortsAreRare')
<1>1. Lands(t, "aborted", Obj(t), Mon(t), "aborted", NoWait) /\ Mon(t) \in Monitor /\ thread[t].pc = "sleep"
      /\ thread[t].kind # "aborted"
  BY Knows, TypedEnterIsAborted DEF EnterIsAborted, At, WithoutObject, WithMonitor
<1>2. ready' = ready /\ aborted' = aborted \cup {Mon(t)} /\ ready \in [Monitor -> Nat]
  BY DEF EnterIsAborted, Typed, HeapTyped
<1>3. ASSUME NEW n \in Monitor
      PROVE  /\ Counted(n)' = IF n = Mon(t) THEN Counted(n) \ {t} ELSE Counted(n)
             /\ n = Mon(t) => t \in Counted(n)
  BY <1>1 DEF Counted, Lands, Mon, Queued
<1>4. Casualties' = Casualties \cup {t}
  BY <1>1 DEF Casualties, Lands
<1>5. ASSUME NEW n \in Monitor
      PROVE  /\ Cardinality(Counted(n)') + (IF n \in aborted' THEN 1 ELSE 0) <= ready'[n]
             /\ ready'[n] <= Cardinality((Counted(n) \cup Casualties)')
  <2> DEFINE S == Counted(n) \cup Casualties
  <2>1. /\ Cardinality(Counted(n)) + (IF n \in aborted THEN 1 ELSE 0) <= ready[n]
        /\ ready[n] <= Cardinality(S)
        /\ ready[n] \in Nat
    BY <1>5 DEF CountsCover, Typed, HeapTyped
  <2>2. IsFiniteSet(S') /\ Cardinality(S') \in Nat
    <3>1. S' \subseteq Thread
      BY DEF Counted, Casualties
    <3> QED  BY <3>1, ThreadAssumption, FS_Subset, FS_CardinalityType
  <2>3. S \subseteq S'
    BY <1>3, <1>4, <1>5
  <2>4. Cardinality(S) <= Cardinality(S')
    BY <2>2, <2>3, FS_Subset
  <2>5. IsFiniteSet(Counted(n)) /\ Cardinality(Counted(n)) \in Nat /\ Cardinality(S) \in Nat
    BY FiniteCounts
  <2> HIDE DEF S
  <2>6. ready'[n] <= Cardinality(S')
    BY <1>2, <2>1, <2>2, <2>4, <2>5
  <2>7. Cardinality(Counted(n)') + (IF n \in aborted' THEN 1 ELSE 0) <= ready'[n]
    <3>1. CASE n = Mon(t)
      <4>1. Cardinality(Counted(n)') = Cardinality(Counted(n)) - 1
        BY <1>3, <1>5, <2>5, <3>1, FS_RemoveElement
      <4>2. n \in aborted'
        BY <1>2, <3>1
      <4>3. Cardinality(Counted(n)) <= ready[n]
        BY <2>1, <2>5
      <4> QED  BY <1>2, <2>1, <2>5, <4>1, <4>2, <4>3
    <3>2. CASE n # Mon(t)
      BY <1>2, <1>3, <1>5, <2>1, <3>2
    <3> QED  BY <3>1, <3>2
  <2> QED  BY <2>6, <2>7 DEF S
<1>6. program.aborts # 0
  <2>1. IsFiniteSet(Casualties) /\ Cardinality(Casualties) \in Nat
    BY FiniteCounts, FS_CardinalityType
  <2>2. Cardinality(Casualties) < program.aborts
    BY DEF EnterIsAborted, Casualties
  <2> QED  BY <2>1, <2>2
<1> QED  BY <1>5, <1>6 DEF CountsCover, AbortsAreRare

\* The part of the invariant that holds of every program.
Basics == Typed /\ CountsCover /\ AbortsAreRare

LEMMA BasicsInit ==
  Init => Basics
<1> SUFFICES ASSUME Init PROVE Basics
  OBVIOUS
<1>1. HeapTyped
  <2>1. program.depth \in Nat \ {0}
    BY DEF Init
  <2> QED  BY <2>1 DEF HeapTyped, Init
<1>2. ThreadsTyped
  BY IdleTyped DEF Init, ThreadsTyped, Local, Idle, Obj, Mon, Waits, WithoutObject, WithMonitor, Coming
<1>3. Casualties = {} /\ \A m \in Monitor : Counted(m) = {}
  BY DEF Init, Casualties, Counted, Idle, Queued
<1>4. CountsCover
  <2> SUFFICES ASSUME NEW m \in Monitor
               PROVE  /\ Cardinality(Counted(m)) + (IF m \in aborted THEN 1 ELSE 0) <= ready[m]
                      /\ ready[m] <= Cardinality(Counted(m) \cup Casualties)
    BY DEF CountsCover
  <2>1. ready[m] = 0 /\ m \notin aborted
    BY DEF Init
  <2>2. Counted(m) = {} /\ Counted(m) \cup Casualties = {}
    BY <1>3
  <2>3. Cardinality(Counted(m)) = 0 /\ Cardinality(Counted(m) \cup Casualties) = 0
    BY <2>2, FS_EmptySet
  <2> QED  BY <2>1, <2>3
<1>5. AbortsAreRare
  BY <1>3 DEF AbortsAreRare, Init
<1> QED  BY <1>1, <1>2, <1>4, <1>5 DEF Basics, Typed

\* Entered leads to the end of Wait or to the program.
LEMMA EnteredMoves ==
  ASSUME Typed, NEW t \in Thread, Entered(t)
  PROVE  Moves(t, IF Waits(t) THEN "restore" ELSE "held")
BY GotoMoves DEF Typed, Entered, PC

LEMMA BasicsEnter ==
  ASSUME Basics, NEW t \in Thread, Enter(t), UNCHANGED program
  PROVE  Basics'
<1>1. Typed' /\ \E o \in program.objects, k \in program.enters : Lands(t, "read", o, None, k, NoWait)
  BY TypedEnter DEF Basics
<1>2. thread[t].pc = "idle" /\ thread[t].kind # "aborted" /\ UNCHANGED <<ready, aborted>>
  BY DEF Enter, At, heap, Basics, Typed, ThreadsTyped, Local
<1>3. \A k \in program.enters : k # "aborted"
  BY DEF Basics, Typed, HeapTyped
<1> QED  BY <1>1, <1>2, <1>3, CountsStay DEF Basics, Queued

LEMMA BasicsReadMonitor ==
  ASSUME Basics, NEW t \in Thread, ReadMonitor(t), UNCHANGED program
  PROVE  Basics'
<1>1. Typed' /\ Lands(t, IF monitor[Obj(t)] = None THEN "allocate" ELSE "try", Obj(t),
                      monitor[Obj(t)], thread[t].kind, thread[t].wait)
  BY TypedReadMonitor DEF Basics
<1>2. thread[t].pc = "read" /\ UNCHANGED <<ready, aborted>>
  BY DEF ReadMonitor, At, heap
<1> QED  BY <1>1, <1>2, CountsStay DEF Basics, Queued

LEMMA BasicsAllocate ==
  ASSUME Basics, NEW t \in Thread, Allocate(t), UNCHANGED program
  PROVE  Basics'
<1>1. Typed' /\ \E m : Lands(t, "install", Obj(t), m, thread[t].kind, thread[t].wait)
  BY TypedAllocate DEF Basics
<1>2. thread[t].pc = "allocate" /\ UNCHANGED <<ready, aborted>>
  BY DEF Allocate, At
<1> QED  BY <1>1, <1>2, CountsStay DEF Basics, Queued

LEMMA BasicsInstall ==
  ASSUME Basics, NEW t \in Thread, Install(t), UNCHANGED program
  PROVE  Basics'
<1>1. Typed'
  BY TypedInstall DEF Basics
<1>2. thread[t].pc = "install" /\ UNCHANGED <<ready, aborted>>
  BY DEF Install, At
<1>3. Moves(t, "held") \/ Moves(t, "restore") \/ Moves(t, "read")
  BY EnteredMoves, GotoMoves DEF Install, Basics, Typed, PC
<1> QED  BY <1>1, <1>2, <1>3, CountsStay DEF Basics, Queued, Moves

LEMMA BasicsTry ==
  ASSUME Basics, NEW t \in Thread, Try(t), UNCHANGED program
  PROVE  Basics'
<1>1. Typed'
  BY TypedTry DEF Basics
<1>2. thread[t].pc = "try" /\ UNCHANGED <<ready, aborted>> /\ thread[t].kind # "aborted"
  BY DEF Try, At, Basics, Typed, ThreadsTyped, Local
<1>3. Moves(t, "verify") \/ Moves(t, "join") \/ Stops(t)
  BY BecomeStops, GotoMoves DEF Try, Basics, Typed, PC
<1> QED  BY <1>1, <1>2, <1>3, CountsStay DEF Basics, Queued, Moves, Stops

LEMMA BasicsVerify ==
  ASSUME Basics, NEW t \in Thread, Verify(t), UNCHANGED program
  PROVE  Basics'
<1>1. Typed'
  BY TypedVerify DEF Basics
<1>2. thread[t].pc = "verify" /\ UNCHANGED <<ready, aborted>>
  BY DEF Verify, At
<1>3. Moves(t, "held") \/ Moves(t, "restore") \/ Moves(t, "read")
  BY EnteredMoves, GotoMoves DEF Verify, Basics, Typed, PC
<1> QED  BY <1>1, <1>2, <1>3, CountsStay DEF Basics, Queued, Moves

LEMMA BasicsLoop ==
  ASSUME Basics, NEW t \in Thread, Loop(t), UNCHANGED program
  PROVE  Basics'
<1>1. Typed'
  BY TypedLoop DEF Basics
<1>2. thread[t].pc = "loop" /\ aborted' = aborted /\ thread[t].kind # "aborted"
  BY DEF Loop, At, Basics, Typed, ThreadsTyped, Local
<1>3. CASE Goto(t, "grab") /\ UNCHANGED ready
  <2>1. Moves(t, "grab")
    BY <1>3, GotoMoves DEF Basics, Typed, PC
  <2> QED  BY <1>1, <1>2, <1>3, <2>1, CountsStay DEF Basics, Queued, Moves
<1>4. CASE Goto(t, "read") /\ Leave(Mon(t))
  <2>1. Moves(t, "read")
    BY <1>4, GotoMoves DEF Basics, Typed, PC
  <2> QED  BY <1>1, <1>2, <1>4, <2>1, CountsLeave DEF Basics, Queued, Moves
<1> QED  BY <1>3, <1>4 DEF Loop

LEMMA BasicsGrab ==
  ASSUME Basics, NEW t \in Thread, Grab(t), UNCHANGED program
  PROVE  Basics'
<1>1. Typed'
  BY TypedGrab DEF Basics
<1>2. thread[t].pc = "grab" /\ aborted' = aborted /\ thread[t].kind # "aborted"
  BY DEF Grab, At, Basics, Typed, ThreadsTyped, Local
<1>3. CASE Goto(t, "sleep") /\ UNCHANGED ready
  <2>1. Moves(t, "sleep")
    BY <1>3, GotoMoves DEF Basics, Typed, PC
  <2> QED  BY <1>1, <1>2, <1>3, <2>1, CountsStay DEF Basics, Queued, Moves
<1>4. CASE Entered(t) /\ Leave(Mon(t))
  <2>1. Moves(t, "held") \/ Moves(t, "restore")
    BY <1>4, EnteredMoves DEF Basics
  <2> QED  BY <1>1, <1>2, <1>4, <2>1, CountsLeave DEF Basics, Queued, Moves
<1> QED  BY <1>3, <1>4 DEF Grab

LEMMA BasicsWake ==
  ASSUME Basics, NEW t \in Thread, Wake(t), UNCHANGED program
  PROVE  Basics'
<1>1. Typed'
  BY TypedWake DEF Basics
<1>2. thread[t].pc = "sleep" /\ UNCHANGED <<ready, aborted>>
  BY DEF Wake, At
<1>3. Moves(t, "loop")
  BY GotoMoves DEF Wake, Basics, Typed, PC
<1> QED  BY <1>1, <1>2, <1>3, CountsStay DEF Basics, Queued, Moves

LEMMA BasicsEnterTimesOut ==
  ASSUME Basics, NEW t \in Thread, EnterTimesOut(t), UNCHANGED program
  PROVE  Basics'
<1>1. Typed'
  BY TypedEnterTimesOut DEF Basics
<1>2. thread[t].pc = "sleep" /\ aborted' = aborted /\ thread[t].kind = "timed" /\ Leave(Mon(t))
  BY DEF EnterTimesOut, At
<1>3. Moves(t, "lastRead") \/ Stops(t)
  BY GotoMoves, BecomeStops DEF EnterTimesOut, Basics, Typed, PC
<1> QED  BY <1>1, <1>2, <1>3, CountsLeave DEF Basics, Queued, Moves, Stops

LEMMA BasicsLastRead ==
  ASSUME Basics, NEW t \in Thread, LastRead(t), UNCHANGED program
  PROVE  Basics'
<1>1. Typed'
  BY TypedLastRead DEF Basics
<1>2. thread[t].pc = "lastRead" /\ UNCHANGED <<ready, aborted>> /\ thread[t].kind # "aborted"
  BY DEF LastRead, At, heap, Basics, Typed, ThreadsTyped, Local
<1>3. Moves(t, "lastGrab") \/ Stops(t)
  BY GotoMoves, BecomeStops DEF LastRead, Basics, Typed, PC
<1> QED  BY <1>1, <1>2, <1>3, CountsStay DEF Basics, Queued, Moves, Stops

LEMMA BasicsLastGrab ==
  ASSUME Basics, NEW t \in Thread, LastGrab(t), UNCHANGED program
  PROVE  Basics'
<1>1. Typed'
  BY TypedLastGrab DEF Basics
<1>2. thread[t].pc = "lastGrab" /\ UNCHANGED <<ready, aborted>> /\ thread[t].kind # "aborted"
  BY DEF LastGrab, At, Basics, Typed, ThreadsTyped, Local
<1>3. Moves(t, "held") \/ Moves(t, "restore") \/ Stops(t)
  BY EnteredMoves, BecomeStops DEF LastGrab, Basics, Typed
<1> QED  BY <1>1, <1>2, <1>3, CountsStay DEF Basics, Queued, Moves, Stops

LEMMA BasicsEnterIsInterrupted ==
  ASSUME Basics, NEW t \in Thread, EnterIsInterrupted(t), UNCHANGED program
  PROVE  Basics'
<1>1. Typed' /\ (Lands(t, "thrown", None, None, "none", NoWait) \/ Stops(t))
  BY TypedEnterIsInterrupted DEF Basics
<1>2. thread[t].pc = "sleep" /\ aborted' = aborted /\ Leave(Mon(t))
  BY DEF EnterIsInterrupted, At
<1> QED  BY <1>1, <1>2, CountsLeave DEF Basics, Queued, Stops

LEMMA BasicsEnterIsAborted ==
  ASSUME Basics, NEW t \in Thread, EnterIsAborted(t), UNCHANGED program
  PROVE  Basics'
BY TypedEnterIsAborted, CountsAbort DEF Basics

LEMMA BasicsExitOuter ==
  ASSUME Basics, NEW t \in Thread, ExitOuter(t), UNCHANGED program
  PROVE  Basics'
<1>1. Typed'
  BY TypedExitOuter DEF Basics
<1>2. thread[t].pc \in {"exit", "held"} /\ UNCHANGED <<ready, aborted>>
  BY DEF ExitOuter, At, heap
<1>3. Moves(t, ExitWay(Mon(t))) /\ ExitWay(Mon(t)) \in {"hand", "park", "deflate"}
  BY ExitWays, GotoMoves DEF ExitOuter, Basics, Typed, PC
<1> QED  BY <1>1, <1>2, <1>3, CountsStay DEF Basics, Queued, Moves

LEMMA BasicsUnacquire ==
  ASSUME Basics, NEW t \in Thread, Unacquire(t), UNCHANGED program
  PROVE  Basics'
<1>1. Typed'
  BY TypedUnacquire DEF Basics
<1>2. thread[t].pc \in {"hand", "park"} /\ UNCHANGED <<ready, aborted>>
  BY DEF Unacquire, At
<1>3. Moves(t, "post") \/ Moves(t, "postIfReady")
  BY GotoMoves DEF Unacquire, Basics, Typed, PC
<1> QED  BY <1>1, <1>2, <1>3, CountsStay DEF Basics, Queued, Moves

LEMMA BasicsReleased ==
  ASSUME Basics, NEW t \in Thread, Released(t), UNCHANGED <<program, ready, aborted>>,
         thread[t].pc \in {"post", "postIfReady", "flush"}, Typed'
  PROVE  Basics'
<1>1. IF thread[t].kind = "aborted" THEN Lands(t, "dead", None, None, "aborted", NoWait)
      ELSE IF ~ Waits(t) THEN Stops(t)
      ELSE Lands(t, IF thread[t].wait.kind = "zero" THEN "read" ELSE "pulse", Obj(t), None,
                 thread[t].kind, thread[t].wait)
  BY ReleasedTyped DEF Basics
<1> QED  BY <1>1, CountsStay DEF Basics, Queued, Stops

LEMMA BasicsDeflate ==
  ASSUME Basics, NEW t \in Thread, Deflate(t), UNCHANGED program
  PROVE  Basics'
<1>1. Typed'
  BY TypedDeflate DEF Basics
<1>2. thread[t].pc = "deflate" /\ UNCHANGED <<ready, aborted>>
  BY DEF Deflate, At
<1>3. Moves(t, "flush")
  BY GotoMoves DEF Deflate, Basics, Typed, PC
<1> QED  BY <1>1, <1>2, <1>3, CountsStay DEF Basics, Queued, Moves

LEMMA BasicsExitInnerAfterAbort ==
  ASSUME Basics, NEW t \in Thread, ExitInnerAfterAbort(t), UNCHANGED program
  PROVE  Basics'
<1>1. Typed' /\ Lands(t, "dead", None, None, thread[t].kind, NoWait)
  BY TypedExitInnerAfterAbort DEF Basics
<1>2. thread[t].pc = "aborted" /\ UNCHANGED <<ready, aborted>>
  BY DEF ExitInnerAfterAbort, LetPass, At
<1> QED  BY <1>1, <1>2, CountsStay DEF Basics, Queued

LEMMA BasicsExitAfterAbort ==
  ASSUME Basics, NEW t \in Thread, ExitAfterAbort(t), UNCHANGED program
  PROVE  Basics'
<1>1. Typed' /\ Lands(t, "hand", Obj(t), monitor[Obj(t)], thread[t].kind, thread[t].wait)
  BY TypedExitAfterAbort DEF Basics
<1>2. thread[t].pc = "aborted" /\ UNCHANGED <<ready, aborted>>
  BY DEF ExitAfterAbort, LetPass, At, heap
<1> QED  BY <1>1, <1>2, CountsStay DEF Basics, Queued

LEMMA BasicsWait ==
  ASSUME Basics, NEW t \in Thread, Wait(t), UNCHANGED program
  PROVE  Basics'
<1>1. Typed' /\ \E w : Lands(t, "exit", Obj(t), Mon(t), "infinite", w)
  BY TypedWait DEF Basics
<1>2. thread[t].pc = "held" /\ UNCHANGED <<ready, aborted>> /\ thread[t].kind # "aborted"
  BY DEF Wait, At, Basics, Typed, ThreadsTyped, Local
<1> QED  BY <1>1, <1>2, CountsStay DEF Basics, Queued

LEMMA BasicsPulsed ==
  ASSUME Basics, NEW t \in Thread, Pulsed(t), UNCHANGED program
  PROVE  Basics'
<1>1. Typed' /\ \E w : Lands(t, "read", Obj(t), Mon(t), "infinite", w)
  BY TypedPulsed DEF Basics
<1>2. thread[t].pc = "pulse" /\ UNCHANGED <<ready, aborted>> /\ thread[t].kind # "aborted"
  BY DEF Pulsed, At, heap, Basics, Typed, ThreadsTyped, Local
<1> QED  BY <1>1, <1>2, CountsStay DEF Basics, Queued

LEMMA BasicsWaitGivesUp ==
  ASSUME Basics, NEW t \in Thread, WaitGivesUp(t), UNCHANGED program
  PROVE  Basics'
<1>1. Typed'
  BY TypedWaitGivesUp DEF Basics
<1>2. thread[t].pc = "pulse" /\ UNCHANGED <<ready, aborted>>
  BY DEF WaitGivesUp, At, heap
<1>3. Moves(t, "read")
  BY GotoMoves DEF WaitGivesUp, Basics, Typed, PC
<1> QED  BY <1>1, <1>2, <1>3, CountsStay DEF Basics, Queued, Moves

LEMMA BasicsRestore ==
  ASSUME Basics, NEW t \in Thread, Restore(t), UNCHANGED program
  PROVE  Basics'
<1>1. Typed' /\ Lands(t, "held", Obj(t), Mon(t), "none", NoWait)
  BY TypedRestore DEF Basics
<1>2. thread[t].pc = "restore" /\ UNCHANGED <<ready, aborted>> /\ thread[t].kind # "aborted"
  BY DEF Restore, At, Basics, Typed, ThreadsTyped, Local
<1> QED  BY <1>1, <1>2, CountsStay DEF Basics, Queued

LEMMA BasicsStep ==
  ASSUME Basics, [Next]_vars
  PROVE  Basics'
<1>1. CASE UNCHANGED vars
  <2>1. ThreadsTyped'
    BY <1>1, SameThreads DEF vars, state, Basics, Typed
  <2>2. HeapTyped'
    BY <1>1 DEF vars, state, heap, lists, pool, Basics, Typed, HeapTyped
  <2>3. CountsCover' /\ AbortsAreRare'
    BY <1>1, CountsIdle DEF vars, state, heap, Basics
  <2> QED  BY <2>1, <2>2, <2>3 DEF Basics, Typed
<1>2. CASE Next
  <2>1. UNCHANGED program
    BY <1>2 DEF Next
  <2>2. PICK t \in Thread : Program(t) \/ Run(t) \/ Disturbance(t)
    BY <1>2 DEF Next
  <2>3. CASE Program(t)
    <3>1. CASE Reenter(t) \/ Pulse(t) \/ ExitInner(t)
      <4>1. UNCHANGED <<ready, aborted, thread>>
        BY <3>1 DEF Reenter, Pulse, ExitInner, heap
      <4> QED  BY <2>1, <3>1, <4>1, CountsIdle, TypedReenter, TypedPulse, TypedExitInner DEF Basics
    <3> QED  BY <2>1, <2>3, <3>1, BasicsEnter, BasicsWait, BasicsExitOuter DEF Program, Leaves
  <2>4. CASE Run(t)
    <3>1. CASE Flush(t)
      BY <2>1, <3>1, TypedFlush, CountsIdle DEF Flush, Basics
    <3>2. CASE PostOne(t)
      BY <2>1, <3>2, TypedPostOne, BasicsReleased DEF PostOne, At, Basics
    <3>3. CASE PostIfReady(t)
      BY <2>1, <3>3, TypedPostIfReady, BasicsReleased DEF PostIfReady, At, Basics
    <3>4. CASE ReturnMonitor(t)
      BY <2>1, <3>4, TypedReturnMonitor, BasicsReleased DEF ReturnMonitor, At, Basics
    <3>5. CASE Join(t)
      BY <2>1, <3>5, TypedJoin, CountsJoin DEF Basics
    <3> QED  BY <2>1, <2>4, <3>1, <3>2, <3>3, <3>4, <3>5, BasicsReadMonitor, BasicsAllocate,
                BasicsInstall, BasicsTry, BasicsVerify, BasicsLoop, BasicsGrab, BasicsWake,
                BasicsLastRead, BasicsLastGrab, BasicsUnacquire, BasicsDeflate, BasicsPulsed,
                BasicsRestore DEF Run
  <2>5. CASE Disturbance(t)
    BY <2>1, <2>5, BasicsEnterTimesOut, BasicsWaitGivesUp, BasicsEnterIsInterrupted,
       BasicsEnterIsAborted, BasicsExitInnerAfterAbort, BasicsExitAfterAbort DEF Disturbance
  <2> QED  BY <2>2, <2>3, <2>4, <2>5
<1> QED  BY <1>1, <1>2

\* Every variable keeps its type; the ready count of a monitor never goes below
\* the number of threads in its queue nor above the number of threads.
THEOREM TypeCorrect ==
  Spec => []TypeOK
<1>1. Spec => []Basics
  BY BasicsInit, BasicsStep, PTL DEF Spec
<1>2. Basics => TypeOK
  <2> SUFFICES ASSUME Basics PROVE TypeOK
    OBVIOUS
  <2>1. ready \in [Monitor -> 0 .. Cardinality(Thread)]
    <3>1. ASSUME NEW m \in Monitor
          PROVE  ready[m] \in Nat /\ ready[m] <= Cardinality(Thread)
      <4>1. ready[m] \in Nat /\ ready[m] <= Cardinality(Counted(m) \cup Casualties)
        BY DEF Basics, CountsCover, Typed, HeapTyped
      <4>2. /\ Cardinality(Counted(m) \cup Casualties) <= Cardinality(Thread)
            /\ Cardinality(Counted(m) \cup Casualties) \in Nat /\ Cardinality(Thread) \in Nat
        BY FiniteCounts
      <4> QED  BY <4>1, <4>2
    <3> QED  BY <3>1, FS_CardinalityType, ThreadAssumption DEF Basics, Typed, HeapTyped
  <2>2. \A t \in Thread : Obj(t) \in Object \cup {None} /\ Mon(t) \in Monitor \cup {None}
    BY DEF Basics, Typed, ThreadsTyped, ThreadType, Obj, Mon
  <2> QED  BY <2>1, <2>2 DEF TypeOK, Basics, Typed, HeapTyped
<1> QED  BY <1>1, <1>2, PTL

-----------------------------------------------------------------------------
(* Who owns and has which monitor, while monitors keep their object        *)

\* where a thread owns the monitor it refers to and where it knows that its
\* object has this monitor, unless a thread was aborted there
Owning == {"install", "verify", "held", "exit", "hand", "park", "deflate", "flush", "restore"}
Having == {"held", "exit", "hand", "park", "deflate", "restore"}
Available == Range(freeList) \cup fresh
Quiet(m) == m \notin aborted
Installed(m) == \E o \in Object : monitor[o] = m

OwnersOwn ==
  \A t \in Thread : thread[t].pc \in Owning /\ Quiet(Mon(t)) => owner[Mon(t)] = t

HoldersHave ==
  \A t \in Thread :
    /\ thread[t].pc \in Having /\ Quiet(Mon(t)) => monitor[Obj(t)] = Mon(t)
    /\ thread[t].pc = "deflate" => monitor[Obj(t)] = Mon(t)
    /\ thread[t].pc \in {"install", "flush"} => \A o \in Object : monitor[o] # Mon(t)
    /\ thread[t].pc = "install" => Quiet(Mon(t))

OneDeflates ==
  \A t, u \in Thread :
    thread[t].pc \in {"deflate", "flush"} /\ thread[u].pc \in {"deflate", "flush"} /\ Mon(t) = Mon(u)
      => t = u

OneOfEach ==
  /\ \A o \in Object : monitor[o] # None => o \in program.objects
  /\ \A o, p \in Object : monitor[o] # None /\ monitor[o] = monitor[p] => o = p

FreeIsUnused ==
  /\ FreeMonitorsAreClean
  /\ Available \cap aborted = {}
  /\ \A t \in Thread :
       thread[t].pc \in {"grab", "sleep"} =>
         /\ Mon(t) \notin Available
         /\ \A u \in Thread : thread[u].pc = "install" => Mon(u) # Mon(t)

FreeIsInstalled ==
  /\ \A m \in Monitor : owner[m] = Free /\ Quiet(m) => Installed(m)
  /\ \A t \in Thread : thread[t].pc = "verify" /\ Quiet(Mon(t)) => Installed(Mon(t))

SleepersStay ==
  \A t \in Thread :
    thread[t].pc \in {"grab", "sleep"} /\ Quiet(Mon(t)) =>
      monitor[Obj(t)] = Mon(t) \/ \E u \in Thread : thread[u].pc = "flush" /\ Mon(u) = Mon(t)

UnlockedOnce ==
  /\ \A m \in Monitor : owner[m] = Free /\ Quiet(m) => locks[m] = 1
  /\ \A t \in Thread : thread[t].pc \in Owning \ {"held"} /\ Quiet(Mon(t)) => locks[Mon(t)] = 1

NoNodesLeft ==
  \A t \in Thread :
    thread[t].pc \in {"deflate", "flush", "install"} /\ Quiet(Mon(t)) => pulseList[Mon(t)] = <<>>

Order ==
  /\ OwnersOwn /\ HoldersHave /\ OneDeflates /\ OneOfEach /\ FreeIsUnused
  /\ FreeIsInstalled /\ SleepersStay /\ UnlockedOnce /\ NoNodesLeft

LEMMA OrderInit ==
  Init => Order
<1> SUFFICES ASSUME Init PROVE Order
  OBVIOUS
<1>1. \A t \in Thread : thread[t].pc = "idle"
  BY DEF Init, Idle
<1>2. FreeIsUnused
  <2>1. Available = Monitor /\ Range(freeList) = {} /\ IsInjective(freeList)
    BY DEF Init, Available, Range, IsInjective
  <2> QED  BY <1>1, <2>1 DEF FreeIsUnused, FreeMonitorsAreClean, Init
<1>3. OwnersOwn /\ HoldersHave /\ OneDeflates /\ SleepersStay /\ NoNodesLeft
  BY <1>1 DEF OwnersOwn, HoldersHave, OneDeflates, SleepersStay, NoNodesLeft, Owning, Having
<1>4. OneOfEach /\ FreeIsInstalled /\ UnlockedOnce
  BY <1>1 DEF OneOfEach, FreeIsInstalled, UnlockedOnce, Owning, Init
<1> QED  BY <1>2, <1>3, <1>4 DEF Order

\* A monitor that a thread owns is its own, and is not on the free list.
LEMMA Mine ==
  ASSUME Basics, Order, NEW t \in Thread, thread[t].pc \in Owning
  PROVE  /\ Mon(t) \in Monitor /\ Obj(t) \in program.objects /\ Obj(t) \in Object
         /\ Mon(t) \notin Available
         /\ Quiet(Mon(t)) =>
              /\ owner[Mon(t)] = t
              /\ \A u \in Thread \ {t} : thread[u].pc \in Owning => Mon(u) # Mon(t)
<1>1. Mon(t) \in Monitor /\ Obj(t) \in program.objects /\ Obj(t) \in Object
  BY Knows DEF Basics, Owning, WithoutObject, WithMonitor
<1>2. Quiet(Mon(t)) => owner[Mon(t)] = t
  BY DEF Order, OwnersOwn
<1>3. Quiet(Mon(t)) => \A u \in Thread \ {t} : thread[u].pc \in Owning => Mon(u) # Mon(t)
  BY <1>2 DEF Order, OwnersOwn
<1>4. Mon(t) \notin Available
  BY <1>2 DEF Order, FreeIsUnused, FreeMonitorsAreClean, Available, Quiet
<1> QED  BY <1>1, <1>2, <1>3, <1>4

\* A step that changes nothing but t's place and is no step out of "flush".
LEMMA Calm ==
  ASSUME Basics, Order, NEW t \in Thread, NEW pc, NEW o, NEW m, NEW k, NEW w,
         Lands(t, pc, o, m, k, w),
         UNCHANGED <<program, monitor, owner, locks, pulseList, aborted, freeList, fresh>>,
         thread[t].pc # "flush", pc \notin {"install", "flush", "verify"},
         pc \in Owning /\ Quiet(m) => owner[m] = t,
         pc \in Having /\ Quiet(m) => monitor[o] = m,
         pc = "deflate" =>
           /\ Quiet(m) /\ pulseList[m] = <<>>
           /\ \A u \in Thread \ {t} : thread[u].pc \in {"deflate", "flush"} => Mon(u) # m,
         pc \in {"grab", "sleep"} =>
           /\ m \notin Available
           /\ \A u \in Thread \ {t} : thread[u].pc = "install" => Mon(u) # m
           /\ Quiet(m) =>
                monitor[o] = m \/ \E u \in Thread \ {t} : thread[u].pc = "flush" /\ Mon(u) = m,
         pc \in Owning \ {"held"} /\ Quiet(m) => locks[m] = 1
  PROVE  Order'
<1>1. /\ thread'[t].pc = pc /\ Obj(t)' = o /\ Mon(t)' = m
      /\ \A u \in Thread \ {t} : thread'[u].pc = thread[u].pc /\ Obj(u)' = Obj(u) /\ Mon(u)' = Mon(u)
  BY DEF Lands, Obj, Mon
<1>2. Available' = Available /\ \A n : Quiet(n)' = Quiet(n) /\ Installed(n)' = Installed(n)
  BY DEF Available, Quiet, Installed
<1>3. OwnersOwn'
  BY <1>1, <1>2 DEF Order, OwnersOwn
<1>4. HoldersHave'
  BY <1>1, <1>2 DEF Order, HoldersHave, Having
<1>5. OneDeflates'
  BY <1>1 DEF Order, OneDeflates
<1>6. OneOfEach'
  BY DEF Order, OneOfEach
<1>7. FreeIsUnused'
  BY <1>1, <1>2 DEF Order, FreeIsUnused, FreeMonitorsAreClean
<1>8. FreeIsInstalled'
  BY <1>1, <1>2 DEF Order, FreeIsInstalled
<1>9. SleepersStay'
  BY <1>1, <1>2 DEF Order, SleepersStay
<1>10. UnlockedOnce'
  BY <1>1, <1>2 DEF Order, UnlockedOnce
<1>11. NoNodesLeft'
  BY <1>1, <1>2 DEF Order, NoNodesLeft
<1> QED  BY <1>3, <1>4, <1>5, <1>6, <1>7, <1>8, <1>9, <1>10, <1>11 DEF Order

\* A monitor nobody is counted at has no thread in its queue, and none aborted.
LEMMA Uncounted ==
  ASSUME Basics, NEW m \in Monitor, ready[m] = 0
  PROVE  Quiet(m) /\ \A u \in Thread : thread[u].pc \in Queued => Mon(u) # m
<1>1. Cardinality(Counted(m)) + (IF m \in aborted THEN 1 ELSE 0) <= 0
  BY DEF Basics, CountsCover
<1>2. Cardinality(Counted(m)) \in Nat
  BY FiniteCounts
<1>3. Cardinality(Counted(m)) = 0 /\ m \notin aborted
  BY <1>1, <1>2
<1>4. Counted(m) = {}
  BY <1>3, FiniteCounts, FS_EmptySet
<1> QED  BY <1>3, <1>4 DEF Counted, Quiet

Calms == <<program, monitor, owner, locks, pulseList, aborted, freeList, fresh>>

\* The places a thread may come to without any claim on a monitor.
Claimless == PC \ (Owning \cup {"grab", "sleep"})

LEMMA CalmLanding ==
  ASSUME Basics, Order, NEW t \in Thread, NEW pc \in Claimless, NEW o, NEW m, NEW k, NEW w,
         Lands(t, pc, o, m, k, w), UNCHANGED Calms, thread[t].pc # "flush"
  PROVE  Order'
BY Calm DEF Calms, Claimless, Owning, Having

LEMMA OrderEnter ==
  ASSUME Basics, Order, NEW t \in Thread, Enter(t), UNCHANGED program
  PROVE  Order'
<1>1. \E o, k : Lands(t, "read", o, None, k, NoWait)
  BY TypedEnter DEF Basics
<1>2. thread[t].pc # "flush" /\ UNCHANGED Calms /\ "read" \in Claimless
  BY DEF Enter, At, heap, lists, pool, Calms, Claimless, PC, Owning
<1> QED  BY <1>1, <1>2, CalmLanding

LEMMA OrderReadMonitor ==
  ASSUME Basics, Order, NEW t \in Thread, ReadMonitor(t), UNCHANGED program
  PROVE  Order'
<1> DEFINE p == IF monitor[Obj(t)] = None THEN "allocate" ELSE "try"
<1>1. Lands(t, p, Obj(t), monitor[Obj(t)], thread[t].kind, thread[t].wait)
  BY TypedReadMonitor DEF Basics
<1>2. thread[t].pc # "flush" /\ UNCHANGED Calms /\ p \in Claimless
  BY DEF ReadMonitor, At, heap, lists, pool, Calms, Claimless, PC, Owning
<1> HIDE DEF p
<1> QED  BY <1>1, <1>2, CalmLanding

LEMMA OrderJoin ==
  ASSUME Basics, Order, NEW t \in Thread, Join(t), UNCHANGED program
  PROVE  Order'
<1>1. Moves(t, "loop")
  BY GotoMoves DEF Join, Basics, Typed, PC
<1>2. thread[t].pc # "flush" /\ UNCHANGED Calms /\ "loop" \in Claimless
  BY DEF Join, At, lists, pool, Calms, Claimless, PC, Owning
<1> QED  BY <1>1, <1>2, CalmLanding DEF Moves

LEMMA OrderLoop ==
  ASSUME Basics, Order, NEW t \in Thread, Loop(t), UNCHANGED program
  PROVE  Order'
<1>1. thread[t].pc = "loop" /\ UNCHANGED Calms
  BY DEF Loop, At, lists, pool, Calms
<1>2. CASE monitor[Obj(t)] = Mon(t) /\ Goto(t, "grab")
  <2>1. Moves(t, "grab") /\ Mon(t) \in Monitor /\ Obj(t) \in Object
    BY <1>1, <1>2, GotoMoves, Knows DEF Basics, Typed, PC, WithoutObject, WithMonitor
  <2>2. Mon(t) \notin Available
    BY <1>2, <2>1 DEF Order, FreeIsUnused, FreeMonitorsAreClean, Available
  <2>3. \A u \in Thread : thread[u].pc = "install" => Mon(u) # Mon(t)
    BY <1>2, <2>1 DEF Order, HoldersHave
  <2> QED  BY <1>1, <1>2, <2>1, <2>2, <2>3, Calm DEF Moves, Calms, Owning, Having
<1>3. CASE Goto(t, "read")
  <2>1. Moves(t, "read") /\ "read" \in Claimless
    BY <1>3, GotoMoves DEF Basics, Typed, PC, Claimless, Owning
  <2> QED  BY <1>1, <2>1, CalmLanding DEF Moves
<1> QED  BY <1>2, <1>3 DEF Loop

LEMMA OrderWake ==
  ASSUME Basics, Order, NEW t \in Thread, Wake(t), UNCHANGED program
  PROVE  Order'
<1>1. Moves(t, "loop")
  BY GotoMoves DEF Wake, Basics, Typed, PC
<1>2. thread[t].pc # "flush" /\ UNCHANGED Calms /\ "loop" \in Claimless
  BY DEF Wake, At, lists, pool, Calms, Claimless, PC, Owning
<1> QED  BY <1>1, <1>2, CalmLanding DEF Moves

LEMMA OrderEnterTimesOut ==
  ASSUME Basics, Order, NEW t \in Thread, EnterTimesOut(t), UNCHANGED program
  PROVE  Order'
<1>1. Moves(t, "lastRead") \/ Stops(t)
  BY GotoMoves, BecomeStops DEF EnterTimesOut, Basics, Typed, PC
<1>2. thread[t].pc # "flush" /\ UNCHANGED Calms /\ {"lastRead", "idle"} \subseteq Claimless
  BY DEF EnterTimesOut, At, lists, pool, Calms, Claimless, PC, Owning
<1> QED  BY <1>1, <1>2, CalmLanding DEF Moves, Stops

LEMMA OrderLastRead ==
  ASSUME Basics, Order, NEW t \in Thread, LastRead(t), UNCHANGED program
  PROVE  Order'
<1>1. Moves(t, "lastGrab") \/ Stops(t)
  BY GotoMoves, BecomeStops DEF LastRead, Basics, Typed, PC
<1>2. thread[t].pc # "flush" /\ UNCHANGED Calms /\ {"lastGrab", "idle"} \subseteq Claimless
  BY DEF LastRead, At, heap, lists, pool, Calms, Claimless, PC, Owning
<1> QED  BY <1>1, <1>2, CalmLanding DEF Moves, Stops

LEMMA OrderEnterIsInterrupted ==
  ASSUME Basics, Order, NEW t \in Thread, EnterIsInterrupted(t), UNCHANGED program
  PROVE  Order'
<1>1. Lands(t, "thrown", None, None, "none", NoWait) \/ Stops(t)
  BY TypedEnterIsInterrupted DEF Basics
<1>2. thread[t].pc # "flush" /\ UNCHANGED Calms /\ {"thrown", "idle"} \subseteq Claimless
  BY DEF EnterIsInterrupted, At, lists, pool, Calms, Claimless, PC, Owning
<1> QED  BY <1>1, <1>2, CalmLanding DEF Stops

LEMMA OrderExitOuter ==
  ASSUME Basics, Order, NEW t \in Thread, ExitOuter(t), UNCHANGED program
  PROVE  Order'
<1> DEFINE p == ExitWay(Mon(t))
<1>1. Moves(t, p) /\ p \in {"hand", "park", "deflate"}
  BY ExitWays, GotoMoves DEF ExitOuter, Basics, Typed, PC
<1>2. thread[t].pc \in {"held", "exit"} /\ UNCHANGED Calms
  BY DEF ExitOuter, At, heap, lists, pool, Calms
<1>3. /\ Mon(t) \in Monitor
      /\ Quiet(Mon(t)) =>
           /\ owner[Mon(t)] = t
           /\ \A u \in Thread \ {t} : thread[u].pc \in Owning => Mon(u) # Mon(t)
  BY <1>2, Mine DEF Owning
<1>4. Quiet(Mon(t)) => monitor[Obj(t)] = Mon(t)
  BY <1>2 DEF Order, HoldersHave, Having
<1>5. Quiet(Mon(t)) => locks[Mon(t)] = 1
  BY <1>2 DEF ExitOuter, At, Order, UnlockedOnce, Owning
<1>6. p = "deflate" => ready[Mon(t)] = 0 /\ pulseList[Mon(t)] = <<>>
  BY ExitWays
<1> HIDE DEF p
<1>7. p = "deflate" =>
           /\ Quiet(Mon(t)) /\ pulseList[Mon(t)] = <<>>
           /\ \A u \in Thread \ {t} : thread[u].pc \in {"deflate", "flush"} => Mon(u) # Mon(t)
  BY <1>3, <1>6, Uncounted DEF Owning
<1> QED  BY <1>1, <1>2, <1>3, <1>4, <1>5, <1>7, Calm DEF Moves, Calms

LEMMA OrderPosted ==
  ASSUME Basics, Order, NEW t \in Thread, Released(t), UNCHANGED Calms,
         thread[t].pc \in {"post", "postIfReady"}
  PROVE  Order'
<1>1. IF thread[t].kind = "aborted" THEN Lands(t, "dead", None, None, "aborted", NoWait)
      ELSE IF ~ Waits(t) THEN Stops(t)
      ELSE Lands(t, IF thread[t].wait.kind = "zero" THEN "read" ELSE "pulse", Obj(t), None,
                 thread[t].kind, thread[t].wait)
  BY ReleasedTyped DEF Basics, Calms
<1>2. {"dead", "idle", "read", "pulse"} \subseteq Claimless
  BY DEF Claimless, PC, Owning
<1> QED  BY <1>1, <1>2, CalmLanding DEF Stops

LEMMA OrderExitAfterAbort ==
  ASSUME Basics, Order, NEW t \in Thread, ExitAfterAbort(t), UNCHANGED program
  PROVE  Order'
<1>1. /\ Lands(t, "hand", Obj(t), monitor[Obj(t)], thread[t].kind, thread[t].wait)
      /\ ~ Quiet(monitor[Obj(t)])
  BY TypedExitAfterAbort DEF Basics, Quiet
<1>2. thread[t].pc = "aborted" /\ UNCHANGED Calms
  BY DEF ExitAfterAbort, LetPass, At, heap, lists, pool, Calms
<1> QED  BY <1>1, <1>2, Calm DEF Calms

\* A count that an aborted thread lowers is of a monitor that is not free, and
\* of which nothing else is claimed.
LEMMA OrderExitInnerAfterAbort ==
  ASSUME Basics, Order, NEW t \in Thread, ExitInnerAfterAbort(t), UNCHANGED program
  PROVE  Order'
<1>1. Lands(t, "dead", None, None, thread[t].kind, NoWait) /\ monitor[Obj(t)] \in aborted
  BY TypedExitInnerAfterAbort DEF Basics
<1>2. /\ thread[t].pc = "aborted"
      /\ UNCHANGED <<program, monitor, owner, pulseList, aborted, freeList, fresh>>
  BY DEF ExitInnerAfterAbort, LetPass, At, lists, pool
<1>3. \A n : n \notin aborted => locks'[n] = locks[n]
  BY <1>1 DEF ExitInnerAfterAbort
<1>4. /\ thread'[t].pc = "dead"
      /\ \A u \in Thread \ {t} : thread'[u].pc = thread[u].pc /\ Obj(u)' = Obj(u) /\ Mon(u)' = Mon(u)
  BY <1>1 DEF Lands, Obj, Mon
<1>5. Available' = Available /\ \A n : Quiet(n)' = Quiet(n) /\ Installed(n)' = Installed(n)
  BY <1>2 DEF Available, Quiet, Installed
<1>6. OwnersOwn'
  BY <1>2, <1>4, <1>5 DEF Order, OwnersOwn, Owning
<1>7. HoldersHave'
  BY <1>2, <1>4, <1>5 DEF Order, HoldersHave, Having
<1>8. OneDeflates'
  BY <1>4 DEF Order, OneDeflates
<1>9. OneOfEach'
  BY <1>2 DEF Order, OneOfEach
<1>10. FreeIsUnused'
  <2>1. \A n \in Available : locks'[n] = locks[n]
    BY <1>3 DEF Order, FreeIsUnused
  <2>2. FreeMonitorsAreClean'
    BY <1>2, <2>1 DEF Order, FreeIsUnused, FreeMonitorsAreClean, Available
  <2> QED  BY <1>2, <1>4, <1>5, <2>2 DEF Order, FreeIsUnused
<1>11. FreeIsInstalled'
  BY <1>2, <1>4, <1>5 DEF Order, FreeIsInstalled
<1>12. SleepersStay'
  BY <1>2, <1>4, <1>5 DEF Order, SleepersStay
<1>13. UnlockedOnce'
  BY <1>2, <1>3, <1>4, <1>5 DEF Order, UnlockedOnce, Owning, Quiet
<1>14. NoNodesLeft'
  BY <1>2, <1>4, <1>5 DEF Order, NoNodesLeft
<1> QED  BY <1>6, <1>7, <1>8, <1>9, <1>10, <1>11, <1>12, <1>13, <1>14 DEF Order

LEMMA OrderPulsed ==
  ASSUME Basics, Order, NEW t \in Thread, Pulsed(t), UNCHANGED program
  PROVE  Order'
<1>1. \E w : Lands(t, "read", Obj(t), Mon(t), "infinite", w)
  BY TypedPulsed DEF Basics
<1>2. thread[t].pc # "flush" /\ UNCHANGED Calms /\ "read" \in Claimless
  BY DEF Pulsed, At, heap, pool, Calms, Claimless, PC, Owning
<1> QED  BY <1>1, <1>2, CalmLanding

LEMMA OrderWaitGivesUp ==
  ASSUME Basics, Order, NEW t \in Thread, WaitGivesUp(t), UNCHANGED program
  PROVE  Order'
<1>1. Moves(t, "read")
  BY GotoMoves DEF WaitGivesUp, Basics, Typed, PC
<1>2. thread[t].pc # "flush" /\ UNCHANGED Calms /\ "read" \in Claimless
  BY DEF WaitGivesUp, At, heap, lists, pool, Calms, Claimless, PC, Owning
<1> QED  BY <1>1, <1>2, CalmLanding DEF Moves

LEMMA Landed ==
  ASSUME NEW t, NEW pc, NEW o, NEW m, NEW k, NEW w, Lands(t, pc, o, m, k, w)
  PROVE  /\ thread'[t].pc = pc /\ Obj(t)' = o /\ Mon(t)' = m
         /\ \A u \in Thread \ {t} :
              thread'[u].pc = thread[u].pc /\ Obj(u)' = Obj(u) /\ Mon(u)' = Mon(u)
BY DEF Lands, Obj, Mon

\* What Allocate takes is no longer on the list.
LEMMA Allocated ==
  ASSUME Basics, FreeMonitorsAreClean,
         NEW m \in IF freeList # <<>> THEN {Last(freeList)} ELSE fresh,
         freeList' = IF freeList # <<>> THEN Front(freeList) ELSE freeList,
         fresh' = fresh \ {m}
  PROVE  /\ Available' = Available \ {m} /\ m \in Available
         /\ IsInjective(freeList)' /\ Range(freeList)' \cap fresh' = {}
<1>1. freeList \in Seq(Monitor)
  BY DEF Basics, Typed, HeapTyped
<1>2. CASE freeList = <<>>
  <2>1. Range(freeList) = {} /\ freeList' = freeList
    BY <1>2 DEF Range
  <2> QED  BY <1>2, <2>1 DEF Available, FreeMonitorsAreClean, Range
<1>3. CASE freeList # <<>>
  <2> DEFINE n == Len(freeList)
  <2>1. n \in Nat \ {0} /\ m = freeList[n] /\ freeList' = SubSeq(freeList, 1, n - 1)
    BY <1>1, <1>3, EmptySeq DEF Last, Front
  <2>2. /\ freeList' \in Seq(Monitor) /\ Len(freeList') = n - 1
        /\ \A i \in 1 .. n - 1 : freeList'[i] = freeList[i]
    BY <1>1, <2>1
  <2>3. \A i, j \in 1 .. n : freeList[i] = freeList[j] => i = j
    BY <1>1 DEF FreeMonitorsAreClean, IsInjective
  <2>4. IsInjective(freeList)'
    BY <2>1, <2>2, <2>3 DEF IsInjective
  <2>5. Range(freeList)' = Range(freeList) \ {m}
    <3>1. \A i \in 1 .. n - 1 : freeList'[i] \in Range(freeList) /\ freeList'[i] # m
      BY <1>1, <2>1, <2>2, <2>3 DEF Range
    <3>2. \A i \in 1 .. n : freeList[i] # m => i \in 1 .. n - 1 /\ freeList[i] = freeList'[i]
      BY <2>1, <2>2
    <3>3. DOMAIN freeList = 1 .. n /\ DOMAIN freeList' = 1 .. n - 1
      BY <1>1, <2>1, <2>2
    <3>4. \A x : x \in Range(freeList)' <=> \E i \in 1 .. n - 1 : x = freeList'[i]
      BY <3>3 DEF Range
    <3>5. \A x : x \in Range(freeList) <=> \E i \in 1 .. n : x = freeList[i]
      BY <3>3 DEF Range
    <3> HIDE DEF n
    <3> QED  BY <3>1, <3>2, <3>4, <3>5
  <2>6. m \in Range(freeList) /\ m \notin fresh
    BY <1>1, <2>1 DEF Range, FreeMonitorsAreClean
  <2> QED  BY <2>4, <2>5, <2>6 DEF Available, FreeMonitorsAreClean
<1> QED  BY <1>2, <1>3

LEMMA OrderAllocate ==
  ASSUME Basics, Order, NEW t \in Thread, Allocate(t), UNCHANGED program
  PROVE  Order'
<1>1. PICK m \in IF freeList # <<>> THEN {Last(freeList)} ELSE fresh :
        /\ freeList' = IF freeList # <<>> THEN Front(freeList) ELSE freeList
        /\ fresh' = fresh \ {m} /\ m \in Monitor
        /\ owner' = [owner EXCEPT ![m] = t]
        /\ Lands(t, "install", Obj(t), m, thread[t].kind, thread[t].wait)
  BY TypedAllocate DEF Basics
<1>2. thread[t].pc = "allocate" /\ UNCHANGED <<program, monitor, locks, pulseList, aborted>>
  BY DEF Allocate, At, lists
<1>3. /\ thread'[t].pc = "install" /\ Obj(t)' = Obj(t) /\ Mon(t)' = m
      /\ \A u \in Thread \ {t} : thread'[u].pc = thread[u].pc /\ Obj(u)' = Obj(u) /\ Mon(u)' = Mon(u)
  BY <1>1, Landed
<1>4. FreeMonitorsAreClean
  BY DEF Order, FreeIsUnused
<1>5. /\ Available' = Available \ {m} /\ m \in Available
      /\ IsInjective(freeList)' /\ Range(freeList)' \cap fresh' = {}
  BY <1>1, <1>4, Allocated
<1>6. /\ owner[m] = Listed /\ locks[m] = 1 /\ pulseList[m] = <<>> /\ m \notin aborted
      /\ \A o \in Object : monitor[o] # m
  BY <1>4, <1>5 DEF FreeMonitorsAreClean, Order, FreeIsUnused, Available
<1>7. \A u \in Thread : thread[u].pc \in Owning => Mon(u) # m
  BY <1>5, Mine
<1>8. owner'[m] = t /\ \A n \in Monitor \ {m} : owner'[n] = owner[n]
  BY <1>1 DEF Basics, Typed, HeapTyped
<1>9. \A u \in Thread : thread[u].pc \in WithMonitor => Mon(u) \in Monitor
  BY DEF Basics, Typed, ThreadsTyped, Local
<1>10. OwnersOwn'
  BY <1>2, <1>3, <1>7, <1>8, <1>9 DEF Order, OwnersOwn, Owning, Quiet, WithMonitor
<1>11. HoldersHave'
  BY <1>2, <1>3, <1>6 DEF Order, HoldersHave, Having, Quiet
<1>12. OneDeflates'
  BY <1>3 DEF Order, OneDeflates
<1>13. OneOfEach'
  BY <1>2 DEF Order, OneOfEach
<1>14. FreeIsUnused'
  <2>1. FreeMonitorsAreClean'
    <3>1. \A n \in Available' : n \in Available /\ n # m /\ n \in Monitor
      BY <1>5 DEF Available, Basics, Typed, HeapTyped, Range
    <3>2. \A n \in Available' : /\ \A o \in Object : monitor'[o] # n
                               /\ owner'[n] = Listed /\ locks'[n] = 1 /\ pulseList'[n] = <<>>
      BY <1>2, <1>4, <1>8, <3>1 DEF FreeMonitorsAreClean, Available
    <3> QED  BY <1>5, <3>2 DEF FreeMonitorsAreClean, Available
  <2> QED  BY <1>2, <1>3, <1>5, <2>1 DEF Order, FreeIsUnused
<1>15. FreeIsInstalled'
  BY <1>2, <1>3, <1>8 DEF Order, FreeIsInstalled, Installed, Quiet
<1>16. SleepersStay'
  BY <1>2, <1>3 DEF Order, SleepersStay, Quiet
<1>17. UnlockedOnce'
  BY <1>2, <1>3, <1>6, <1>8 DEF Order, UnlockedOnce, Quiet
<1>18. NoNodesLeft'
  BY <1>2, <1>3, <1>6 DEF Order, NoNodesLeft, Quiet
<1> QED  BY <1>10, <1>11, <1>12, <1>13, <1>14, <1>15, <1>16, <1>17, <1>18 DEF Order

LEMMA OrderInstalled ==
  ASSUME Basics, Order, NEW t \in Thread, thread[t].pc = "install",
         monitor[Obj(t)] = None, monitor' = [monitor EXCEPT ![Obj(t)] = Mon(t)],
         NEW pc \in {"held", "restore"}, Moves(t, pc),
         UNCHANGED <<program, owner, locks, pulseList, aborted, freeList, fresh>>
  PROVE  Order'
<1>1. /\ thread'[t].pc = pc /\ Obj(t)' = Obj(t) /\ Mon(t)' = Mon(t)
      /\ \A u \in Thread \ {t} : thread'[u].pc = thread[u].pc /\ Obj(u)' = Obj(u) /\ Mon(u)' = Mon(u)
  BY Landed DEF Moves
<1>2. /\ Mon(t) \in Monitor /\ Obj(t) \in program.objects /\ Obj(t) \in Object
      /\ Mon(t) \notin Available
      /\ Quiet(Mon(t)) =>
           /\ owner[Mon(t)] = t
           /\ \A u \in Thread \ {t} : thread[u].pc \in Owning => Mon(u) # Mon(t)
  BY Mine DEF Owning
<1>3. Quiet(Mon(t)) /\ \A o \in Object : monitor[o] # Mon(t)
  BY DEF Order, HoldersHave
<1>4. monitor'[Obj(t)] = Mon(t) /\ \A o \in Object \ {Obj(t)} : monitor'[o] = monitor[o]
  BY <1>2 DEF Basics, Typed, HeapTyped
<1>5. \A u \in Thread : thread[u].pc \in WithMonitor => Mon(u) \in Monitor /\ Obj(u) \in Object
  BY Knows DEF Basics, WithoutObject, WithMonitor
<1>6. Available' = Available /\ \A n : Quiet(n)' = Quiet(n)
  BY DEF Available, Quiet
<1>7. OwnersOwn'
  BY <1>1, <1>2, <1>6 DEF Order, OwnersOwn, Owning
<1>8. HoldersHave'
  <2>1. ASSUME NEW u \in Thread \ {t}, thread[u].pc \in Having, Mon(u) = monitor[Obj(u)]
        PROVE  Obj(u) \in Object \ {Obj(t)}
    BY <1>5, <2>1 DEF Having, WithMonitor
  <2>2. ASSUME NEW u \in Thread \ {t}, thread[u].pc \in {"install", "flush"}
        PROVE  Mon(u) # Mon(t)
    BY <1>2, <1>3, <2>2 DEF Owning
  <2> QED  BY <1>1, <1>3, <1>4, <1>6, <2>1, <2>2 DEF Order, HoldersHave, Having
<1>9. OneDeflates'
  BY <1>1 DEF Order, OneDeflates
<1>10. OneOfEach'
  BY <1>2, <1>3, <1>4 DEF Order, OneOfEach
<1>11. FreeIsUnused'
  <2>1. FreeMonitorsAreClean'
    BY <1>2, <1>4 DEF Order, FreeIsUnused, FreeMonitorsAreClean, Available
  <2> QED  BY <1>1, <1>6, <2>1 DEF Order, FreeIsUnused
<1>12. FreeIsInstalled'
  <2>1. \A n \in Monitor : Installed(n) => Installed(n)'
    BY <1>4 DEF Installed
  <2> QED  BY <1>1, <1>5, <1>6, <2>1 DEF Order, FreeIsInstalled, WithMonitor
<1>13. SleepersStay'
  <2>1. ASSUME NEW u \in Thread \ {t}, thread[u].pc \in {"grab", "sleep"}, monitor[Obj(u)] = Mon(u)
        PROVE  Obj(u) \in Object \ {Obj(t)}
    BY <1>5, <2>1 DEF WithMonitor
  <2> QED  BY <1>1, <1>4, <1>6, <2>1 DEF Order, SleepersStay
<1>14. UnlockedOnce'
  BY <1>1, <1>6 DEF Order, UnlockedOnce, Owning
<1>15. NoNodesLeft'
  BY <1>1, <1>6 DEF Order, NoNodesLeft
<1> QED  BY <1>7, <1>8, <1>9, <1>10, <1>11, <1>12, <1>13, <1>14, <1>15 DEF Order

\* A monitor that goes back to the list.
LEMMA Recycled ==
  ASSUME Basics, FreeMonitorsAreClean, NEW m \in Monitor, m \notin Available,
         freeList' = Append(freeList, m), fresh' = fresh
  PROVE  /\ Available' = Available \cup {m}
         /\ IsInjective(freeList)' /\ Range(freeList)' \cap fresh' = {}
<1> DEFINE n == Len(freeList)
<1>1. freeList \in Seq(Monitor) /\ n \in Nat
  BY DEF Basics, Typed, HeapTyped
<1>2. /\ freeList' \in Seq(Monitor) /\ Len(freeList') = n + 1 /\ freeList'[n + 1] = m
      /\ \A i \in 1 .. n : freeList'[i] = freeList[i]
  BY <1>1
<1>3. \A i, j \in 1 .. n : freeList[i] = freeList[j] => i = j
  BY <1>1 DEF FreeMonitorsAreClean, IsInjective
<1>4. \A i \in 1 .. n : freeList[i] # m
  BY <1>1 DEF Available, Range
<1>5. IsInjective(freeList)'
  BY <1>1, <1>2, <1>3, <1>4 DEF IsInjective
<1>6. DOMAIN freeList = 1 .. n /\ DOMAIN freeList' = 1 .. n + 1
  BY <1>1, <1>2
<1>7. Range(freeList)' = Range(freeList) \cup {m}
  <2>1. \A x : x \in Range(freeList)' <=> \E i \in 1 .. n + 1 : x = freeList'[i]
    BY <1>6 DEF Range
  <2>2. \A x : x \in Range(freeList) <=> \E i \in 1 .. n : x = freeList[i]
    BY <1>6 DEF Range
  <2>3. \A i : i \in 1 .. n + 1 <=> i \in 1 .. n \/ i = n + 1
    BY <1>1
  <2> HIDE DEF n
  <2> QED  BY <1>2, <2>1, <2>2, <2>3
<1> QED  BY <1>5, <1>7 DEF Available, FreeMonitorsAreClean

LEMMA OrderRecycled ==
  ASSUME Basics, Order, NEW t \in Thread, thread[t].pc \in {"install", "flush"}, Recycle(Mon(t)),
         NEW pc \in Claimless, NEW o, NEW m, NEW k, NEW w, Lands(t, pc, o, m, k, w),
         thread[t].pc = "flush" => ready[Mon(t)] = 0,
         UNCHANGED <<program, monitor, locks, pulseList, aborted>>
  PROVE  Order'
<1>1. /\ thread'[t].pc = pc /\ Obj(t)' = o /\ Mon(t)' = m
      /\ \A u \in Thread \ {t} : thread'[u].pc = thread[u].pc /\ Obj(u)' = Obj(u) /\ Mon(u)' = Mon(u)
  BY Landed
<1>2. /\ Mon(t) \in Monitor /\ Mon(t) \notin Available
      /\ Quiet(Mon(t)) =>
           /\ owner[Mon(t)] = t
           /\ \A u \in Thread \ {t} : thread[u].pc \in Owning => Mon(u) # Mon(t)
  BY Mine DEF Owning
<1>3. Quiet(Mon(t)) /\ \A p \in Object : monitor[p] # Mon(t)
  BY <1>2, Uncounted DEF Order, HoldersHave
<1>4. \A u \in Thread : thread[u].pc \in {"grab", "sleep"} => Mon(u) # Mon(t)
  BY <1>2, Uncounted DEF Order, FreeIsUnused, Queued
<1>5. FreeMonitorsAreClean
  BY DEF Order, FreeIsUnused
<1>6. /\ Available' = Available \cup {Mon(t)}
      /\ IsInjective(freeList)' /\ Range(freeList)' \cap fresh' = {}
  BY <1>2, <1>5, Recycled DEF Recycle
<1>7. owner'[Mon(t)] = Listed /\ \A n \in Monitor \ {Mon(t)} : owner'[n] = owner[n]
  BY <1>2 DEF Recycle, Basics, Typed, HeapTyped
<1>8. \A u \in Thread : thread[u].pc \in WithMonitor => Mon(u) \in Monitor
  BY DEF Basics, Typed, ThreadsTyped, Local
<1>9. pc \notin Owning /\ pc \notin {"grab", "sleep"}
  BY DEF Claimless
<1>10. locks[Mon(t)] = 1 /\ pulseList[Mon(t)] = <<>>
  BY <1>3 DEF Order, UnlockedOnce, NoNodesLeft, Owning
<1>11. OwnersOwn'
  BY <1>1, <1>2, <1>3, <1>7, <1>8, <1>9 DEF Order, OwnersOwn, Owning, Quiet, WithMonitor
<1>12. HoldersHave'
  BY <1>1, <1>9 DEF Order, HoldersHave, Having, Quiet, Owning
<1>13. OneDeflates'
  BY <1>1, <1>9 DEF Order, OneDeflates, Owning
<1>14. OneOfEach'
  BY DEF Order, OneOfEach
<1>15. FreeIsUnused'
  <2>1. FreeMonitorsAreClean'
    <3>1. \A n \in Available : n \in Monitor
      BY DEF Available, Basics, Typed, HeapTyped, Range
    <3>2. \A n \in Available' : /\ \A p \in Object : monitor'[p] # n
                               /\ owner'[n] = Listed /\ locks'[n] = 1 /\ pulseList'[n] = <<>>
      BY <1>2, <1>3, <1>5, <1>6, <1>7, <1>10, <3>1 DEF FreeMonitorsAreClean, Available
    <3> QED  BY <1>6, <3>2 DEF FreeMonitorsAreClean, Available
  <2>2. (Available \cap aborted = {})'
    BY <1>3, <1>6 DEF Order, FreeIsUnused, Quiet
  <2>3. \A u \in Thread : thread'[u].pc \in {"grab", "sleep"} =>
          /\ Mon(u)' \notin Available'
          /\ \A v \in Thread : thread'[v].pc = "install" => Mon(v)' # Mon(u)'
    BY <1>1, <1>4, <1>6, <1>9 DEF Order, FreeIsUnused, Owning
  <2> QED  BY <2>1, <2>2, <2>3 DEF FreeIsUnused
<1>16. FreeIsInstalled'
  BY <1>1, <1>7, <1>9, NoneAssumption DEF Order, FreeIsInstalled, Installed, Quiet, Owning
<1>17. SleepersStay'
  BY <1>1, <1>4, <1>9 DEF Order, SleepersStay, Quiet, Owning
<1>18. UnlockedOnce'
  BY <1>1, <1>7, <1>9, NoneAssumption DEF Order, UnlockedOnce, Quiet, Owning
<1>19. NoNodesLeft'
  BY <1>1, <1>9 DEF Order, NoNodesLeft, Quiet, Owning
<1> QED  BY <1>11, <1>12, <1>13, <1>14, <1>15, <1>16, <1>17, <1>18, <1>19 DEF Order

LEMMA OrderInstall ==
  ASSUME Basics, Order, NEW t \in Thread, Install(t), UNCHANGED program
  PROVE  Order'
<1>1. thread[t].pc = "install" /\ UNCHANGED <<program, locks, pulseList, aborted>>
  BY DEF Install, At, lists
<1>2. CASE /\ monitor[Obj(t)] = None
           /\ monitor' = [monitor EXCEPT ![Obj(t)] = Mon(t)]
           /\ Entered(t)
           /\ UNCHANGED <<owner, pool>>
  BY <1>1, <1>2, EnteredMoves, OrderInstalled DEF Basics, pool
<1>3. CASE Recycle(Mon(t)) /\ Goto(t, "read") /\ UNCHANGED monitor
  <2>1. Moves(t, "read") /\ "read" \in Claimless
    BY <1>3, GotoMoves DEF Basics, Typed, PC, Claimless, Owning
  <2> QED  BY <1>1, <1>3, <2>1, OrderRecycled DEF Moves
<1> QED  BY <1>2, <1>3 DEF Install

LEMMA OrderReturnMonitor ==
  ASSUME Basics, Order, NEW t \in Thread, ReturnMonitor(t), UNCHANGED program
  PROVE  Order'
<1>1. thread[t].pc = "flush" /\ UNCHANGED <<program, monitor, locks, pulseList, aborted>>
      /\ Recycle(Mon(t)) /\ ready[Mon(t)] = 0 /\ Released(t)
  BY DEF ReturnMonitor, At, lists
<1>2. IF thread[t].kind = "aborted" THEN Lands(t, "dead", None, None, "aborted", NoWait)
      ELSE IF ~ Waits(t) THEN Stops(t)
      ELSE Lands(t, IF thread[t].wait.kind = "zero" THEN "read" ELSE "pulse", Obj(t), None,
                 thread[t].kind, thread[t].wait)
  BY <1>1, ReleasedTyped DEF Basics
<1>3. {"dead", "idle", "read", "pulse"} \subseteq Claimless
  BY DEF Claimless, PC, Owning
<1> QED  BY <1>1, <1>2, <1>3, OrderRecycled DEF Stops

\* A step that takes a free monitor.
LEMMA OrderAcquired ==
  ASSUME Basics, Order, NEW t \in Thread, thread[t].pc \in {"try", "grab", "lastGrab"}, TryAcquire(t),
         NEW pc \in {"verify", "held", "restore"}, Moves(t, pc),
         pc # "verify" /\ Quiet(Mon(t)) => monitor[Obj(t)] = Mon(t),
         UNCHANGED <<program, monitor, locks, pulseList, aborted, freeList, fresh>>
  PROVE  Order'
<1>1. /\ thread'[t].pc = pc /\ Obj(t)' = Obj(t) /\ Mon(t)' = Mon(t)
      /\ \A u \in Thread \ {t} : thread'[u].pc = thread[u].pc /\ Obj(u)' = Obj(u) /\ Mon(u)' = Mon(u)
  BY Landed DEF Moves
<1>2. Mon(t) \in Monitor /\ owner[Mon(t)] = Free
  BY Knows DEF Basics, WithoutObject, WithMonitor, TryAcquire
<1>3. owner'[Mon(t)] = t /\ \A n \in Monitor \ {Mon(t)} : owner'[n] = owner[n]
  BY <1>2 DEF TryAcquire, Basics, Typed, HeapTyped
<1>4. Quiet(Mon(t)) => Installed(Mon(t)) /\ locks[Mon(t)] = 1
  BY <1>2 DEF Order, FreeIsInstalled, UnlockedOnce
<1>5. \A u \in Thread : thread[u].pc \in WithMonitor => Mon(u) \in Monitor
  BY DEF Basics, Typed, ThreadsTyped, Local
<1>6. Available' = Available /\ \A n : Quiet(n)' = Quiet(n) /\ Installed(n)' = Installed(n)
  BY DEF Available, Quiet, Installed
<1>7. OwnersOwn'
  BY <1>1, <1>2, <1>3, <1>5, <1>6, NoneAssumption DEF Order, OwnersOwn, Owning, WithMonitor
<1>8. HoldersHave'
  BY <1>1, <1>6 DEF Order, HoldersHave, Having
<1>9. OneDeflates'
  BY <1>1 DEF Order, OneDeflates
<1>10. OneOfEach'
  BY DEF Order, OneOfEach
<1>11. FreeIsUnused'
  <2>1. Mon(t) \notin Available
    BY <1>2, NoneAssumption DEF Order, FreeIsUnused, FreeMonitorsAreClean, Available
  <2>2. \A n \in Available : n \in Monitor
    BY DEF Available, Basics, Typed, HeapTyped, Range
  <2>3. FreeMonitorsAreClean'
    BY <1>3, <2>1, <2>2 DEF Order, FreeIsUnused, FreeMonitorsAreClean, Available
  <2> QED  BY <1>1, <1>6, <2>3 DEF Order, FreeIsUnused
<1>12. FreeIsInstalled'
  BY <1>1, <1>3, <1>4, <1>6, NoneAssumption DEF Order, FreeIsInstalled
<1>13. SleepersStay'
  BY <1>1, <1>6 DEF Order, SleepersStay
<1>14. UnlockedOnce'
  BY <1>1, <1>3, <1>4, <1>6, NoneAssumption DEF Order, UnlockedOnce, Owning
<1>15. NoNodesLeft'
  BY <1>1, <1>6 DEF Order, NoNodesLeft
<1> QED  BY <1>7, <1>8, <1>9, <1>10, <1>11, <1>12, <1>13, <1>14, <1>15 DEF Order

LEMMA OrderTry ==
  ASSUME Basics, Order, NEW t \in Thread, Try(t), UNCHANGED program
  PROVE  Order'
<1>1. thread[t].pc = "try" /\ UNCHANGED <<program, monitor, locks, pulseList, aborted, freeList, fresh>>
  BY DEF Try, At, lists, pool
<1>2. CASE TryAcquire(t) /\ Goto(t, "verify")
  <2>1. Moves(t, "verify")
    BY <1>2, GotoMoves DEF Basics, Typed, PC
  <2> QED  BY <1>1, <1>2, <2>1, OrderAcquired
<1>3. CASE UNCHANGED owner /\ (Become(t, Idle) \/ Goto(t, "join"))
  <2>1. Moves(t, "join") \/ Stops(t)
    BY <1>3, GotoMoves, BecomeStops DEF Basics, Typed, PC
  <2>2. UNCHANGED Calms /\ {"join", "idle"} \subseteq Claimless
    BY <1>1, <1>3 DEF Calms, Claimless, PC, Owning
  <2> QED  BY <1>1, <2>1, <2>2, CalmLanding DEF Moves, Stops
<1> QED  BY <1>2, <1>3 DEF Try

LEMMA OrderGrab ==
  ASSUME Basics, Order, NEW t \in Thread, Grab(t), UNCHANGED program
  PROVE  Order'
<1>1. thread[t].pc = "grab" /\ UNCHANGED <<program, monitor, locks, pulseList, aborted, freeList, fresh>>
  BY DEF Grab, At, lists, pool
<1>2. CASE TryAcquire(t) /\ Entered(t)
  <2>1. Moves(t, "held") \/ Moves(t, "restore")
    BY <1>2, EnteredMoves DEF Basics
  <2>2. ASSUME Quiet(Mon(t)), NEW u \in Thread, thread[u].pc = "flush", Mon(u) = Mon(t)
        PROVE  FALSE
    BY <1>2, <2>2, NoneAssumption DEF Order, OwnersOwn, TryAcquire, Owning
  <2>3. Quiet(Mon(t)) => monitor[Obj(t)] = Mon(t)
    BY <1>1, <2>2 DEF Order, SleepersStay
  <2> QED  BY <1>1, <1>2, <2>1, <2>3, OrderAcquired
<1>3. CASE UNCHANGED owner /\ Goto(t, "sleep")
  <2>1. Moves(t, "sleep")
    BY <1>3, GotoMoves DEF Basics, Typed, PC
  <2>2. /\ Mon(t) \notin Available
        /\ \A u \in Thread \ {t} : thread[u].pc = "install" => Mon(u) # Mon(t)
    BY <1>1 DEF Order, FreeIsUnused
  <2>3. Quiet(Mon(t)) =>
          monitor[Obj(t)] = Mon(t) \/ \E u \in Thread \ {t} : thread[u].pc = "flush" /\ Mon(u) = Mon(t)
    BY <1>1 DEF Order, SleepersStay
  <2> QED  BY <1>1, <1>3, <2>1, <2>2, <2>3, Calm DEF Moves, Owning, Having
<1> QED  BY <1>2, <1>3 DEF Grab

LEMMA OrderLastGrab ==
  ASSUME Basics, Order, NEW t \in Thread, LastGrab(t), UNCHANGED program, MonitorsKeepTheirObject
  PROVE  Order'
<1>1. thread[t].pc = "lastGrab" /\ UNCHANGED <<program, monitor, locks, pulseList, aborted, freeList, fresh>>
  BY DEF LastGrab, At, lists, pool
<1>2. CASE TryAcquire(t) /\ Entered(t)
  <2>1. Moves(t, "held") \/ Moves(t, "restore")
    BY <1>2, EnteredMoves DEF Basics
  <2>2. OneObject /\ Obj(t) \in program.objects /\ Mon(t) \in Monitor
    BY <1>1, Knows DEF MonitorsKeepTheirObject, Basics, Typed, ThreadsTyped, Local, WithoutObject, WithMonitor
  <2>3. ASSUME Quiet(Mon(t))
        PROVE  monitor[Obj(t)] = Mon(t)
    <3>1. PICK o \in Object : monitor[o] = Mon(t)
      BY <1>2, <2>2, <2>3 DEF TryAcquire, Order, FreeIsInstalled, Installed
    <3>2. o \in program.objects
      BY <2>2, <3>1, NoneAssumption DEF Order, OneOfEach
    <3> QED  BY <2>2, <3>1, <3>2 DEF OneObject
  <2> QED  BY <1>1, <1>2, <2>1, <2>3, OrderAcquired
<1>3. CASE UNCHANGED owner /\ Become(t, Idle)
  <2>1. Stops(t)
    BY <1>3, BecomeStops DEF Basics, Typed
  <2>2. UNCHANGED Calms /\ "idle" \in Claimless
    BY <1>1, <1>3 DEF Calms, Claimless, PC, Owning
  <2> QED  BY <1>1, <2>1, <2>2, CalmLanding DEF Stops
<1> QED  BY <1>2, <1>3 DEF LastGrab

\* A step that gives up a monitor that has an object.
LEMMA OrderGivenUp ==
  ASSUME Basics, Order, NEW t \in Thread, thread[t].pc \in {"verify", "hand", "park"},
         owner' = [owner EXCEPT ![Mon(t)] = Free],
         NEW pc \in Claimless, Moves(t, pc),
         UNCHANGED <<program, monitor, locks, pulseList, aborted, freeList, fresh>>
  PROVE  Order'
<1>1. /\ thread'[t].pc = pc /\ Obj(t)' = Obj(t) /\ Mon(t)' = Mon(t)
      /\ \A u \in Thread \ {t} : thread'[u].pc = thread[u].pc /\ Obj(u)' = Obj(u) /\ Mon(u)' = Mon(u)
  BY Landed DEF Moves
<1>2. /\ Mon(t) \in Monitor /\ Obj(t) \in Object /\ Mon(t) \notin Available
      /\ Quiet(Mon(t)) => \A u \in Thread \ {t} : thread[u].pc \in Owning => Mon(u) # Mon(t)
  BY Mine DEF Owning
<1>3. owner'[Mon(t)] = Free /\ \A n \in Monitor \ {Mon(t)} : owner'[n] = owner[n]
  BY <1>2 DEF Basics, Typed, HeapTyped
<1>4. Quiet(Mon(t)) => Installed(Mon(t)) /\ locks[Mon(t)] = 1
  BY <1>2 DEF Order, FreeIsInstalled, HoldersHave, UnlockedOnce, Installed, Having, Owning
<1>5. \A u \in Thread : thread[u].pc \in WithMonitor => Mon(u) \in Monitor
  BY DEF Basics, Typed, ThreadsTyped, Local
<1>6. Available' = Available /\ \A n : Quiet(n)' = Quiet(n) /\ Installed(n)' = Installed(n)
  BY DEF Available, Quiet, Installed
<1>7. pc \notin Owning /\ pc \notin {"grab", "sleep"}
  BY DEF Claimless
<1>8. OwnersOwn'
  BY <1>1, <1>2, <1>3, <1>5, <1>6, <1>7 DEF Order, OwnersOwn, Owning, WithMonitor
<1>9. HoldersHave'
  BY <1>1, <1>6, <1>7 DEF Order, HoldersHave, Having, Owning
<1>10. OneDeflates'
  BY <1>1, <1>7 DEF Order, OneDeflates, Owning
<1>11. OneOfEach'
  BY DEF Order, OneOfEach
<1>12. FreeIsUnused'
  <2>1. \A n \in Available : n \in Monitor
    BY DEF Available, Basics, Typed, HeapTyped, Range
  <2>2. FreeMonitorsAreClean'
    BY <1>2, <1>3, <2>1 DEF Order, FreeIsUnused, FreeMonitorsAreClean, Available
  <2> QED  BY <1>1, <1>6, <1>7, <2>2 DEF Order, FreeIsUnused, Owning
<1>13. FreeIsInstalled'
  BY <1>1, <1>3, <1>4, <1>6, <1>7 DEF Order, FreeIsInstalled, Owning
<1>14. SleepersStay'
  BY <1>1, <1>6, <1>7 DEF Order, SleepersStay, Owning
<1>15. UnlockedOnce'
  BY <1>1, <1>3, <1>4, <1>6, <1>7 DEF Order, UnlockedOnce, Owning
<1>16. NoNodesLeft'
  BY <1>1, <1>6, <1>7 DEF Order, NoNodesLeft, Owning
<1> QED  BY <1>8, <1>9, <1>10, <1>11, <1>12, <1>13, <1>14, <1>15, <1>16 DEF Order

LEMMA OrderVerify ==
  ASSUME Basics, Order, NEW t \in Thread, Verify(t), UNCHANGED program
  PROVE  Order'
<1>1. thread[t].pc = "verify" /\ UNCHANGED <<program, monitor, locks, pulseList, aborted, freeList, fresh>>
  BY DEF Verify, At, lists, pool
<1>2. CASE monitor[Obj(t)] = Mon(t) /\ Entered(t) /\ UNCHANGED owner
  <2>1. Moves(t, "held") \/ Moves(t, "restore")
    BY <1>2, EnteredMoves DEF Basics
  <2>2. Quiet(Mon(t)) => owner[Mon(t)] = t /\ locks[Mon(t)] = 1
    BY <1>1 DEF Order, OwnersOwn, UnlockedOnce, Owning
  <2> QED  BY <1>1, <1>2, <2>1, <2>2, Calm DEF Moves
<1>3. CASE owner' = [owner EXCEPT ![Mon(t)] = Free] /\ Goto(t, "read")
  <2>1. Moves(t, "read") /\ "read" \in Claimless
    BY <1>3, GotoMoves DEF Basics, Typed, PC, Claimless, Owning
  <2> QED  BY <1>1, <1>3, <2>1, OrderGivenUp
<1> QED  BY <1>2, <1>3 DEF Verify

LEMMA OrderUnacquire ==
  ASSUME Basics, Order, NEW t \in Thread, Unacquire(t), UNCHANGED program
  PROVE  Order'
<1>1. thread[t].pc \in {"hand", "park"} /\ owner' = [owner EXCEPT ![Mon(t)] = Free]
      /\ UNCHANGED <<program, monitor, locks, pulseList, aborted, freeList, fresh>>
  BY DEF Unacquire, At, lists, pool
<1>2. Moves(t, "post") \/ Moves(t, "postIfReady")
  BY GotoMoves DEF Unacquire, Basics, Typed, PC
<1>3. {"post", "postIfReady"} \subseteq Claimless
  BY DEF Claimless, PC, Owning
<1> QED  BY <1>1, <1>2, <1>3, OrderGivenUp

LEMMA OrderEnterIsAborted ==
  ASSUME Basics, Order, NEW t \in Thread, EnterIsAborted(t), UNCHANGED program
  PROVE  Order'
<1>1. Lands(t, "aborted", Obj(t), Mon(t), "aborted", NoWait)
  BY TypedEnterIsAborted DEF Basics
<1>2. /\ thread[t].pc = "sleep" /\ aborted' = aborted \cup {Mon(t)}
      /\ UNCHANGED <<program, monitor, owner, locks, pulseList, freeList, fresh>>
  BY DEF EnterIsAborted, At, lists, pool
<1>3. /\ thread'[t].pc = "aborted" /\ Obj(t)' = Obj(t) /\ Mon(t)' = Mon(t)
      /\ \A u \in Thread \ {t} : thread'[u].pc = thread[u].pc /\ Obj(u)' = Obj(u) /\ Mon(u)' = Mon(u)
  BY <1>1, Landed
<1>4. Mon(t) \notin Available /\ \A u \in Thread : thread[u].pc = "install" => Mon(u) # Mon(t)
  BY <1>2 DEF Order, FreeIsUnused
<1>5. Available' = Available /\ \A n : Installed(n)' = Installed(n)
  BY <1>2 DEF Available, Installed
<1>6. \A n : Quiet(n)' <=> Quiet(n) /\ n # Mon(t)
  BY <1>2 DEF Quiet
<1>7. OwnersOwn'
  BY <1>2, <1>3, <1>6 DEF Order, OwnersOwn, Owning
<1>8. HoldersHave'
  BY <1>2, <1>3, <1>4, <1>6 DEF Order, HoldersHave, Having
<1>9. OneDeflates'
  BY <1>3 DEF Order, OneDeflates
<1>10. OneOfEach'
  BY <1>2 DEF Order, OneOfEach
<1>11. FreeIsUnused'
  BY <1>2, <1>3, <1>4, <1>5 DEF Order, FreeIsUnused, FreeMonitorsAreClean
<1>12. FreeIsInstalled'
  BY <1>2, <1>3, <1>5, <1>6 DEF Order, FreeIsInstalled
<1>13. SleepersStay'
  BY <1>2, <1>3, <1>6 DEF Order, SleepersStay
<1>14. UnlockedOnce'
  BY <1>2, <1>3, <1>6 DEF Order, UnlockedOnce, Owning
<1>15. NoNodesLeft'
  BY <1>2, <1>3, <1>6 DEF Order, NoNodesLeft
<1> QED  BY <1>7, <1>8, <1>9, <1>10, <1>11, <1>12, <1>13, <1>14, <1>15 DEF Order

LEMMA OrderDeflate ==
  ASSUME Basics, Order, NEW t \in Thread, Deflate(t), UNCHANGED program
  PROVE  Order'
<1>1. Moves(t, "flush")
  BY GotoMoves DEF Deflate, Basics, Typed, PC
<1>2. /\ thread[t].pc = "deflate" /\ monitor' = [monitor EXCEPT ![Obj(t)] = None]
      /\ UNCHANGED <<program, owner, locks, pulseList, aborted, freeList, fresh>>
  BY DEF Deflate, At, lists, pool
<1>3. /\ thread'[t].pc = "flush" /\ Obj(t)' = Obj(t) /\ Mon(t)' = Mon(t)
      /\ \A u \in Thread \ {t} : thread'[u].pc = thread[u].pc /\ Obj(u)' = Obj(u) /\ Mon(u)' = Mon(u)
  BY <1>1, Landed DEF Moves
<1>4. /\ Mon(t) \in Monitor /\ Obj(t) \in Object /\ Mon(t) \notin Available
      /\ Quiet(Mon(t)) =>
           /\ owner[Mon(t)] = t
           /\ \A u \in Thread \ {t} : thread[u].pc \in Owning => Mon(u) # Mon(t)
  BY <1>2, Mine DEF Owning
<1>5. monitor[Obj(t)] = Mon(t) /\ Mon(t) # None
  BY <1>2, <1>4, NoneAssumption DEF Order, HoldersHave
<1>6. monitor'[Obj(t)] = None /\ \A o \in Object \ {Obj(t)} : monitor'[o] = monitor[o]
  BY <1>2, <1>4 DEF Basics, Typed, HeapTyped
<1>7. \A o \in Object \ {Obj(t)} : monitor[o] # Mon(t)
  BY <1>4, <1>5 DEF Order, OneOfEach
<1>8. \A u \in Thread : thread[u].pc \in WithMonitor => Mon(u) \in Monitor /\ Obj(u) \in Object
  BY Knows DEF Basics, WithoutObject, WithMonitor
<1>9. Available' = Available /\ \A n : Quiet(n)' = Quiet(n)
  BY <1>2 DEF Available, Quiet
<1>10. OwnersOwn'
  BY <1>2, <1>3, <1>9 DEF Order, OwnersOwn, Owning
<1>11. HoldersHave'
  <2>1. ASSUME NEW u \in Thread \ {t}, thread[u].pc \in Having, Quiet(Mon(u))
        PROVE  monitor'[Obj(u)] = Mon(u)
    <3>1. monitor[Obj(u)] = Mon(u) /\ Mon(u) \in Monitor /\ Obj(u) \in Object
      BY <1>8, <2>1 DEF Order, HoldersHave, Having, WithMonitor
    <3>2. Mon(u) # Mon(t)
      BY <1>4, <2>1 DEF Having, Owning
    <3> QED  BY <1>5, <1>6, <3>1, <3>2
  <2>2. ASSUME NEW u \in Thread \ {t}, thread[u].pc = "deflate"
        PROVE  monitor'[Obj(u)] = Mon(u)
    <3>1. monitor[Obj(u)] = Mon(u) /\ Mon(u) \in Monitor /\ Obj(u) \in Object
      BY <1>8, <2>2 DEF Order, HoldersHave, WithMonitor
    <3>2. Mon(u) # Mon(t)
      BY <1>2, <2>2 DEF Order, OneDeflates
    <3> QED  BY <1>5, <1>6, <3>1, <3>2
  <2>3. ASSUME NEW u \in Thread \ {t}, thread[u].pc \in {"install", "flush"}, NEW o \in Object
        PROVE  monitor'[o] # Mon(u)
    <3>1. monitor[o] # Mon(u) /\ Mon(u) \in Monitor
      BY <1>8, <2>3 DEF Order, HoldersHave, WithMonitor
    <3> QED  BY <1>6, <3>1, NoneAssumption
  <2>4. \A o \in Object : monitor'[o] # Mon(t)
    BY <1>4, <1>5, <1>6, <1>7
  <2>5. \A u \in Thread \ {t} : thread[u].pc = "install" => Quiet(Mon(u))
    BY DEF Order, HoldersHave
  <2> QED  BY <1>3, <1>9, <2>1, <2>2, <2>3, <2>4, <2>5 DEF HoldersHave, Having
<1>12. OneDeflates'
  BY <1>2, <1>3 DEF Order, OneDeflates
<1>13. OneOfEach'
  BY <1>2, <1>6 DEF Order, OneOfEach
<1>14. FreeIsUnused'
  <2>1. \A n \in Available : n \in Monitor
    BY DEF Available, Basics, Typed, HeapTyped, Range
  <2>2. FreeMonitorsAreClean'
    BY <1>2, <1>6, <2>1, NoneAssumption DEF Order, FreeIsUnused, FreeMonitorsAreClean, Available
  <2> QED  BY <1>2, <1>3, <1>9, <2>2 DEF Order, FreeIsUnused
<1>15. FreeIsInstalled'
  <2>1. ASSUME NEW n \in Monitor, n # Mon(t), Installed(n)
        PROVE  Installed(n)'
    BY <1>5, <1>6, <2>1 DEF Installed
  <2>2. \A u \in Thread : thread[u].pc = "verify" /\ Quiet(Mon(u)) => Mon(u) # Mon(t)
    BY <1>2, <1>4 DEF Owning
  <2>3. \A n \in Monitor : owner[n] = Free /\ Quiet(n) => n # Mon(t)
    BY <1>4, NoneAssumption
  <2> QED  BY <1>2, <1>3, <1>8, <1>9, <2>1, <2>2, <2>3 DEF Order, FreeIsInstalled, WithMonitor
<1>16. SleepersStay'
  <2>1. ASSUME NEW u \in Thread \ {t}, thread[u].pc \in {"grab", "sleep"}, monitor[Obj(u)] = Mon(u)
        PROVE  monitor'[Obj(u)] = Mon(u) \/ Mon(u) = Mon(t)
    BY <1>5, <1>6, <1>8, <2>1 DEF WithMonitor
  <2>2. \A u, v \in Thread :
          thread[v].pc = "flush" /\ Mon(v) = Mon(u) => thread'[v].pc = "flush" /\ Mon(v)' = Mon(u)
    BY <1>2, <1>3
  <2> QED  BY <1>3, <1>9, <2>1, <2>2 DEF Order, SleepersStay
<1>17. UnlockedOnce'
  BY <1>2, <1>3, <1>9 DEF Order, UnlockedOnce, Owning
<1>18. NoNodesLeft'
  BY <1>2, <1>3, <1>9 DEF Order, NoNodesLeft
<1> QED  BY <1>10, <1>11, <1>12, <1>13, <1>14, <1>15, <1>16, <1>17, <1>18 DEF Order

\* A step of a thread that holds the lock and changes its monitor's count or nodes.
LEMMA OrderHeld ==
  ASSUME Basics, Order, NEW t \in Thread, thread[t].pc \in {"held", "restore"},
         NEW pc \in {"held", "exit"}, NEW k, NEW w,
         Lands(t, pc, Obj(t), Mon(t), k, w),
         \A n \in Monitor \ {Mon(t)} : locks'[n] = locks[n] /\ pulseList'[n] = pulseList[n],
         pc = "exit" => locks'[Mon(t)] = 1,
         UNCHANGED <<program, monitor, owner, aborted, freeList, fresh>>
  PROVE  Order'
<1>1. /\ thread'[t].pc = pc /\ Obj(t)' = Obj(t) /\ Mon(t)' = Mon(t)
      /\ \A u \in Thread \ {t} : thread'[u].pc = thread[u].pc /\ Obj(u)' = Obj(u) /\ Mon(u)' = Mon(u)
  BY Landed
<1>2. /\ Mon(t) \in Monitor /\ Mon(t) \notin Available
      /\ Quiet(Mon(t)) =>
           /\ owner[Mon(t)] = t
           /\ \A u \in Thread \ {t} : thread[u].pc \in Owning => Mon(u) # Mon(t)
  BY Mine DEF Owning
<1>3. \A u \in Thread : thread[u].pc \in WithMonitor => Mon(u) \in Monitor
  BY DEF Basics, Typed, ThreadsTyped, Local
<1>4. Available' = Available /\ \A n : Quiet(n)' = Quiet(n) /\ Installed(n)' = Installed(n)
  BY DEF Available, Quiet, Installed
<1>5. OwnersOwn'
  BY <1>1, <1>4 DEF Order, OwnersOwn, Owning
<1>6. HoldersHave'
  BY <1>1, <1>4 DEF Order, HoldersHave, Having
<1>7. OneDeflates'
  BY <1>1 DEF Order, OneDeflates
<1>8. OneOfEach'
  BY DEF Order, OneOfEach
<1>9. FreeIsUnused'
  <2>1. \A n \in Available : n \in Monitor \ {Mon(t)}
    BY <1>2 DEF Available, Basics, Typed, HeapTyped, Range
  <2>2. FreeMonitorsAreClean'
    BY <2>1 DEF Order, FreeIsUnused, FreeMonitorsAreClean, Available
  <2> QED  BY <1>1, <1>4, <2>2 DEF Order, FreeIsUnused
<1>10. FreeIsInstalled'
  BY <1>1, <1>4 DEF Order, FreeIsInstalled
<1>11. SleepersStay'
  BY <1>1, <1>4 DEF Order, SleepersStay
<1>12. UnlockedOnce'
  BY <1>1, <1>2, <1>3, <1>4, NoneAssumption DEF Order, UnlockedOnce, Owning, WithMonitor
<1>13. NoNodesLeft'
  BY <1>1, <1>2, <1>3, <1>4 DEF Order, NoNodesLeft, Owning, WithMonitor
<1> QED  BY <1>5, <1>6, <1>7, <1>8, <1>9, <1>10, <1>11, <1>12, <1>13 DEF Order

LEMMA OrderLocked ==
  ASSUME Basics, Order, NEW t \in Thread, Reenter(t) \/ ExitInner(t) \/ Pulse(t), UNCHANGED program
  PROVE  Order'
<1>1. thread[t].pc = "held" /\ UNCHANGED <<program, monitor, owner, aborted, freeList, fresh, thread>>
  BY DEF Reenter, ExitInner, Pulse, At, heap, pool
<1>2. Lands(t, "held", Obj(t), Mon(t), thread[t].kind, thread[t].wait)
  BY <1>1 DEF Lands, Obj, Mon
<1>3. \A n \in Monitor \ {Mon(t)} : locks'[n] = locks[n] /\ pulseList'[n] = pulseList[n]
  BY DEF Reenter, ExitInner, Pulse, PulseFirst, heap, lists, Basics, Typed, HeapTyped
<1> QED  BY <1>1, <1>2, <1>3, OrderHeld

LEMMA OrderWait ==
  ASSUME Basics, Order, NEW t \in Thread, Wait(t), UNCHANGED program
  PROVE  Order'
<1>1. PICK k \in program.waits :
        /\ Lands(t, "exit", Obj(t), Mon(t), "infinite",
                 [depth |-> locks[Mon(t)], kind |-> k, pulsed |-> FALSE])
        /\ pulseList' = IF k = "zero" THEN pulseList
                        ELSE [pulseList EXCEPT ![Mon(t)] = <<t>> \o @]
  BY TypedWait DEF Basics
<1>2. /\ thread[t].pc = "held" /\ locks' = [locks EXCEPT ![Mon(t)] = 1]
      /\ UNCHANGED <<program, monitor, owner, aborted, freeList, fresh>>
  BY DEF Wait, At, pool
<1>3. Mon(t) \in Monitor
  BY <1>2, Mine DEF Owning
<1>4. /\ \A n \in Monitor \ {Mon(t)} : locks'[n] = locks[n] /\ pulseList'[n] = pulseList[n]
      /\ locks'[Mon(t)] = 1
  BY <1>1, <1>2, <1>3 DEF Basics, Typed, HeapTyped
<1> QED  BY <1>1, <1>2, <1>4, OrderHeld

LEMMA OrderRestore ==
  ASSUME Basics, Order, NEW t \in Thread, Restore(t), UNCHANGED program
  PROVE  Order'
<1>1. Lands(t, "held", Obj(t), Mon(t), "none", NoWait)
  BY TypedRestore DEF Basics
<1>2. thread[t].pc = "restore" /\ UNCHANGED <<program, monitor, owner, aborted, freeList, fresh>>
  BY DEF Restore, At, pool
<1>3. \A n \in Monitor \ {Mon(t)} : locks'[n] = locks[n] /\ pulseList'[n] = pulseList[n]
  BY DEF Restore, Basics, Typed, HeapTyped
<1> QED  BY <1>1, <1>2, <1>3, OrderHeld

LEMMA OrderStep ==
  ASSUME Basics, Order, MonitorsKeepTheirObject, [Next]_vars
  PROVE  Order'
<1>1. ASSUME UNCHANGED <<Calms, thread>>
      PROVE  Order'
  BY <1>1 DEF Calms, Order, OwnersOwn, HoldersHave, OneDeflates, OneOfEach, FreeIsUnused,
     FreeMonitorsAreClean, FreeIsInstalled, SleepersStay, UnlockedOnce, NoNodesLeft,
     Obj, Mon, Quiet, Installed, Available
<1>2. CASE UNCHANGED vars
  BY <1>1, <1>2 DEF vars, state, heap, lists, pool, Calms
<1>3. CASE Next
  <2>1. UNCHANGED program
    BY <1>3 DEF Next
  <2>2. PICK t \in Thread : Program(t) \/ Run(t) \/ Disturbance(t)
    BY <1>3 DEF Next
  <2>3. CASE Program(t)
    BY <2>1, <2>3, OrderEnter, OrderLocked, OrderWait, OrderExitOuter DEF Program, Leaves
  <2>4. CASE Run(t)
    <3>1. CASE Flush(t)
      BY <1>1, <2>1, <3>1 DEF Flush, lists, pool, Calms
    <3>2. CASE PostOne(t)
      BY <2>1, <3>2, OrderPosted DEF PostOne, At, lists, pool, Calms
    <3>3. CASE PostIfReady(t)
      BY <2>1, <3>3, OrderPosted DEF PostIfReady, At, lists, pool, Calms
    <3> QED  BY <2>1, <2>4, <3>1, <3>2, <3>3, OrderReadMonitor, OrderAllocate, OrderInstall,
                OrderTry, OrderVerify, OrderJoin, OrderLoop, OrderGrab, OrderWake, OrderLastRead,
                OrderLastGrab, OrderUnacquire, OrderDeflate, OrderReturnMonitor, OrderPulsed,
                OrderRestore DEF Run
  <2>5. CASE Disturbance(t)
    BY <2>1, <2>5, OrderEnterTimesOut, OrderWaitGivesUp, OrderEnterIsInterrupted,
       OrderEnterIsAborted, OrderExitInnerAfterAbort, OrderExitAfterAbort DEF Disturbance
  <2> QED  BY <2>2, <2>3, <2>4, <2>5
<1> QED  BY <1>2, <1>3

LEMMA ProgramStays ==
  ASSUME [Next]_vars
  PROVE  MonitorsKeepTheirObject' = MonitorsKeepTheirObject /\ program' = program
<1>1. program' = program
  BY DEF Next, vars
<1> QED  BY <1>1 DEF MonitorsKeepTheirObject, OneObject

\* The inductive invariant behind the theorems below: while monitors keep their
\* object, every monitor that no thread was aborted at is in order.
InOrder == Basics /\ (MonitorsKeepTheirObject => Order)

LEMMA AlwaysInOrder ==
  Spec => []InOrder
<1>1. Init => InOrder
  BY BasicsInit, OrderInit DEF InOrder
<1>2. InOrder /\ [Next]_vars => InOrder'
  BY BasicsStep, OrderStep, ProgramStays DEF InOrder
<1> QED  BY <1>1, <1>2, PTL DEF Spec

\* Monitor::TryEnter tells a thread that it has the lock only when it owns the
\* monitor that is installed on the object.
THEOREM HoldersOwnTheirObject ==
  Spec => []HoldersOwn
<1>1. InOrder => HoldersOwn
  <2> SUFFICES ASSUME InOrder, MonitorsKeepTheirObject, program.aborts = 0,
                      NEW t \in Thread, Holds(t)
               PROVE  monitor[Obj(t)] = Mon(t) /\ owner[Mon(t)] = t
    BY DEF HoldersOwn
  <2>1. Quiet(Mon(t)) /\ Order
    BY DEF InOrder, Basics, AbortsAreRare, Quiet
  <2> QED  BY <2>1 DEF Order, OwnersOwn, HoldersHave, Holds, Holding, Owning, Having
<1> QED  BY <1>1, AlwaysInOrder, PTL

\* At most one thread is told that it has the lock of an object.
THEOREM MutualExclusion ==
  Spec => [](MonitorsKeepTheirObject /\ program.aborts = 0 =>
               \A t, u \in Thread : Holds(t) /\ Holds(u) /\ Obj(t) = Obj(u) => t = u)
<1>1. HoldersOwn => (MonitorsKeepTheirObject /\ program.aborts = 0 =>
               \A t, u \in Thread : Holds(t) /\ Holds(u) /\ Obj(t) = Obj(u) => t = u)
  BY DEF HoldersOwn
<1> QED  BY <1>1, HoldersOwnTheirObject, PTL

-----------------------------------------------------------------------------
(* No thread sleeps on a free lock                                         *)

Helping == {"post", "postIfReady", "try", "join", "loop", "grab", "lastRead", "lastGrab"}
Takeable(n) == owner[n] = Free /\ Installed(n)

\* The programs whose monitors never change their object, without aborts.
Settled == OneObject /\ program.aborts = 0

\* What a step of t has to keep up, for every sleeper on its monitor.
LEMMA NobodySleeps ==
  ASSUME Basics, Order, Settled, NoSleepOnFreeLock, UNCHANGED program, Basics',
         NEW t \in Thread, NEW pc, NEW o, NEW m, NEW k, NEW w, Lands(t, pc, o, m, k, w),
         \A n \in Monitor : Takeable(n)' => Takeable(n) \/ (n = m /\ pc \in Helping),
         \A n \in Monitor : tokens[n] > 0 => tokens'[n] > 0 \/ (n = m /\ pc \in Helping),
         \A n \in Monitor : thread[t].pc \in Helping /\ n = Mon(t) =>
           \/ pc \in Helping /\ m = n
           \/ Takeable(n)' => tokens'[n] > 0,
         pc = "sleep" => owner'[m] # Free
  PROVE  NoSleepOnFreeLock'
<1>1. /\ thread'[t].pc = pc /\ Obj(t)' = o /\ Mon(t)' = m
      /\ \A u \in Thread \ {t} : thread'[u].pc = thread[u].pc /\ Obj(u)' = Obj(u) /\ Mon(u)' = Mon(u)
  BY Landed
<1> SUFFICES ASSUME NEW s \in Thread, thread'[s].pc = "sleep",
                    monitor'[Obj(s)'] = Mon(s)', owner'[Mon(s)'] = Free
             PROVE  tokens'[Mon(s)'] > 0 \/ \E u \in Thread : Helps(u, s)'
  BY DEF NoSleepOnFreeLock, At
<1>2. s # t
  BY <1>1
<1>3. thread[s].pc = "sleep" /\ Obj(s)' = Obj(s) /\ Mon(s)' = Mon(s)
  BY <1>1, <1>2
<1>4. Mon(s) \in Monitor /\ Obj(s) \in Object /\ Obj(s) \in program.objects
  BY <1>3, Knows DEF Basics, WithoutObject, WithMonitor
<1>5. \A n \in Monitor : n = Mon(s) => Takeable(n)'
  BY <1>3, <1>4 DEF Takeable, Installed
<1>6. \A u \in Thread : thread'[u].pc \in Helping => Obj(u)' = Obj(s)
  <2> TAKE u \in Thread
  <2>1. thread'[u].pc \in Helping => Obj(u)' \in program'.objects
    BY DEF Basics, Typed, ThreadsTyped, Local, Helping, WithoutObject
  <2> QED  BY <1>4, <2>1 DEF Settled, OneObject
<1>7. \A u \in Thread : thread'[u].pc \in Helping /\ Mon(u)' = Mon(s) => Helps(u, s)'
  BY <1>3, <1>6 DEF Helps, Helping
<1>8. CASE m = Mon(s) /\ pc \in Helping
  BY <1>1, <1>7, <1>8
<1>9. CASE ~ (m = Mon(s) /\ pc \in Helping)
  <2>1. Takeable(Mon(s))
    BY <1>4, <1>5, <1>9
  <2>2. monitor[Obj(s)] = Mon(s)
    <3>1. PICK p \in Object : monitor[p] = Mon(s)
      BY <2>1 DEF Takeable, Installed
    <3>2. p \in program.objects
      BY <1>4, <3>1, NoneAssumption DEF Order, OneOfEach
    <3> QED  BY <1>4, <3>1, <3>2 DEF Settled, OneObject
  <2>3. tokens[Mon(s)] > 0 \/ \E u \in Thread : Helps(u, s)
    BY <1>3, <2>1, <2>2 DEF NoSleepOnFreeLock, Settled, Takeable, At
  <2>4. CASE tokens[Mon(s)] > 0
    BY <1>3, <1>4, <1>9, <2>4
  <2>5. ASSUME NEW u \in Thread, Helps(u, s)
        PROVE  tokens'[Mon(s)] > 0 \/ \E v \in Thread : Helps(v, s)'
    <3>1. thread[u].pc \in Helping /\ Mon(u) = Mon(s)
      BY <2>5 DEF Helps, Helping
    <3>2. CASE u = t
      BY <1>3, <1>4, <1>5, <1>9, <3>1, <3>2
    <3>3. CASE u # t
      BY <1>1, <1>7, <3>1, <3>3
    <3> QED  BY <3>2, <3>3
  <2> QED  BY <1>3, <2>3, <2>4, <2>5
<1> QED  BY <1>8, <1>9

\* A step that changes no monitor and no tokens, of a thread that did not help.
LEMMA SleepCalm ==
  ASSUME Basics, Order, Settled, NoSleepOnFreeLock, UNCHANGED <<program, monitor, owner, tokens>>, Basics',
         NEW t \in Thread, NEW pc, NEW o, NEW m, NEW k, NEW w, Lands(t, pc, o, m, k, w),
         thread[t].pc \notin Helping \/ (pc \in Helping /\ m = Mon(t)),
         pc # "sleep"
  PROVE  NoSleepOnFreeLock'
<1>1. \A n \in Monitor : Takeable(n)' <=> Takeable(n)
  BY DEF Takeable, Installed
<1> QED  BY <1>1, NobodySleeps

\* A step after which the monitor of t is not to be had.
LEMMA SleepTaken ==
  ASSUME Basics, Order, Settled, NoSleepOnFreeLock, UNCHANGED <<program, tokens>>, Basics',
         NEW t \in Thread, NEW pc, NEW o, NEW m, NEW k, NEW w, Lands(t, pc, o, m, k, w),
         \A n \in Monitor : Takeable(n)' => Takeable(n) /\ n # Mon(t),
         pc = "sleep" => owner'[m] # Free
  PROVE  NoSleepOnFreeLock'
BY NobodySleeps

LEMMA Posted ==
  ASSUME Basics, NEW m \in Monitor, NEW n \in Nat \ {0}, Post(m, n)
  PROVE  tokens'[m] > 0 /\ \A q \in Monitor \ {m} : tokens'[q] = tokens[q]
<1>1. tokens \in [Monitor -> 0 .. MaxTokens]
  BY DEF Basics, Typed, HeapTyped
<1>2. tokens' = [tokens EXCEPT ![m] = IF tokens[m] + n > MaxTokens THEN MaxTokens ELSE tokens[m] + n]
  BY DEF Post
<1>3. tokens'[m] = IF tokens[m] + n > MaxTokens THEN MaxTokens ELSE tokens[m] + n
  BY <1>1, <1>2
<1> QED  BY <1>1, <1>2, <1>3

LEMMA SleepStep ==
  ASSUME Basics, Order, Settled, NoSleepOnFreeLock, [Next]_vars, Basics'
  PROVE  NoSleepOnFreeLock'
<1>0. ASSUME UNCHANGED <<program, thread, monitor, owner, tokens>>
      PROVE  NoSleepOnFreeLock'
  BY <1>0 DEF NoSleepOnFreeLock, OneObject, Obj, Mon, At, Helps
<1>1. CASE UNCHANGED vars
  BY <1>0, <1>1 DEF vars, state, heap
<1>2. CASE Next
  <2>1. UNCHANGED program
    BY <1>2 DEF Next
  <2>2. PICK t \in Thread : Program(t) \/ Run(t) \/ Disturbance(t)
    BY <1>2 DEF Next
  <2>3. \A u \in Thread : thread[u].pc \in WithMonitor => Mon(u) \in Monitor /\ Obj(u) \in Object
    BY Knows DEF Basics, WithoutObject, WithMonitor
  <2>4. owner \in [Monitor -> Thread \cup {Free, Listed}] /\ monitor \in [Object -> Monitor \cup {None}]
    BY DEF Basics, Typed, HeapTyped
  <2>5. \A p \in Object : monitor[p] # None => \A u \in Thread : thread[u].pc \in WithMonitor => Obj(u) = p
    BY Knows DEF Basics, Order, OneOfEach, Settled, OneObject, WithoutObject, WithMonitor
  <2> USE <2>1
  <2>6. CASE Reenter(t) \/ ExitInner(t) \/ Pulse(t)
    BY <1>0, <2>6 DEF Reenter, ExitInner, Pulse, heap
  <2>7. CASE Enter(t)
    <3>1. \E o, k : Lands(t, "read", o, None, k, NoWait)
      BY <2>7, TypedEnter DEF Basics
    <3> QED  BY <2>7, <3>1, SleepCalm DEF Enter, At, heap, Helping
  <2>8. CASE Wait(t)
    <3>1. \E k, w : Lands(t, "exit", Obj(t), Mon(t), k, w)
      BY <2>8, TypedWait DEF Basics
    <3> QED  BY <2>8, <3>1, SleepCalm DEF Wait, At, Helping
  <2>9. CASE ExitOuter(t)
    <3>1. Moves(t, ExitWay(Mon(t))) /\ ExitWay(Mon(t)) \in {"hand", "park", "deflate"}
      BY <2>9, ExitWays, GotoMoves DEF ExitOuter, Basics, Typed, PC
    <3> QED  BY <2>9, <3>1, SleepCalm DEF ExitOuter, At, heap, Helping, Moves
  <2>10. CASE ReadMonitor(t)
    <3>1. \E p, o, m, k, w : p \in {"allocate", "try"} /\ Lands(t, p, o, m, k, w)
      BY <2>10, TypedReadMonitor DEF Basics
    <3> QED  BY <2>10, <3>1, SleepCalm DEF ReadMonitor, At, heap, Helping
  <2>11. CASE Allocate(t)
    <3>1. PICK m \in Monitor : owner' = [owner EXCEPT ![m] = t] /\ Lands(t, "install", Obj(t), m, thread[t].kind, thread[t].wait)
      BY <2>11, TypedAllocate DEF Basics
    <3>2. \A n \in Monitor : Takeable(n)' => Takeable(n)
      BY <2>4, <2>11, <3>1, NoneAssumption DEF Allocate, Takeable, Installed
    <3>3. thread[t].pc = "allocate" /\ tokens' = tokens
      BY <2>11 DEF Allocate, At
    <3> QED  BY <3>1, <3>2, <3>3, NobodySleeps DEF Helping
  <2>12. CASE Install(t)
    <3>1. thread[t].pc = "install" /\ tokens' = tokens
      BY <2>12 DEF Install, At
    <3>2. Moves(t, "held") \/ Moves(t, "restore") \/ Moves(t, "read")
      BY <2>12, EnteredMoves, GotoMoves DEF Install, Basics, Typed, PC
    <3>3. /\ Mon(t) \in Monitor /\ Quiet(Mon(t)) /\ owner[Mon(t)] = t /\ Obj(t) \in Object
      BY <3>1, Mine DEF Order, HoldersHave, Owning
    <3>4. owner'[Mon(t)] # Free /\ \A n \in Monitor \ {Mon(t)} : owner'[n] = owner[n]
      BY <2>4, <2>12, <3>3, NoneAssumption DEF Install, Recycle
    <3>5. \A n \in Monitor \ {Mon(t)} : Installed(n)' => Installed(n)
      BY <2>4, <2>12, <3>3 DEF Install, Installed
    <3>6. \A n \in Monitor : Takeable(n)' => Takeable(n) /\ n # Mon(t)
      BY <3>4, <3>5 DEF Takeable
    <3> QED  BY <3>1, <3>2, <3>4, <3>6, SleepTaken DEF Moves
  <2>13. CASE Try(t)
    <3>1. thread[t].pc = "try" /\ UNCHANGED <<tokens, monitor>> /\ Mon(t) \in Monitor
      BY <2>3, <2>13 DEF Try, At, WithMonitor
    <3>2. CASE TryAcquire(t) /\ Goto(t, "verify")
      <4>1. Moves(t, "verify")
        BY <3>2, GotoMoves DEF Basics, Typed, PC
      <4>2. owner'[Mon(t)] = t /\ \A n \in Monitor \ {Mon(t)} : owner'[n] = owner[n]
        BY <2>4, <3>1, <3>2 DEF TryAcquire
      <4>3. \A n \in Monitor : Takeable(n)' => Takeable(n) /\ n # Mon(t)
        BY <3>1, <4>2, NoneAssumption DEF Takeable, Installed
      <4> QED  BY <3>1, <4>1, <4>3, SleepTaken DEF Moves
    <3>3. CASE owner[Mon(t)] # Free /\ UNCHANGED owner /\ (Become(t, Idle) \/ Goto(t, "join"))
      <4>1. Moves(t, "join") \/ Stops(t)
        BY <3>3, GotoMoves, BecomeStops DEF Basics, Typed, PC
      <4>2. \A n \in Monitor : Takeable(n)' => Takeable(n) /\ n # Mon(t)
        BY <3>1, <3>3 DEF Takeable, Installed
      <4> QED  BY <3>1, <4>1, <4>2, SleepTaken DEF Moves, Stops
    <3> QED  BY <2>13, <3>2, <3>3 DEF Try
  <2>14. CASE Verify(t)
    <3>1. thread[t].pc = "verify" /\ UNCHANGED <<tokens, monitor>> /\ Mon(t) \in Monitor
      BY <2>3, <2>14 DEF Verify, At, WithMonitor
    <3>2. CASE Entered(t) /\ UNCHANGED owner
      <4>1. Moves(t, "held") \/ Moves(t, "restore")
        BY <3>2, EnteredMoves DEF Basics
      <4> QED  BY <3>1, <3>2, <4>1, SleepCalm DEF Moves, Helping
    <3>3. CASE monitor[Obj(t)] # Mon(t) /\ owner' = [owner EXCEPT ![Mon(t)] = Free] /\ Goto(t, "read")
      <4>1. Moves(t, "read")
        BY <3>3, GotoMoves DEF Basics, Typed, PC
      <4>2. \A p \in Object : monitor'[p] # Mon(t)
        BY <2>5, <3>1, <3>3, NoneAssumption DEF WithMonitor
      <4>3. \A n \in Monitor \ {Mon(t)} : Takeable(n)' => Takeable(n)
        BY <2>4, <3>1, <3>3 DEF Takeable, Installed
      <4>4. \A n \in Monitor : Takeable(n)' => Takeable(n) /\ n # Mon(t)
        BY <4>2, <4>3 DEF Takeable, Installed
      <4> QED  BY <3>1, <4>1, <4>4, SleepTaken DEF Moves
    <3> QED  BY <2>14, <3>2, <3>3 DEF Verify
  <2>15. CASE Join(t)
    <3>1. Moves(t, "loop")
      BY <2>15, GotoMoves DEF Join, Basics, Typed, PC
    <3> QED  BY <2>15, <3>1, SleepCalm DEF Join, At, Helping, Moves
  <2>16. CASE Loop(t)
    <3>1. thread[t].pc = "loop" /\ UNCHANGED <<tokens, monitor, owner>> /\ Mon(t) \in Monitor
      BY <2>3, <2>16 DEF Loop, At, WithMonitor
    <3>2. CASE Goto(t, "grab")
      <4>1. Moves(t, "grab")
        BY <3>2, GotoMoves DEF Basics, Typed, PC
      <4> QED  BY <3>1, <4>1, SleepCalm DEF Moves, Helping
    <3>3. CASE monitor[Obj(t)] # Mon(t) /\ Goto(t, "read")
      <4>1. Moves(t, "read")
        BY <3>3, GotoMoves DEF Basics, Typed, PC
      <4>2. \A p \in Object : monitor'[p] # Mon(t)
        BY <2>5, <3>1, <3>3, NoneAssumption DEF WithMonitor
      <4>3. \A n \in Monitor : Takeable(n)' => Takeable(n) /\ n # Mon(t)
        BY <3>1, <4>2 DEF Takeable, Installed
      <4> QED  BY <3>1, <4>1, <4>3, SleepTaken DEF Moves
    <3> QED  BY <2>16, <3>2, <3>3 DEF Loop
  <2>17. CASE Grab(t)
    <3>1. thread[t].pc = "grab" /\ UNCHANGED <<tokens, monitor>> /\ Mon(t) \in Monitor
      BY <2>3, <2>17 DEF Grab, At, WithMonitor
    <3>2. CASE TryAcquire(t) /\ Entered(t)
      <4>1. Moves(t, "held") \/ Moves(t, "restore")
        BY <3>2, EnteredMoves DEF Basics
      <4>2. owner'[Mon(t)] = t /\ \A n \in Monitor \ {Mon(t)} : owner'[n] = owner[n]
        BY <2>4, <3>1, <3>2 DEF TryAcquire
      <4>3. \A n \in Monitor : Takeable(n)' => Takeable(n) /\ n # Mon(t)
        BY <3>1, <4>2, NoneAssumption DEF Takeable, Installed
      <4> QED  BY <3>1, <4>1, <4>3, SleepTaken DEF Moves
    <3>3. CASE owner[Mon(t)] # Free /\ UNCHANGED owner /\ Goto(t, "sleep")
      <4>1. Moves(t, "sleep")
        BY <3>3, GotoMoves DEF Basics, Typed, PC
      <4>2. \A n \in Monitor : Takeable(n)' => Takeable(n) /\ n # Mon(t)
        BY <3>1, <3>3 DEF Takeable, Installed
      <4>3. owner'[Mon(t)] # Free
        BY <3>1, <3>3
      <4> QED  BY <3>1, <4>1, <4>2, <4>3, SleepTaken DEF Moves
    <3> QED  BY <2>17, <3>2, <3>3 DEF Grab
  <2>18. CASE Wake(t)
    <3>1. Moves(t, "loop") /\ Mon(t) \in Monitor /\ thread[t].pc = "sleep"
      BY <2>3, <2>18, GotoMoves DEF Wake, Basics, Typed, PC, At, WithMonitor
    <3>2. \A n \in Monitor \ {Mon(t)} : tokens'[n] = tokens[n]
      BY <2>18, <3>1 DEF Wake, Basics, Typed, HeapTyped
    <3>3. \A n \in Monitor : Takeable(n)' => Takeable(n)
      BY <2>18 DEF Wake, Takeable, Installed
    <3> QED  BY <3>1, <3>2, <3>3, NobodySleeps DEF Helping, Moves
  <2>19. CASE LastRead(t)
    <3>1. thread[t].pc = "lastRead" /\ UNCHANGED <<tokens, monitor, owner>> /\ Mon(t) \in Monitor
      BY <2>3, <2>19 DEF LastRead, At, WithMonitor, heap
    <3>2. CASE Goto(t, "lastGrab")
      <4>1. Moves(t, "lastGrab")
        BY <3>2, GotoMoves DEF Basics, Typed, PC
      <4> QED  BY <3>1, <4>1, SleepCalm DEF Moves, Helping
    <3>3. CASE monitor[Obj(t)] # Mon(t) /\ Become(t, Idle)
      <4>1. Stops(t)
        BY <3>3, BecomeStops DEF Basics, Typed
      <4>2. \A p \in Object : monitor'[p] # Mon(t)
        BY <2>5, <3>1, <3>3, NoneAssumption DEF WithMonitor
      <4>3. \A n \in Monitor : Takeable(n)' => Takeable(n) /\ n # Mon(t)
        BY <3>1, <4>2 DEF Takeable, Installed
      <4> QED  BY <3>1, <4>1, <4>3, SleepTaken DEF Stops
    <3> QED  BY <2>19, <3>2, <3>3 DEF LastRead
  <2>20. CASE LastGrab(t)
    <3>1. thread[t].pc = "lastGrab" /\ UNCHANGED <<tokens, monitor>> /\ Mon(t) \in Monitor
      BY <2>3, <2>20 DEF LastGrab, At, WithMonitor
    <3>2. CASE TryAcquire(t) /\ Entered(t)
      <4>1. Moves(t, "held") \/ Moves(t, "restore")
        BY <3>2, EnteredMoves DEF Basics
      <4>2. owner'[Mon(t)] = t /\ \A n \in Monitor \ {Mon(t)} : owner'[n] = owner[n]
        BY <2>4, <3>1, <3>2 DEF TryAcquire
      <4>3. \A n \in Monitor : Takeable(n)' => Takeable(n) /\ n # Mon(t)
        BY <3>1, <4>2, NoneAssumption DEF Takeable, Installed
      <4> QED  BY <3>1, <4>1, <4>3, SleepTaken DEF Moves
    <3>3. CASE owner[Mon(t)] # Free /\ UNCHANGED owner /\ Become(t, Idle)
      <4>1. Stops(t)
        BY <3>3, BecomeStops DEF Basics, Typed
      <4>2. \A n \in Monitor : Takeable(n)' => Takeable(n) /\ n # Mon(t)
        BY <3>1, <3>3 DEF Takeable, Installed
      <4> QED  BY <3>1, <4>1, <4>2, SleepTaken DEF Stops
    <3> QED  BY <2>20, <3>2, <3>3 DEF LastGrab
  <2>21. CASE Unacquire(t)
    <3>1. /\ thread[t].pc \in {"hand", "park"} /\ UNCHANGED <<tokens, monitor>> /\ Mon(t) \in Monitor
          /\ owner' = [owner EXCEPT ![Mon(t)] = Free]
      BY <2>3, <2>21 DEF Unacquire, At, WithMonitor
    <3>2. Moves(t, "post") \/ Moves(t, "postIfReady")
      BY <2>21, GotoMoves DEF Unacquire, Basics, Typed, PC
    <3>3. \A n \in Monitor : Takeable(n)' => Takeable(n) \/ n = Mon(t)
      BY <2>4, <3>1 DEF Takeable, Installed
    <3> QED  BY <3>1, <3>2, <3>3, NobodySleeps DEF Helping, Moves
  <2>22. ASSUME PostOne(t) \/ PostIfReady(t) \/ ReturnMonitor(t)
         PROVE  \E p, o, m, k, w : p \in {"dead", "idle", "read", "pulse"} /\ Lands(t, p, o, m, k, w)
    BY <2>22, ReleasedTyped DEF PostOne, PostIfReady, ReturnMonitor, At, Basics, Stops
  <2>23. CASE PostOne(t)
    <3>1. tokens'[Mon(t)] > 0 /\ \A n \in Monitor \ {Mon(t)} : tokens'[n] = tokens[n]
      BY <2>3, <2>23, Posted DEF PostOne, At, WithMonitor
    <3>2. \A n \in Monitor : Takeable(n)' => Takeable(n)
      BY <2>23 DEF PostOne, Takeable, Installed
    <3> QED  BY <2>22, <2>23, <3>1, <3>2, NobodySleeps
  <2>24. CASE PostIfReady(t)
    <3>1. thread[t].pc = "postIfReady" /\ Mon(t) \in Monitor /\ UNCHANGED <<monitor, owner>>
      BY <2>3, <2>24 DEF PostIfReady, At, WithMonitor
    <3>2. \A n \in Monitor : Takeable(n)' => Takeable(n)
      BY <3>1 DEF Takeable, Installed
    <3>3. CASE Post(Mon(t), 1)
      <4>1. tokens'[Mon(t)] > 0 /\ \A n \in Monitor \ {Mon(t)} : tokens'[n] = tokens[n]
        BY <3>1, <3>3, Posted
      <4> QED  BY <2>22, <2>24, <3>2, <4>1, NobodySleeps
    <3>4. CASE ready[Mon(t)] = 0 /\ UNCHANGED tokens
      \* with nobody counted, nobody is asleep on this monitor
      <4>1. \A u \in Thread : thread[u].pc = "sleep" => Mon(u) # Mon(t)
        BY <3>1, <3>4, Uncounted DEF Queued
      <4>2. PICK p, o, m, k, w : p \in {"dead", "idle", "read", "pulse"} /\ Lands(t, p, o, m, k, w)
        BY <2>22, <2>24
      <4>3. \A u \in Thread \ {t} : thread'[u] = thread[u]
        BY <4>2 DEF Lands
      <4>4. thread'[t].pc # "sleep"
        BY <4>2 DEF Lands
      <4> SUFFICES ASSUME OneObject', program'.aborts = 0, NEW s \in Thread,
                          thread'[s].pc = "sleep", monitor'[Obj(s)'] = Mon(s)', owner'[Mon(s)'] = Free
                   PROVE  tokens'[Mon(s)'] > 0 \/ \E u \in Thread : Helps(u, s)'
        BY DEF NoSleepOnFreeLock, At
      <4>5. s # t /\ thread[s].pc = "sleep" /\ Obj(s)' = Obj(s) /\ Mon(s)' = Mon(s)
        BY <4>3, <4>4 DEF Obj, Mon
      <4>6. tokens[Mon(s)] > 0 \/ \E u \in Thread : Helps(u, s)
        BY <3>1, <4>5 DEF NoSleepOnFreeLock, Settled, At
      <4>7. CASE tokens[Mon(s)] > 0
        BY <3>4, <4>5, <4>7
      <4>8. ASSUME NEW u \in Thread, Helps(u, s)
            PROVE  Helps(u, s)'
        <5>1. u # t
          BY <4>1, <4>5, <4>8 DEF Helps
        <5> QED  BY <4>3, <4>5, <4>8, <5>1 DEF Helps, Obj, Mon
      <4> QED  BY <4>6, <4>7, <4>8
    <3> QED  BY <2>24, <3>3, <3>4 DEF PostIfReady
  <2>25. CASE Deflate(t)
    <3>1. Moves(t, "flush")
      BY <2>25, GotoMoves DEF Deflate, Basics, Typed, PC
    <3>2. thread[t].pc = "deflate" /\ UNCHANGED <<tokens, owner>> /\ monitor' = [monitor EXCEPT ![Obj(t)] = None]
      BY <2>25 DEF Deflate, At
    <3>3. \A n \in Monitor : Takeable(n)' => Takeable(n)
      BY <2>3, <2>4, <3>2, NoneAssumption DEF Takeable, Installed, WithMonitor
    <3> QED  BY <3>1, <3>2, <3>3, NobodySleeps DEF Helping, Moves
  <2>26. CASE Flush(t)
    <3>1. /\ thread[t].pc = "flush" /\ Mon(t) \in Monitor /\ ready[Mon(t)] \in Nat \ {0}
          /\ Post(Mon(t), ready[Mon(t)]) /\ UNCHANGED <<monitor, owner, thread>>
      BY <2>3, <2>26 DEF Flush, At, WithMonitor, Basics, Typed, HeapTyped
    <3>2. tokens'[Mon(t)] > 0 /\ \A n \in Monitor \ {Mon(t)} : tokens'[n] = tokens[n]
      BY <3>1, Posted
    <3>3. Lands(t, "flush", Obj(t), Mon(t), thread[t].kind, thread[t].wait)
      BY <3>1 DEF Lands, Obj, Mon
    <3>4. \A n \in Monitor : Takeable(n)' => Takeable(n)
      BY <3>1 DEF Takeable, Installed
    <3> QED  BY <3>1, <3>2, <3>3, <3>4, NobodySleeps DEF Helping
  <2>27. CASE ReturnMonitor(t)
    <3>1. /\ thread[t].pc = "flush" /\ Mon(t) \in Monitor /\ UNCHANGED <<monitor, tokens>>
          /\ owner' = [owner EXCEPT ![Mon(t)] = Listed]
      BY <2>3, <2>27 DEF ReturnMonitor, At, WithMonitor, Recycle
    <3>2. \A n \in Monitor : Takeable(n)' => Takeable(n)
      BY <2>4, <3>1, NoneAssumption DEF Takeable, Installed
    <3> QED  BY <2>22, <2>27, <3>1, <3>2, NobodySleeps DEF Helping
  <2>28. CASE Pulsed(t)
    <3>1. \E w : Lands(t, "read", Obj(t), Mon(t), "infinite", w)
      BY <2>28, TypedPulsed DEF Basics
    <3> QED  BY <2>28, <3>1, SleepCalm DEF Pulsed, At, heap, Helping
  <2>29. CASE Restore(t)
    <3>1. Lands(t, "held", Obj(t), Mon(t), "none", NoWait)
      BY <2>29, TypedRestore DEF Basics
    <3> QED  BY <2>29, <3>1, SleepCalm DEF Restore, At, Helping
  <2>30. CASE EnterTimesOut(t)
    <3>1. Moves(t, "lastRead") \/ Stops(t)
      BY <2>30, GotoMoves, BecomeStops DEF EnterTimesOut, Basics, Typed, PC
    <3> QED  BY <2>30, <3>1, SleepCalm DEF EnterTimesOut, At, Helping, Moves, Stops
  <2>31. CASE WaitGivesUp(t)
    <3>1. Moves(t, "read")
      BY <2>31, GotoMoves DEF WaitGivesUp, Basics, Typed, PC
    <3> QED  BY <2>31, <3>1, SleepCalm DEF WaitGivesUp, At, heap, Helping, Moves
  <2>32. CASE EnterIsInterrupted(t)
    <3>1. Lands(t, "thrown", None, None, "none", NoWait) \/ Stops(t)
      BY <2>32, TypedEnterIsInterrupted DEF Basics
    <3> QED  BY <2>32, <3>1, SleepCalm DEF EnterIsInterrupted, At, Helping, Stops
  <2>33. CASE EnterIsAborted(t)
    <3>1. Lands(t, "aborted", Obj(t), Mon(t), "aborted", NoWait)
      BY <2>33, TypedEnterIsAborted DEF Basics
    <3> QED  BY <2>33, <3>1, SleepCalm DEF EnterIsAborted, At, Helping
  <2>34. CASE ExitAfterAbort(t)
    <3>1. Lands(t, "hand", Obj(t), monitor[Obj(t)], thread[t].kind, thread[t].wait)
      BY <2>34, TypedExitAfterAbort DEF Basics
    <3> QED  BY <2>34, <3>1, SleepCalm DEF ExitAfterAbort, LetPass, At, heap, Helping
  <2>35. CASE ExitInnerAfterAbort(t)
    <3>1. Lands(t, "dead", None, None, thread[t].kind, NoWait)
      BY <2>35, TypedExitInnerAfterAbort DEF Basics
    <3> QED  BY <2>35, <3>1, SleepCalm DEF ExitInnerAfterAbort, LetPass, At, Helping
  <2> QED  BY <2>2, <2>6, <2>7, <2>8, <2>9, <2>10, <2>11, <2>12, <2>13, <2>14, <2>15, <2>16, <2>17,
              <2>18, <2>19, <2>20, <2>21, <2>23, <2>24, <2>25, <2>26, <2>27, <2>28, <2>29, <2>30,
              <2>31, <2>32, <2>33, <2>34, <2>35 DEF Program, Run, Disturbance, Leaves
<1> QED  BY <1>1, <1>2

\* A thread that waits in Enter for a lock nobody owns will be woken, or another
\* thread is about to take the lock: the second look at the count after the lock
\* was given up, the test after joining and the flush leave no gap between them.
THEOREM NobodySleepsOnFreeLock ==
  Spec => []NoSleepOnFreeLock
<1>1. Init => InOrder /\ NoSleepOnFreeLock
  BY BasicsInit, OrderInit DEF InOrder, NoSleepOnFreeLock, Init, Idle, At
<1>2. InOrder /\ NoSleepOnFreeLock /\ [Next]_vars => NoSleepOnFreeLock'
  <2> SUFFICES ASSUME InOrder, NoSleepOnFreeLock, [Next]_vars
               PROVE  NoSleepOnFreeLock'
    OBVIOUS
  <2>1. UNCHANGED program
    BY ProgramStays
  <2>2. Basics'
    BY BasicsStep DEF InOrder
  <2>3. CASE Settled
    <3>1. Order
      BY <2>3 DEF InOrder, MonitorsKeepTheirObject, Settled
    <3> QED  BY <2>2, <2>3, <3>1, SleepStep DEF InOrder
  <2>4. CASE ~ Settled
    BY <2>1, <2>4 DEF NoSleepOnFreeLock, Settled, OneObject
  <2> QED  BY <2>3, <2>4
<1>3. InOrder /\ [Next]_vars => InOrder'
  BY BasicsStep, OrderStep, ProgramStays DEF InOrder
<1> QED  BY <1>1, <1>2, <1>3, PTL DEF Spec

-----------------------------------------------------------------------------
(* Nodes belong to threads that wait                                       *)

\* A step of t, to pc, that leaves it its node and its object as long as it waits.
Waiting(t) ==
  \E pc, o, m, k, w :
    /\ Lands(t, pc, o, m, k, w) /\ thread[t].pc # "thrown"
    /\ Waits(t) => pc = "thrown" \/ (w # NoWait /\ o = Obj(t))

LEMMA WaitingMoves ==
  ASSUME NEW t, NEW pc, Moves(t, pc), thread[t].pc # "thrown"
  PROVE  Waiting(t)
BY DEF Waiting, Moves, Waits

LEMMA WaitingStops ==
  ASSUME NEW t, Stops(t), thread[t].pc # "thrown", ~ Waits(t)
  PROVE  Waiting(t)
BY DEF Waiting, Stops

LEMMA NodesKept ==
  ASSUME Basics, NodesAreWaiting, NEW t \in Thread, Waiting(t), UNCHANGED pulseList,
         \A p \in Object : monitor[p] \in Monitor =>
           monitor'[p] = monitor[p] \/ pulseList[monitor[p]] = <<>>
  PROVE  NodesAreWaiting'
<1>1. PICK pc, o, m, k, w :
        /\ Lands(t, pc, o, m, k, w) /\ thread[t].pc # "thrown"
        /\ Waits(t) => pc = "thrown" \/ (w # NoWait /\ o = Obj(t))
  BY DEF Waiting
<1>2. ASSUME NEW n \in Monitor, NEW u \in Thread, u \in Range(pulseList[n])
      PROVE  thread'[u].pc = "thrown" \/ (thread'[u].wait # NoWait /\ monitor'[thread'[u].obj] = n)
  <2>1. thread[u].pc = "thrown" \/ (Waits(u) /\ monitor[Obj(u)] = n)
    BY <1>2 DEF NodesAreWaiting, At
  <2>2. Waits(u) => thread[u].pc \notin WithoutObject
    BY DEF Basics, Typed, ThreadsTyped, Local, WithoutObject
  <2>3. Waits(u) => Obj(u) \in Object
    BY <2>2, Knows DEF Basics
  <2>4. pulseList[n] # <<>>
    BY <1>2 DEF Range
  <2>5. Waits(u) /\ monitor[Obj(u)] = n => monitor'[Obj(u)] = n
    BY <2>3, <2>4
  <2>6. CASE u = t
    BY <1>1, <2>1, <2>5, <2>6 DEF Lands
  <2>7. CASE u # t
    BY <1>1, <2>1, <2>5, <2>7 DEF Lands, Obj, Waits
  <2> QED  BY <2>6, <2>7
<1>3. \A n \in Monitor : IsInjective(pulseList[n]) /\ Range(pulseList[n]) \subseteq Thread
  BY DEF NodesAreWaiting, Basics, Typed, HeapTyped, Range
<1> QED  BY <1>2, <1>3 DEF NodesAreWaiting, At, Waits, Obj

\* A thread with this object and this wait may have a node on the list of n.
Entitled(o, w, n) == w # NoWait /\ monitor[o] = n

\* Only the owner of the installed monitor changes its list.
LEMMA NodesChanged ==
  ASSUME Basics, Order, NodesAreWaiting, NEW t \in Thread,
         NEW pc, NEW o, NEW m, NEW k, NEW w, Lands(t, pc, o, m, k, w), UNCHANGED monitor,
         thread[t].pc # "thrown", Mon(t) \in Monitor,
         NEW s \in Seq(Thread), pulseList' = [pulseList EXCEPT ![Mon(t)] = s],
         IsInjective(s), Range(s) \subseteq Range(pulseList[Mon(t)]) \cup {t},
         t \in Range(s) => Entitled(o, w, Mon(t)),
         \A n \in Monitor \ {Mon(t)} : t \notin Range(pulseList[n])
  PROVE  NodesAreWaiting'
<1>1. pulseList \in [Monitor -> Seq(Thread)]
  BY DEF Basics, Typed, HeapTyped
<1>2. pulseList'[Mon(t)] = s /\ \A n \in Monitor \ {Mon(t)} : pulseList'[n] = pulseList[n]
  BY <1>1
<1>3. ASSUME NEW n \in Monitor, NEW u \in Range(pulseList'[n])
      PROVE  thread'[u].pc = "thrown" \/ (thread'[u].wait # NoWait /\ monitor'[thread'[u].obj] = n)
  <2>1. CASE u = t
    BY <1>2, <1>3, <2>1 DEF Lands, Entitled
  <2>2. CASE u # t
    <3>1. u \in Range(pulseList[n])
      BY <1>2, <1>3, <2>2
    <3>2. u \in Thread
      BY <1>1, <3>1 DEF Range
    <3> QED  BY <2>2, <3>1, <3>2 DEF NodesAreWaiting, At, Waits, Obj, Lands
  <2> QED  BY <2>1, <2>2
<1>4. \A n \in Monitor : IsInjective(pulseList'[n])
  BY <1>2 DEF NodesAreWaiting
<1> QED  BY <1>3, <1>4 DEF NodesAreWaiting, At, Waits, Obj

LEMMA Pushed ==
  ASSUME NEW s \in Seq(Thread), NEW t \in Thread, IsInjective(s), t \notin Range(s)
  PROVE  /\ <<t>> \o s \in Seq(Thread) /\ IsInjective(<<t>> \o s)
         /\ Range(<<t>> \o s) \subseteq Range(s) \cup {t}
<1> DEFINE r == <<t>> \o s
<1>1. r \in Seq(Thread) /\ Len(r) = Len(s) + 1
      /\ \A i \in 1 .. Len(r) : r[i] = IF i = 1 THEN t ELSE s[i - 1]
  BY ConcatProperties
<1> HIDE DEF r
<1>2. \A i, j \in 1 .. Len(s) : s[i] = s[j] => i = j
  BY DEF IsInjective
<1>3. \A i \in 1 .. Len(s) : s[i] # t
  BY DEF Range
<1>4. \A i, j \in 1 .. Len(r) : r[i] = r[j] => i = j
  <2> TAKE i, j \in 1 .. Len(r)
  <2>1. CASE i = 1 /\ j = 1
    BY <2>1
  <2>2. CASE i = 1 /\ j # 1
    <3>1. j - 1 \in 1 .. Len(s) /\ r[i] = t /\ r[j] = s[j - 1]
      BY <1>1, <2>2
    <3> QED  BY <1>3, <3>1
  <2>3. CASE i # 1 /\ j = 1
    <3>1. i - 1 \in 1 .. Len(s) /\ r[j] = t /\ r[i] = s[i - 1]
      BY <1>1, <2>3
    <3> QED  BY <1>3, <3>1
  <2>4. CASE i # 1 /\ j # 1
    <3>1. i - 1 \in 1 .. Len(s) /\ j - 1 \in 1 .. Len(s) /\ r[i] = s[i - 1] /\ r[j] = s[j - 1]
      BY <1>1, <2>4
    <3>2. i - 1 = j - 1 => i = j
      BY <1>1
    <3> QED  BY <1>2, <3>1, <3>2
  <2> QED  BY <2>1, <2>2, <2>3, <2>4
<1>5. \A i \in 1 .. Len(r) : r[i] \in Range(s) \cup {t}
  BY <1>1 DEF Range
<1>6. IsInjective(r) /\ Range(r) \subseteq Range(s) \cup {t}
  BY <1>1, <1>4, <1>5 DEF IsInjective, Range
<1> QED  BY <1>1, <1>6 DEF r

LEMMA Dropped ==
  ASSUME NEW s \in Seq(Thread), NEW n \in Nat, n <= Len(s), IsInjective(s)
  PROVE  /\ IsInjective(SubSeq(s, n + 1, Len(s)))
         /\ Range(SubSeq(s, n + 1, Len(s))) \subseteq Range(s)
<1> DEFINE r == SubSeq(s, n + 1, Len(s))
<1>1. r \in Seq(Thread) /\ Len(r) = Len(s) - n /\ \A i \in 1 .. Len(r) : r[i] = s[n + i]
  BY SubSeqProperties
<1> HIDE DEF r
<1>2. \A i, j \in 1 .. Len(s) : s[i] = s[j] => i = j
  BY DEF IsInjective
<1>3. \A i, j \in 1 .. Len(r) : r[i] = r[j] => i = j
  <2> TAKE i, j \in 1 .. Len(r)
  <2>1. n + i \in 1 .. Len(s) /\ n + j \in 1 .. Len(s)
    BY <1>1
  <2> QED  BY <1>1, <1>2, <2>1
<1>4. \A i \in 1 .. Len(r) : r[i] \in Range(s)
  <2> TAKE i \in 1 .. Len(r)
  <2>1. n + i \in 1 .. Len(s)
    BY <1>1
  <2>2. r[i] = s[n + i]
    BY <1>1
  <2> QED  BY <2>1, <2>2 DEF Range
<1>5. DOMAIN r = 1 .. Len(r)
  BY <1>1
<1>6. IsInjective(r) /\ Range(r) \subseteq Range(s)
  BY <1>3, <1>4, <1>5 DEF IsInjective, Range
<1> QED  BY <1>6 DEF r

LEMMA NodesStep ==
  ASSUME Basics, Order, NodesAreWaiting, program.aborts = 0, [Next]_vars
  PROVE  NodesAreWaiting'
<1>0. ASSUME UNCHANGED <<thread, monitor, pulseList>>
      PROVE  NodesAreWaiting'
  BY <1>0 DEF NodesAreWaiting, At, Waits, Obj
<1>1. CASE UNCHANGED vars
  BY <1>0, <1>1 DEF vars, state, heap, lists
<1>2. CASE Next
  <2>1. UNCHANGED program
    BY <1>2 DEF Next
  <2>2. PICK t \in Thread : Program(t) \/ Run(t) \/ Disturbance(t)
    BY <1>2 DEF Next
  <2>3. /\ thread[t].pc \in WithMonitor => Mon(t) \in Monitor
        /\ thread[t].pc \notin WithoutObject => Obj(t) \in Object
    BY Knows DEF Basics, WithoutObject, WithMonitor
  <2>4. /\ thread[t].pc \in {"idle", "held", "thrown", "dead"} => ~ Waits(t)
        /\ Waits(t) => thread[t].kind = "infinite"
        /\ thread[t].pc \in {"lastRead", "lastGrab"} => thread[t].kind = "timed"
        /\ thread[t].kind # "aborted"
    BY DEF Basics, Typed, ThreadsTyped, Local, AbortsAreRare, Casualties
  <2>5. \A m \in Monitor : Quiet(m)
    BY DEF Basics, AbortsAreRare, Quiet
  <2>6. /\ monitor \in [Object -> Monitor \cup {None}]
        /\ pulseList \in [Monitor -> Seq(Thread)]
    BY DEF Basics, Typed, HeapTyped
  <2> USE <2>1
  <2>7. ASSUME Waiting(t), UNCHANGED <<monitor, pulseList>>
        PROVE  NodesAreWaiting'
    BY <2>7, NodesKept
  <2>8. CASE Reenter(t) \/ ExitInner(t)
    BY <1>0, <2>8 DEF Reenter, ExitInner, lists
  <2>9. CASE Enter(t)
    <3>1. PICK o, k : Lands(t, "read", o, None, k, NoWait)
      BY <2>9, TypedEnter DEF Basics
    <3>2. ~ Waits(t) /\ thread[t].pc = "idle"
      BY <2>4, <2>9 DEF Enter, At
    <3>3. Waiting(t)
      BY <3>1, <3>2 DEF Waiting
    <3> QED  BY <2>7, <2>9, <3>3 DEF Enter, heap, lists
  <2>10. CASE ReadMonitor(t)
    <3>1. PICK p, m : Lands(t, p, Obj(t), m, thread[t].kind, thread[t].wait)
      BY <2>10, TypedReadMonitor DEF Basics
    <3>2. Waiting(t)
      BY <2>10, <3>1 DEF Waiting, Waits, ReadMonitor, At
    <3> QED  BY <2>7, <2>10, <3>2 DEF ReadMonitor, heap, lists
  <2>11. CASE Allocate(t)
    <3>1. PICK m : Lands(t, "install", Obj(t), m, thread[t].kind, thread[t].wait)
      BY <2>11, TypedAllocate DEF Basics
    <3>2. Waiting(t)
      BY <2>11, <3>1 DEF Waiting, Waits, Allocate, At
    <3> QED  BY <2>7, <2>11, <3>2 DEF Allocate, lists
  <2>12. CASE Install(t)
    <3>1. Moves(t, "held") \/ Moves(t, "restore") \/ Moves(t, "read")
      BY <2>12, EnteredMoves, GotoMoves DEF Install, Basics, Typed, PC
    <3>2. Waiting(t)
      BY <2>12, <3>1, WaitingMoves DEF Install, At
    <3>3. \A p \in Object : monitor[p] \in Monitor => monitor'[p] = monitor[p]
      BY <2>3, <2>6, <2>12, NoneAssumption DEF Install
    <3> QED  BY <2>12, <3>2, <3>3, NodesKept DEF Install, lists
  <2>13. CASE Try(t)
    <3>1. Moves(t, "verify") \/ Moves(t, "join") \/ (Stops(t) /\ thread[t].kind = "zero")
      BY <2>13, GotoMoves, BecomeStops DEF Try, Basics, Typed, PC
    <3>2. Waiting(t)
      BY <2>4, <2>13, <3>1, WaitingMoves, WaitingStops DEF Try, At
    <3> QED  BY <2>7, <2>13, <3>2 DEF Try, lists
  <2>14. CASE Verify(t)
    <3>1. Moves(t, "held") \/ Moves(t, "restore") \/ Moves(t, "read")
      BY <2>14, EnteredMoves, GotoMoves DEF Verify, Basics, Typed, PC
    <3>2. Waiting(t)
      BY <2>14, <3>1, WaitingMoves DEF Verify, At
    <3> QED  BY <2>7, <2>14, <3>2 DEF Verify, lists
  <2>15. CASE Join(t)
    <3>1. Waiting(t)
      BY <2>15, GotoMoves, WaitingMoves DEF Join, At, Basics, Typed, PC
    <3> QED  BY <2>7, <2>15, <3>1 DEF Join, lists
  <2>16. CASE Loop(t)
    <3>1. Waiting(t)
      BY <2>16, GotoMoves, WaitingMoves DEF Loop, At, Basics, Typed, PC
    <3> QED  BY <2>7, <2>16, <3>1 DEF Loop, lists
  <2>17. CASE Grab(t)
    <3>1. Moves(t, "held") \/ Moves(t, "restore") \/ Moves(t, "sleep")
      BY <2>17, EnteredMoves, GotoMoves DEF Grab, Basics, Typed, PC
    <3>2. Waiting(t)
      BY <2>17, <3>1, WaitingMoves DEF Grab, At
    <3> QED  BY <2>7, <2>17, <3>2 DEF Grab, lists
  <2>18. CASE Wake(t)
    <3>1. Waiting(t)
      BY <2>18, GotoMoves, WaitingMoves DEF Wake, At, Basics, Typed, PC
    <3> QED  BY <2>7, <2>18, <3>1 DEF Wake, lists
  <2>19. CASE LastRead(t)
    <3>1. Moves(t, "lastGrab") \/ Stops(t)
      BY <2>19, GotoMoves, BecomeStops DEF LastRead, Basics, Typed, PC
    <3>2. Waiting(t)
      BY <2>4, <2>19, <3>1, WaitingMoves, WaitingStops DEF LastRead, At
    <3> QED  BY <2>7, <2>19, <3>2 DEF LastRead, heap, lists
  <2>20. CASE LastGrab(t)
    <3>1. Moves(t, "held") \/ Moves(t, "restore") \/ Stops(t)
      BY <2>20, EnteredMoves, BecomeStops DEF LastGrab, Basics, Typed
    <3>2. Waiting(t)
      BY <2>4, <2>20, <3>1, WaitingMoves, WaitingStops DEF LastGrab, At
    <3> QED  BY <2>7, <2>20, <3>2 DEF LastGrab, lists
  <2>21. CASE Unacquire(t)
    <3>1. Moves(t, "post") \/ Moves(t, "postIfReady")
      BY <2>21, GotoMoves DEF Unacquire, Basics, Typed, PC
    <3>2. Waiting(t)
      BY <2>21, <3>1, WaitingMoves DEF Unacquire, At
    <3> QED  BY <2>7, <2>21, <3>2 DEF Unacquire, lists
  <2>22. ASSUME PostOne(t) \/ PostIfReady(t) \/ ReturnMonitor(t)
         PROVE  Waiting(t)
    <3>1. /\ thread[t].pc \in {"post", "postIfReady", "flush"}
          /\ IF ~ Waits(t) THEN Stops(t)
             ELSE Lands(t, IF thread[t].wait.kind = "zero" THEN "read" ELSE "pulse", Obj(t), None,
                        thread[t].kind, thread[t].wait)
      BY <2>4, <2>22, ReleasedTyped DEF PostOne, PostIfReady, ReturnMonitor, At, Basics
    <3> QED  BY <3>1, WaitingStops DEF Waiting, Waits
  <2>23. CASE PostOne(t) \/ PostIfReady(t) \/ ReturnMonitor(t)
    BY <2>7, <2>22, <2>23 DEF PostOne, PostIfReady, ReturnMonitor, lists
  <2>24. CASE Deflate(t)
    <3>1. Waiting(t)
      BY <2>24, GotoMoves, WaitingMoves DEF Deflate, At, Basics, Typed, PC
    <3>2. thread[t].pc = "deflate" /\ UNCHANGED pulseList /\ monitor' = [monitor EXCEPT ![Obj(t)] = None]
      BY <2>24 DEF Deflate, At, lists
    <3>3. monitor[Obj(t)] = Mon(t) /\ pulseList[Mon(t)] = <<>>
      BY <2>3, <2>5, <3>2 DEF Order, HoldersHave, NoNodesLeft, WithMonitor
    <3>4. \A p \in Object : monitor[p] \in Monitor =>
            monitor'[p] = monitor[p] \/ pulseList[monitor[p]] = <<>>
      BY <2>6, <3>2, <3>3
    <3> QED  BY <3>1, <3>2, <3>4, NodesKept
  <2>25. CASE Flush(t)
    BY <1>0, <2>25 DEF Flush, lists
  <2>26. CASE Pulsed(t)
    <3>1. /\ Lands(t, "read", Obj(t), Mon(t), "infinite", [thread[t].wait EXCEPT !.pulsed = TRUE])
          /\ [thread[t].wait EXCEPT !.pulsed = TRUE] # NoWait
      BY <2>26, TypedPulsed DEF Basics
    <3>2. Waiting(t)
      BY <2>26, <3>1 DEF Waiting, Pulsed, At
    <3> QED  BY <2>7, <2>26, <3>2 DEF Pulsed, heap
  <2>27. CASE EnterTimesOut(t)
    <3>1. thread[t].kind = "timed" /\ (Moves(t, "lastRead") \/ Stops(t))
      BY <2>27, GotoMoves, BecomeStops DEF EnterTimesOut, Basics, Typed, PC
    <3>2. Waiting(t)
      BY <2>4, <2>27, <3>1, WaitingMoves, WaitingStops DEF EnterTimesOut, At
    <3> QED  BY <2>7, <2>27, <3>2 DEF EnterTimesOut, lists
  <2>28. CASE WaitGivesUp(t)
    <3>1. Waiting(t)
      BY <2>28, GotoMoves, WaitingMoves DEF WaitGivesUp, At, Basics, Typed, PC
    <3> QED  BY <2>7, <2>28, <3>1 DEF WaitGivesUp, heap, lists
  <2>29. CASE EnterIsInterrupted(t)
    <3>1. IF Waits(t) THEN Lands(t, "thrown", None, None, "none", NoWait) ELSE Stops(t)
      BY <2>29, TypedEnterIsInterrupted DEF Basics
    <3>2. thread[t].pc # "thrown"
      BY <2>29 DEF EnterIsInterrupted, At
    <3>3. Waiting(t)
      BY <3>1, <3>2, WaitingStops DEF Waiting
    <3> QED  BY <2>7, <2>29, <3>3 DEF EnterIsInterrupted, lists
  <2>30. CASE EnterIsAborted(t)
    <3>1. Cardinality(Casualties) < 0
      BY <2>30 DEF EnterIsAborted, Casualties
    <3>2. Cardinality(Casualties) \in Nat
      BY FiniteCounts, FS_CardinalityType
    <3> QED  BY <3>1, <3>2
  <2>31. CASE ExitInnerAfterAbort(t) \/ ExitAfterAbort(t)
    BY <2>31, TypedExitInnerAfterAbort, TypedExitAfterAbort DEF Basics, AbortsAreRare
  <2>32. CASE ExitOuter(t)
    <3>1. ExitWay(Mon(t)) \in PC /\ thread[t].pc # "thrown"
      BY <2>32, ExitWays DEF PC, ExitOuter, At
    <3>2. Waiting(t)
      BY <2>32, <3>1, GotoMoves, WaitingMoves DEF ExitOuter, Basics, Typed
    <3> QED  BY <2>7, <2>32, <3>2 DEF ExitOuter, heap, lists
  <2>33. ASSUME thread[t].pc \in {"held", "restore"}
         PROVE  /\ Mon(t) \in Monitor /\ monitor[Obj(t)] = Mon(t)
                /\ pulseList[Mon(t)] \in Seq(Thread) /\ IsInjective(pulseList[Mon(t)])
                /\ \A n \in Monitor \ {Mon(t)} : t \notin Range(pulseList[n])
                /\ thread[t].pc = "held" => t \notin Range(pulseList[Mon(t)])
    <3>1. Mon(t) \in Monitor /\ monitor[Obj(t)] = Mon(t)
      BY <2>3, <2>5, <2>33 DEF Order, HoldersHave, Having, WithMonitor
    <3>2. \A n \in Monitor : t \in Range(pulseList[n]) => Waits(t) /\ monitor[Obj(t)] = n
      BY <2>33 DEF NodesAreWaiting, At
    <3> QED  BY <2>4, <2>6, <3>1, <3>2 DEF NodesAreWaiting
  <2>34. CASE Wait(t)
    <3>1. thread[t].pc = "held" /\ UNCHANGED monitor
      BY <2>34 DEF Wait, At
    <3>2. PICK k \in program.waits :
            /\ Lands(t, "exit", Obj(t), Mon(t), "infinite",
                     [depth |-> locks[Mon(t)], kind |-> k, pulsed |-> FALSE])
            /\ pulseList' = IF k = "zero" THEN pulseList
                            ELSE [pulseList EXCEPT ![Mon(t)] = <<t>> \o @]
            /\ k # "none"
      BY <2>34, TypedWait DEF Basics
    <3> DEFINE wait == [depth |-> locks[Mon(t)], kind |-> k, pulsed |-> FALSE]
               list == <<t>> \o pulseList[Mon(t)]
    <3>3. wait # NoWait
      BY <3>2 DEF NoWait
    <3>4. CASE k = "zero"
      <4>1. Waiting(t)
        BY <3>1, <3>2, <3>3 DEF Waiting
      <4> QED  BY <2>7, <3>1, <3>2, <3>4, <4>1
    <3>5. CASE k # "zero"
      <4>1. /\ Mon(t) \in Monitor /\ monitor[Obj(t)] = Mon(t)
            /\ pulseList[Mon(t)] \in Seq(Thread) /\ IsInjective(pulseList[Mon(t)])
            /\ \A n \in Monitor \ {Mon(t)} : t \notin Range(pulseList[n])
            /\ t \notin Range(pulseList[Mon(t)])
        BY <2>33, <3>1
      <4>2. list \in Seq(Thread) /\ IsInjective(list) /\ Range(list) \subseteq Range(pulseList[Mon(t)]) \cup {t}
        BY <4>1, Pushed
      <4>3. pulseList' = [pulseList EXCEPT ![Mon(t)] = list]
        BY <3>2, <3>5
      <4> HIDE DEF list, wait
      <4>4. PICK v : Lands(t, "exit", Obj(t), Mon(t), "infinite", v) /\ v # NoWait
        BY <3>2, <3>3 DEF wait
      <4>5. thread[t].pc # "thrown" /\ Entitled(Obj(t), v, Mon(t))
        BY <3>1, <4>1, <4>4 DEF Entitled
      <4>6. PICK r \in Seq(Thread) :
              /\ pulseList' = [pulseList EXCEPT ![Mon(t)] = r] /\ IsInjective(r)
              /\ Range(r) \subseteq Range(pulseList[Mon(t)]) \cup {t}
        BY <4>2, <4>3
      <4> QED  BY <3>1, <4>1, <4>4, <4>5, <4>6, NodesChanged
    <3> QED  BY <3>4, <3>5
  <2>35. CASE Restore(t)
    <3>1. thread[t].pc = "restore" /\ UNCHANGED monitor
      BY <2>35 DEF Restore, At
    <3>2. Lands(t, "held", Obj(t), Mon(t), "none", NoWait)
      BY <2>35, TypedRestore DEF Basics
    <3> DEFINE s == Unlink(pulseList[Mon(t)], t)
    <3>3. pulseList' = [pulseList EXCEPT ![Mon(t)] = s]
      BY <2>35 DEF Restore
    <3>4. s \in Seq(Thread) /\ IsInjective(s) /\ Range(s) \subseteq Range(pulseList[Mon(t)])
          /\ t \notin Range(s)
      BY <2>33, <3>1, Unlinked
    <3> HIDE DEF s
    <3> QED  BY <2>33, <3>1, <3>2, <3>3, <3>4, NodesChanged
  <2>36. CASE Pulse(t)
    <3>1. thread[t].pc = "held" /\ UNCHANGED <<monitor, thread>>
      BY <2>36 DEF Pulse, At, heap
    <3>2. PICK n \in Nat \ {0} : n <= Len(pulseList[Mon(t)]) /\ PulseFirst(t, n)
            /\ SubSeq(pulseList[Mon(t)], n + 1, Len(pulseList[Mon(t)])) \in Seq(Thread)
      BY <2>36, PulseTakes DEF Basics
    <3> DEFINE s == SubSeq(pulseList[Mon(t)], n + 1, Len(pulseList[Mon(t)]))
    <3>3. pulseList' = [pulseList EXCEPT ![Mon(t)] = s]
      BY <3>2 DEF PulseFirst
    <3>4. s \in Seq(Thread) /\ IsInjective(s) /\ Range(s) \subseteq Range(pulseList[Mon(t)])
      BY <2>33, <3>1, <3>2, Dropped
    <3>5. Lands(t, "held", Obj(t), Mon(t), thread[t].kind, thread[t].wait)
      BY <3>1 DEF Lands, Obj, Mon
    <3> HIDE DEF s
    <3> QED  BY <2>33, <3>1, <3>3, <3>4, <3>5, NodesChanged
  <2> QED  BY <2>2, <2>8, <2>9, <2>10, <2>11, <2>12, <2>13, <2>14, <2>15, <2>16, <2>17, <2>18, <2>19,
              <2>20, <2>21, <2>23, <2>24, <2>25, <2>26, <2>27, <2>28, <2>29, <2>30, <2>31, <2>32,
              <2>34, <2>35, <2>36 DEF Program, Run, Disturbance, Leaves
<1> QED  BY <1>1, <1>2

-----------------------------------------------------------------------------
(* An idle object is deflated                                              *)

Endless ==
  OneObject /\ program.enters = {"infinite"} /\ program.interrupts = {} /\ program.aborts = 0

\* Where a thread still has something to do with its object.
Staying == PC \ (WithoutObject \cup {"post", "postIfReady", "flush"})

\* Somebody still comes for an installed monitor that nobody owns; and a thread
\* that leaves a monitor installed knows who.
SomebodyComes ==
  /\ \A o \in Object : monitor[o] # None /\ owner[monitor[o]] = Free =>
       \/ pulseList[monitor[o]] # <<>>
       \/ \E u \in Thread : Obj(u) = o /\ thread[u].pc \in Staying
  /\ \A t \in Thread : thread[t].pc = "hand" =>
       \E u \in Thread : thread[u].pc \in Queued /\ Mon(u) = Mon(t)
  /\ \A t \in Thread : thread[t].pc = "park" => pulseList[Mon(t)] # <<>>

Rare == Endless /\ SomebodyComes

\* A step of t that disturbs none of this.
LEMMA ComingStays ==
  ASSUME Basics, Order, Rare, UNCHANGED program, Basics',
         NEW t \in Thread, NEW pc, NEW o, NEW m, NEW k, NEW w, Lands(t, pc, o, m, k, w),
         \A p \in Object : monitor'[p] # None /\ owner'[monitor'[p]] = Free =>
           \/ monitor'[p] = monitor[p] /\ owner[monitor[p]] = Free
           \/ pc \in Staying /\ o = p
           \/ pulseList'[monitor'[p]] # <<>>
           \/ \E u \in Thread \ {t} : Obj(u) = p /\ thread[u].pc \in Staying,
         \A n \in Monitor : pulseList[n] # <<>> =>
           \/ pulseList'[n] # <<>>
           \/ /\ owner'[n] # Free
              /\ \A u \in Thread \ {t} : thread[u].pc = "park" => Mon(u) # n,
         thread[t].pc \in Staying =>
           \/ pc \in Staying /\ o = Obj(t)
           \/ \A p \in Object : monitor[p] # None => owner[monitor[p]] # Free,
         thread[t].pc \in Queued =>
           \/ pc \in Queued /\ m = Mon(t)
           \/ \A u \in Thread \ {t} : thread[u].pc = "hand" => Mon(u) # Mon(t),
         pc = "hand" => \E u \in Thread \ {t} : thread[u].pc \in Queued /\ Mon(u) = m,
         pc = "park" => m \in Monitor /\ pulseList'[m] # <<>>
  PROVE  SomebodyComes'
<1>1. /\ thread'[t].pc = pc /\ Obj(t)' = o /\ Mon(t)' = m
      /\ \A u \in Thread \ {t} : thread'[u].pc = thread[u].pc /\ Obj(u)' = Obj(u) /\ Mon(u)' = Mon(u)
  BY Landed
<1>2. ASSUME NEW p \in Object, monitor'[p] # None, owner'[monitor'[p]] = Free
      PROVE  \/ pulseList'[monitor'[p]] # <<>>
             \/ \E u \in Thread : Obj(u)' = p /\ thread'[u].pc \in Staying
  <2>1. CASE monitor'[p] = monitor[p] /\ owner[monitor[p]] = Free
    <3>1. monitor[p] \in Monitor
      BY <1>2, <2>1 DEF Basics, Typed, HeapTyped
    <3>2. \/ pulseList[monitor[p]] # <<>>
          \/ \E u \in Thread : Obj(u) = p /\ thread[u].pc \in Staying
      BY <1>2, <2>1 DEF Rare, SomebodyComes
    <3>3. CASE pulseList[monitor[p]] # <<>>
      BY <1>2, <2>1, <3>1, <3>3
    <3>4. ASSUME NEW u \in Thread, Obj(u) = p, thread[u].pc \in Staying
          PROVE  \E v \in Thread : Obj(v)' = p /\ thread'[v].pc \in Staying
      BY <1>1, <1>2, <2>1, <3>4
    <3> QED  BY <2>1, <3>2, <3>3, <3>4
  <2>2. CASE pc \in Staying /\ o = p
    BY <1>1, <2>2
  <2>3. CASE \E u \in Thread \ {t} : Obj(u) = p /\ thread[u].pc \in Staying
    BY <1>1, <2>3
  <2> QED  BY <1>2, <2>1, <2>2, <2>3
<1>3. ASSUME NEW v \in Thread, thread'[v].pc = "hand"
      PROVE  \E u \in Thread : thread'[u].pc \in Queued /\ Mon(u)' = Mon(v)'
  <2>1. CASE v = t
    BY <1>1, <1>3, <2>1
  <2>2. CASE v # t
    <3>1. PICK u \in Thread : thread[u].pc \in Queued /\ Mon(u) = Mon(v)
      BY <1>1, <1>3, <2>2 DEF Rare, SomebodyComes
    <3> QED  BY <1>1, <1>3, <2>2, <3>1
  <2> QED  BY <2>1, <2>2
<1>4. ASSUME NEW v \in Thread, thread'[v].pc = "park"
      PROVE  \A n \in Monitor : n = Mon(v)' => pulseList'[n] # <<>>
  <2>1. CASE v = t
    BY <1>1, <1>4, <2>1
  <2>2. CASE v # t
    <3>1. thread[v].pc = "park" /\ Mon(v)' = Mon(v)
      BY <1>1, <1>4, <2>2
    <3>2. Mon(v) \in Monitor /\ pulseList[Mon(v)] # <<>>
      BY <3>1, Knows DEF Basics, Rare, SomebodyComes, WithMonitor, WithoutObject
    <3> QED  BY <2>2, <3>1, <3>2
  <2> QED  BY <2>1, <2>2
<1>5. \A v \in Thread : thread'[v].pc = "park" => Mon(v)' \in Monitor
  BY DEF Basics, Typed, ThreadsTyped, Local, WithMonitor
<1> QED  BY <1>2, <1>3, <1>4, <1>5 DEF SomebodyComes

LEMMA ComesStep ==
  ASSUME Basics, Order, Rare, [Next]_vars, Basics'
  PROVE  SomebodyComes'
<1>0. ASSUME UNCHANGED <<thread, monitor, owner, pulseList>>
      PROVE  SomebodyComes'
  BY <1>0 DEF Rare, SomebodyComes, Obj, Mon
<1>1. CASE UNCHANGED vars
  BY <1>0, <1>1 DEF vars, state, heap, lists
<1>2. CASE Next
  <2>1. UNCHANGED program
    BY <1>2 DEF Next
  <2>2. PICK t \in Thread : Program(t) \/ Run(t) \/ Disturbance(t)
    BY <1>2 DEF Next
  <2>3. /\ thread[t].pc \in WithMonitor => Mon(t) \in Monitor
        /\ thread[t].pc \notin WithoutObject => Obj(t) \in Object
    BY Knows DEF Basics, WithoutObject, WithMonitor
  <2>4. /\ thread[t].kind # "timed" /\ thread[t].kind # "aborted"
        /\ thread[t].pc \in Coming => thread[t].kind = "infinite"
        /\ thread[t].pc \notin {"lastRead", "lastGrab"}
        /\ thread[t].pc \in PC
    <3>1. Local(t) /\ thread[t] \in ThreadType /\ Casualties = {}
      BY DEF Basics, Typed, ThreadsTyped, Rare, Endless, AbortsAreRare
    <3>2. thread[t].kind # "aborted" /\ thread[t].kind # "timed"
      BY <3>1 DEF Casualties, Local, Rare, Endless
    <3>3. thread[t].pc \in Coming => thread[t].kind = "infinite"
      BY <3>1 DEF Local, Rare, Endless
    <3>4. thread[t].pc \notin {"lastRead", "lastGrab"}
      BY <3>1, <3>2 DEF Local
    <3>5. thread[t].pc \in PC
      BY <3>1 DEF ThreadType
    <3> QED  BY <3>2, <3>3, <3>4, <3>5
  <2>5. \A m : Quiet(m)
    BY DEF Basics, AbortsAreRare, Quiet, Rare, Endless
  <2>6. /\ monitor \in [Object -> Monitor \cup {None}]
        /\ pulseList \in [Monitor -> Seq(Thread)]
        /\ owner \in [Monitor -> Thread \cup {Free, Listed}]
    BY DEF Basics, Typed, HeapTyped
  \* no other thread owns what t owns
  <2>7. thread[t].pc \in Owning =>
          /\ owner[Mon(t)] = t /\ Mon(t) \in Monitor /\ Obj(t) \in Object
          /\ \A u \in Thread \ {t} : thread[u].pc \in Owning => Mon(u) # Mon(t)
    BY <2>5, Mine
  <2>8. thread[t].pc \in Having => monitor[Obj(t)] = Mon(t)
    BY <2>5 DEF Order, HoldersHave
  \* a thread with a monitor has the object of all the others
  <2>9. \A p \in Object, u \in Thread :
          monitor[p] # None /\ thread[u].pc \notin WithoutObject => Obj(u) = p
    BY Knows DEF Basics, Order, OneOfEach, Rare, Endless, OneObject
  <2> USE <2>1
  <2>10. ASSUME NEW pc \in Staying, NEW m, NEW k, NEW w, Lands(t, pc, Obj(t), m, k, w),
                UNCHANGED <<monitor, owner, pulseList>>,
                pc # "hand", pc # "park",
                thread[t].pc \in Queued => pc \in Queued /\ m = Mon(t)
         PROVE  SomebodyComes'
    BY <2>10, ComingStays
  <2>11. CASE Reenter(t) \/ ExitInner(t) \/ Flush(t)
    BY <1>0, <2>11 DEF Reenter, ExitInner, Flush, lists
  <2>12. CASE Enter(t)
    <3>1. PICK o, k : Lands(t, "read", o, None, k, NoWait)
      BY <2>12, TypedEnter DEF Basics
    <3>2. thread[t].pc = "idle" /\ UNCHANGED <<monitor, owner, pulseList>>
      BY <2>12 DEF Enter, At, heap, lists
    <3> QED  BY <3>1, <3>2, ComingStays DEF Staying, WithoutObject, PC, Queued
  <2>13. CASE ReadMonitor(t)
    <3> PICK p \in {"allocate", "try"} :
          \E m : Lands(t, p, Obj(t), m, thread[t].kind, thread[t].wait)
      BY <2>13, TypedReadMonitor DEF Basics
    <3>1. PICK m : Lands(t, p, Obj(t), m, thread[t].kind, thread[t].wait)
      OBVIOUS
    <3> QED  BY <2>10, <2>13, <3>1 DEF ReadMonitor, At, heap, lists, Staying, WithoutObject, PC, Queued
  <2>14. CASE Allocate(t)
    <3>1. PICK m \in Monitor : owner' = [owner EXCEPT ![m] = t]
                               /\ Lands(t, "install", Obj(t), m, thread[t].kind, thread[t].wait)
      BY <2>14, TypedAllocate DEF Basics
    <3>2. thread[t].pc = "allocate" /\ UNCHANGED <<monitor, pulseList>>
      BY <2>14 DEF Allocate, At, lists
    <3>3. \A p \in Object : monitor[p] # None /\ owner'[monitor[p]] = Free => owner[monitor[p]] = Free
      BY <2>6, <3>1, NoneAssumption
    <3> QED  BY <3>1, <3>2, <3>3, ComingStays DEF Staying, WithoutObject, PC, Queued
  <2>15. CASE Install(t)
    <3>1. thread[t].pc = "install" /\ pulseList' = pulseList
      BY <2>15 DEF Install, At, lists
    <3>2. PICK pc \in {"held", "restore", "read"} : Moves(t, pc)
      BY <2>15, EnteredMoves, GotoMoves DEF Install, Basics, Typed, PC
    <3>3. \A p \in Object : monitor'[p] # None /\ owner'[monitor'[p]] = Free =>
            monitor'[p] = monitor[p] /\ owner[monitor[p]] = Free
      BY <2>6, <2>7, <2>15, <3>1, NoneAssumption DEF Install, Recycle, Owning
    <3> QED  BY <3>1, <3>2, <3>3, ComingStays DEF Moves, Staying, WithoutObject, PC, Queued
  <2>16. ASSUME TryAcquire(t), thread[t].pc \in {"try", "grab"}, UNCHANGED <<monitor, pulseList>>,
                NEW pc \in {"verify", "held", "restore"}, Moves(t, pc)
         PROVE  SomebodyComes'
    <3>1. owner[Mon(t)] = Free /\ owner' = [owner EXCEPT ![Mon(t)] = t] /\ Mon(t) \in Monitor
      BY <2>3, <2>16 DEF TryAcquire, WithMonitor
    <3>2. \A p \in Object : monitor[p] # None /\ owner'[monitor[p]] = Free => owner[monitor[p]] = Free
      BY <2>6, <3>1, NoneAssumption
    <3>3. \A u \in Thread : thread[u].pc = "hand" => Mon(u) # Mon(t)
      BY <2>5, <3>1, NoneAssumption DEF Order, OwnersOwn, Owning
    <3> QED  BY <2>16, <3>2, <3>3, ComingStays DEF Moves, Staying, WithoutObject, PC
  <2>17. CASE Try(t)
    <3>1. thread[t].pc = "try" /\ thread[t].kind = "infinite" /\ UNCHANGED <<monitor, pulseList>>
      BY <2>4, <2>17 DEF Try, At, lists, Coming
    <3>2. CASE TryAcquire(t) /\ Goto(t, "verify")
      BY <2>16, <3>1, <3>2, GotoMoves DEF Basics, Typed, PC
    <3>3. CASE UNCHANGED owner /\ Goto(t, "join")
      BY <2>10, <3>1, <3>3, GotoMoves DEF Basics, Typed, PC, Moves, Staying, WithoutObject, Queued
    <3> QED  BY <2>17, <3>1, <3>2, <3>3 DEF Try
  <2>18. CASE Verify(t)
    <3>1. /\ thread[t].pc = "verify" /\ UNCHANGED <<monitor, pulseList>>
          /\ owner' = owner \/ owner' = [owner EXCEPT ![Mon(t)] = Free]
      BY <2>18 DEF Verify, At, lists
    <3>2. PICK pc \in {"held", "restore", "read"} : Moves(t, pc)
      BY <2>18, EnteredMoves, GotoMoves DEF Verify, Basics, Typed, PC
    <3>3. \A p \in Object : monitor[p] # None => Obj(t) = p
      BY <2>9, <3>1 DEF WithoutObject
    <3> QED  BY <3>1, <3>2, <3>3, ComingStays DEF Moves, Staying, WithoutObject, PC, Queued
  <2>19. CASE Join(t)
    <3>1. Moves(t, "loop")
      BY <2>19, GotoMoves DEF Join, Basics, Typed, PC
    <3> QED  BY <2>10, <2>19, <3>1 DEF Join, At, lists, Moves, Staying, WithoutObject, PC, Queued
  <2>20. CASE Loop(t)
    <3>1. thread[t].pc = "loop" /\ UNCHANGED <<monitor, owner, pulseList>>
      BY <2>20 DEF Loop, At, lists
    <3>2. CASE Goto(t, "grab")
      BY <2>10, <3>1, <3>2, GotoMoves DEF Basics, Typed, Moves, Staying, WithoutObject, PC, Queued
    <3>3. CASE monitor[Obj(t)] # Mon(t) /\ Goto(t, "read")
      <4>1. Moves(t, "read")
        BY <3>3, GotoMoves DEF Basics, Typed, PC
      <4>2. \A u \in Thread : thread[u].pc = "hand" => Mon(u) # Mon(t)
        <5> SUFFICES ASSUME NEW u \in Thread, thread[u].pc = "hand", Mon(u) = Mon(t)
                     PROVE  FALSE
          OBVIOUS
        <5>1. monitor[Obj(u)] = Mon(t) /\ Obj(u) \in Object
          BY <2>5, Mine DEF Order, HoldersHave, Having, Owning
        <5>2. Obj(t) = Obj(u)
          BY <2>3, <2>9, <3>1, <5>1, NoneAssumption DEF WithMonitor, WithoutObject
        <5> QED  BY <3>3, <5>1, <5>2
      <4> QED  BY <3>1, <4>1, <4>2, ComingStays DEF Moves, Staying, WithoutObject, PC
    <3> QED  BY <2>20, <3>2, <3>3 DEF Loop
  <2>21. CASE Grab(t)
    <3>1. thread[t].pc = "grab" /\ UNCHANGED <<monitor, pulseList>>
      BY <2>21 DEF Grab, At, lists
    <3>2. CASE TryAcquire(t) /\ Entered(t)
      <4>1. Moves(t, "held") \/ Moves(t, "restore")
        BY <3>2, EnteredMoves DEF Basics
      <4> QED  BY <2>16, <3>1, <3>2, <4>1
    <3>3. CASE UNCHANGED owner /\ Goto(t, "sleep")
      BY <2>10, <3>1, <3>3, GotoMoves DEF Basics, Typed, Moves, Staying, WithoutObject, PC, Queued
    <3> QED  BY <2>21, <3>2, <3>3 DEF Grab
  <2>22. CASE Wake(t)
    <3>1. Moves(t, "loop")
      BY <2>22, GotoMoves DEF Wake, Basics, Typed, PC
    <3> QED  BY <2>10, <2>22, <3>1 DEF Wake, At, lists, Moves, Staying, WithoutObject, PC, Queued
  \* what the owner of the installed monitor knows
  <2>23. ASSUME thread[t].pc \in {"held", "exit", "hand", "park", "deflate", "restore"}
         PROVE  \A p \in Object : monitor[p] # None => p = Obj(t) /\ monitor[p] = Mon(t) /\ owner[monitor[p]] = t
    BY <2>7, <2>8, <2>9, <2>23 DEF Owning, Having, WithoutObject
  <2>24. CASE Unacquire(t)
    <3>1. /\ thread[t].pc \in {"hand", "park"} /\ UNCHANGED <<monitor, pulseList>>
          /\ owner' = [owner EXCEPT ![Mon(t)] = Free]
      BY <2>24 DEF Unacquire, At, lists
    <3>2. PICK pc \in {"post", "postIfReady"} : Moves(t, pc)
      BY <2>24, GotoMoves DEF Unacquire, Basics, Typed, PC
    <3>3. CASE thread[t].pc = "hand"
      <4>1. PICK u \in Thread : thread[u].pc \in Queued /\ Mon(u) = Mon(t)
        BY <3>3 DEF Rare, SomebodyComes
      <4>2. u # t /\ thread[u].pc \in Staying /\ \A p \in Object : monitor[p] # None => Obj(u) = p
        BY <2>9, <3>3, <4>1 DEF Queued, Staying, PC, WithoutObject
      <4> QED  BY <2>23, <3>1, <3>2, <4>2, ComingStays, NoneAssumption DEF Moves, Queued
    <3>4. CASE thread[t].pc = "park"
      <4>1. pulseList[Mon(t)] # <<>>
        BY <3>4 DEF Rare, SomebodyComes
      <4> QED  BY <2>23, <3>1, <3>2, <4>1, ComingStays, NoneAssumption DEF Moves, Queued
    <3> QED  BY <3>1, <3>3, <3>4
  <2>25. CASE PostOne(t) \/ PostIfReady(t) \/ ReturnMonitor(t)
    <3>1. /\ thread[t].pc \in {"post", "postIfReady", "flush"} /\ UNCHANGED <<monitor, pulseList>>
          /\ owner' = owner \/ owner' = [owner EXCEPT ![Mon(t)] = Listed]
      BY <2>25 DEF PostOne, PostIfReady, ReturnMonitor, Recycle, At, lists
    <3> PICK pc \in {"dead", "idle", "read", "pulse"} : \E o, m, k, w : Lands(t, pc, o, m, k, w)
      BY <2>25, ReleasedTyped DEF PostOne, PostIfReady, ReturnMonitor, At, Basics, Stops
    <3>2. PICK o, m, k, w : Lands(t, pc, o, m, k, w)
      OBVIOUS
    <3>3. \A p \in Object : monitor[p] # None /\ owner'[monitor[p]] = Free => owner[monitor[p]] = Free
      BY <2>3, <2>6, <3>1, NoneAssumption DEF WithMonitor
    <3> QED  BY <3>1, <3>2, <3>3, ComingStays DEF Staying, WithoutObject, Queued
  <2>26. CASE Deflate(t)
    <3>1. /\ thread[t].pc = "deflate" /\ UNCHANGED <<owner, pulseList>>
          /\ monitor' = [monitor EXCEPT ![Obj(t)] = None]
      BY <2>26 DEF Deflate, At, lists
    <3>2. Moves(t, "flush")
      BY <2>26, GotoMoves DEF Deflate, Basics, Typed, PC
    <3>3. \A p \in Object : monitor[p] # None => owner[monitor[p]] # Free
      BY <2>23, <3>1, NoneAssumption
    <3>4. \A p \in Object : monitor'[p] = None
      BY <2>6, <2>23, <3>1
    <3> QED  BY <3>1, <3>2, <3>3, <3>4, ComingStays DEF Moves, Queued
  <2>27. CASE Pulsed(t)
    <3>1. \E w : Lands(t, "read", Obj(t), Mon(t), "infinite", w)
      BY <2>27, TypedPulsed DEF Basics
    <3> QED  BY <2>10, <2>27, <3>1 DEF Pulsed, At, heap, lists, Staying, WithoutObject, PC, Queued
  <2>28. CASE WaitGivesUp(t)
    <3>1. Moves(t, "read")
      BY <2>28, GotoMoves DEF WaitGivesUp, Basics, Typed, PC
    <3> QED  BY <2>10, <2>28, <3>1 DEF WaitGivesUp, At, heap, lists, Moves, Staying, WithoutObject, PC, Queued
  <2>29. CASE ExitOuter(t)
    <3>1. thread[t].pc \in {"held", "exit"} /\ UNCHANGED <<monitor, owner, pulseList>>
      BY <2>29 DEF ExitOuter, At, heap, lists
    <3>2. /\ ExitWay(Mon(t)) \in {"hand", "park", "deflate"}
          /\ ExitWay(Mon(t)) = "hand" => ready[Mon(t)] # 0
          /\ ExitWay(Mon(t)) = "park" => pulseList[Mon(t)] # <<>>
      BY ExitWays
    <3>3. Moves(t, ExitWay(Mon(t)))
      BY <2>29, <3>2, GotoMoves DEF ExitOuter, Basics, Typed, PC
    <3>4. Mon(t) \in Monitor
      BY <2>3, <3>1 DEF WithMonitor
    <3>5. ready[Mon(t)] # 0 => \E u \in Thread \ {t} : thread[u].pc \in Queued /\ Mon(u) = Mon(t)
      <4>1. Casualties = {} /\ ready[Mon(t)] \in Nat /\ ready[Mon(t)] <= Cardinality(Counted(Mon(t)) \cup Casualties)
        BY <3>4 DEF Basics, Typed, HeapTyped, AbortsAreRare, Rare, Endless, CountsCover
      <4>2. Counted(Mon(t)) = {} => ready[Mon(t)] = 0
        BY <4>1, FS_EmptySet
      <4> QED  BY <3>1, <4>2 DEF Counted, Queued
    <3>6. thread[t].pc \notin Queued /\ \A p \in Object : monitor[p] # None => owner[monitor[p]] # Free
      BY <2>23, <3>1, NoneAssumption DEF Queued
    <3> HIDE DEF Staying
    <3> QED  BY <3>1, <3>2, <3>3, <3>4, <3>5, <3>6, ComingStays DEF Moves
  \* the owner of a monitor changes its list
  <2>30. ASSUME thread[t].pc \in {"held", "restore"}, NEW pc \in {"held", "exit"}, NEW k, NEW w,
                Lands(t, pc, Obj(t), Mon(t), k, w), UNCHANGED <<monitor, owner>>,
                \A n \in Monitor \ {Mon(t)} : pulseList'[n] = pulseList[n]
         PROVE  SomebodyComes'
    <3>1. \A p \in Object : monitor[p] # None => owner[monitor[p]] # Free
      BY <2>23, <2>30, NoneAssumption
    <3>2. owner[Mon(t)] # Free /\ \A u \in Thread \ {t} : thread[u].pc = "park" => Mon(u) # Mon(t)
      BY <2>7, <2>30, NoneAssumption DEF Owning
    <3> QED  BY <2>30, <3>1, <3>2, ComingStays DEF Queued
  <2>31. CASE Wait(t)
    <3>1. thread[t].pc = "held" /\ UNCHANGED <<monitor, owner>>
      BY <2>31 DEF Wait, At
    <3>2. \E k : /\ \E w : Lands(t, "exit", Obj(t), Mon(t), "infinite", w)
                 /\ pulseList' = IF k = "zero" THEN pulseList
                                 ELSE [pulseList EXCEPT ![Mon(t)] = <<t>> \o @]
      BY <2>31, TypedWait DEF Basics
    <3>3. \A n \in Monitor \ {Mon(t)} : pulseList'[n] = pulseList[n]
      BY <2>6, <3>2
    <3> QED  BY <2>30, <3>1, <3>2, <3>3
  <2>32. CASE Restore(t)
    <3>1. thread[t].pc = "restore" /\ UNCHANGED <<monitor, owner>>
      BY <2>32 DEF Restore, At
    <3>2. Lands(t, "held", Obj(t), Mon(t), "none", NoWait)
      BY <2>32, TypedRestore DEF Basics
    <3>3. \A n \in Monitor \ {Mon(t)} : pulseList'[n] = pulseList[n]
      BY <2>6, <2>32 DEF Restore
    <3> QED  BY <2>30, <3>1, <3>2, <3>3
  <2>33. CASE Pulse(t)
    <3>1. thread[t].pc = "held" /\ UNCHANGED <<monitor, owner, thread>>
      BY <2>33 DEF Pulse, At, heap
    <3>2. Lands(t, "held", Obj(t), Mon(t), thread[t].kind, thread[t].wait)
      BY <3>1 DEF Lands, Obj, Mon
    <3>3. \A n \in Monitor \ {Mon(t)} : pulseList'[n] = pulseList[n]
      BY <2>6, <2>33 DEF Pulse, PulseFirst
    <3> QED  BY <2>30, <3>1, <3>2, <3>3
  <2>34. ~ (\/ EnterTimesOut(t) \/ EnterIsInterrupted(t) \/ LastRead(t) \/ LastGrab(t)
            \/ ExitInnerAfterAbort(t) \/ ExitAfterAbort(t))
    <3>1. ~ ExitAfterAbort(t) /\ ~ ExitInnerAfterAbort(t)
      BY <2>5 DEF ExitAfterAbort, ExitInnerAfterAbort, LetPass, Quiet
    <3> QED  BY <2>4, <3>1 DEF EnterTimesOut, EnterIsInterrupted, LastRead, LastGrab, At, Rare, Endless
  <2>35. ~ EnterIsAborted(t)
    <3>1. EnterIsAborted(t) => Cardinality(Casualties) < 0
      BY DEF EnterIsAborted, Casualties, Rare, Endless
    <3>2. Cardinality(Casualties) \in Nat
      BY FiniteCounts, FS_CardinalityType
    <3> QED  BY <3>1, <3>2
  <2> QED  BY <2>2, <2>11, <2>12, <2>13, <2>14, <2>15, <2>17, <2>18, <2>19, <2>20, <2>21, <2>22,
              <2>24, <2>25, <2>26, <2>27, <2>28, <2>29, <2>31, <2>32, <2>33, <2>34, <2>35
              DEF Program, Run, Disturbance, Leaves
<1> QED  BY <1>1, <1>2

\* Monitors come and go in order: what Allocate hands out is in use nowhere, a
\* node on a list belongs to a thread that waits for the list's object, and an
\* object nobody uses is deflated.
THEOREM MonitorsComeAndGo ==
  Spec => []MonitorsAreAccountedFor
<1> DEFINE Nodes == MonitorsKeepTheirObject /\ program.aborts = 0 => NodesAreWaiting
           Idles == Endless => SomebodyComes
<1>1. Init => InOrder /\ Nodes /\ Idles
  <2> SUFFICES ASSUME Init PROVE Nodes /\ Idles
    BY BasicsInit, OrderInit DEF InOrder
  <2>1. \A m \in Monitor : pulseList[m] = <<>> /\ owner[m] = Listed
    BY DEF Init
  <2>2. IsInjective(<<>>) /\ Range(<<>>) = {}
    BY DEF IsInjective, Range
  <2>3. \A o \in Object : monitor[o] = None
    BY DEF Init
  <2>4. \A t \in Thread : thread[t].pc = "idle"
    BY DEF Init, Idle
  <2> QED  BY <2>1, <2>2, <2>3, <2>4 DEF NodesAreWaiting, SomebodyComes
<1>2. InOrder /\ [Next]_vars => InOrder'
  BY BasicsStep, OrderStep, ProgramStays DEF InOrder
<1>3. InOrder /\ Nodes /\ [Next]_vars => Nodes'
  BY NodesStep, ProgramStays DEF InOrder
<1>4. InOrder /\ Idles /\ [Next]_vars => Idles'
  <2> SUFFICES ASSUME InOrder, Idles, [Next]_vars, Endless' PROVE SomebodyComes'
    OBVIOUS
  <2>1. Endless
    BY ProgramStays DEF Endless, OneObject
  <2>2. Order
    BY <2>1 DEF InOrder, MonitorsKeepTheirObject, Endless
  <2>3. Basics'
    BY BasicsStep DEF InOrder
  <2> QED  BY <2>1, <2>2, <2>3, ComesStep DEF InOrder, Rare
<1>5. Nodes /\ Idles /\ InOrder /\ TypeOK => MonitorsAreAccountedFor
  <2> SUFFICES ASSUME Nodes, Idles, InOrder, TypeOK PROVE MonitorsAreAccountedFor
    OBVIOUS
  <2>1. MonitorsKeepTheirObject => FreeMonitorsAreClean
    BY DEF InOrder, Order, FreeIsUnused
  <2>2. IdleObjectsAreDeflated
    BY DEF IdleObjectsAreDeflated, Endless, SomebodyComes
  <2> QED  BY <2>1, <2>2 DEF MonitorsAreAccountedFor
<1> QED  BY <1>1, <1>2, <1>3, <1>4, <1>5, TypeCorrect, PTL DEF Spec

-----------------------------------------------------------------------------
(* Monitor implements the lock a C# program knows                          *)

\* Where a thread that waits has been pulsed, or was allowed to give up.
Late == PC \ {"exit", "hand", "park", "deflate", "flush", "post", "postIfReady", "pulse"}

Promised(t) ==
  /\ t \in signalled => Waits(t) /\ ~ Holds(t)
  /\ Holds(t) /\ Waits(t) => ~ thread[t].wait.pulsed
  /\ Waits(t) => thread[t].wait.kind \in program.waits
  /\ Waits(t) /\ thread[t].pc \in Late =>
       thread[t].wait.pulsed \/ thread[t].wait.kind # "infinite" \/ "wait" \in program.interrupts
  /\ thread[t].pc # "thrown"

\* Every signal is for a thread that waits, and a Wait ends for a reason.
Promises == \A t \in Thread : Promised(t)

\* The programs the lock's promises are made to: those that may lose them
\* altogether, and those whose monitors keep their object and whose threads are
\* not interrupted while Wait takes the lock back.
Tame(p) ==
  \/ p.aborts > 0
  \/ /\ (\A o, q \in p.objects : o = q) \/ "timed" \notin p.enters
     /\ "reenter" \notin p.interrupts

Promising == program.aborts = 0 /\ MonitorsKeepTheirObject /\ "reenter" \notin program.interrupts

LEMMA PromisesKept ==
  ASSUME Promises, UNCHANGED program, NEW t \in Thread,
         NEW pc, NEW o, NEW m, NEW k, NEW w, Lands(t, pc, o, m, k, w),
         signalled' \ {t} \subseteq signalled, Promised(t)'
  PROVE  Promises'
<1> SUFFICES ASSUME NEW u \in Thread \ {t} PROVE Promised(u)'
  BY DEF Promises
<1>1. thread'[u] = thread[u] /\ (u \in signalled' => u \in signalled) /\ Promised(u)
  BY DEF Lands, Promises
<1> QED  BY <1>1 DEF Promised, Waits, Holds

LEMMA PromisesMove ==
  ASSUME Promises, UNCHANGED <<program, signalled>>, NEW t \in Thread, NEW pc, Moves(t, pc),
         pc # "thrown", pc \in Holding => Holds(t) \/ ~ Waits(t),
         pc \in Late => thread[t].pc \in Late \/ ~ Waits(t)
  PROVE  Promises'
<1>1. thread'[t].pc = pc /\ thread'[t].wait = thread[t].wait /\ Promised(t)
  BY DEF Moves, Lands, Promises
<1>2. Promised(t)'
  BY <1>1 DEF Promised, Waits, Holds
<1> QED  BY <1>2, PromisesKept DEF Moves

LEMMA PromisesEnd ==
  ASSUME Promises, UNCHANGED <<program, signalled>>, NEW t \in Thread, ~ Waits(t),
         NEW pc, NEW o, NEW m, NEW k, Lands(t, pc, o, m, k, NoWait), pc # "thrown"
  PROVE  Promises'
<1>1. thread'[t].pc = pc /\ thread'[t].wait = NoWait /\ Promised(t)
  BY DEF Lands, Promises
<1>2. Promised(t)'
  BY <1>1 DEF Promised, Waits, Holds
<1> QED  BY <1>2, PromisesKept

LEMMA Exclusive ==
  ASSUME InOrder, Promising, NEW t \in Thread, Holds(t)
  PROVE  /\ monitor[Obj(t)] = Mon(t) /\ owner[Mon(t)] = t /\ Obj(t) \in Object /\ Mon(t) \in Monitor
         /\ \A u \in Thread : Holds(u) /\ (Obj(u) = Obj(t) \/ Mon(u) = Mon(t)) => u = t
<1>1. \A u \in Thread : Holds(u) => monitor[Obj(u)] = Mon(u) /\ owner[Mon(u)] = u
  <2> TAKE u \in Thread
  <2> HAVE Holds(u)
  <2>1. thread[u].pc \in Having /\ thread[u].pc \in Owning /\ Quiet(Mon(u))
    BY DEF Holds, Holding, Having, Owning, Quiet, InOrder, Basics, AbortsAreRare, Promising
  <2> QED  BY <2>1 DEF Order, OwnersOwn, HoldersHave, InOrder, Promising
<1>2. Obj(t) \in Object /\ Mon(t) \in Monitor
  BY Knows DEF Holds, Holding, InOrder, Basics, WithoutObject, WithMonitor
<1> QED  BY <1>1, <1>2

LEMMA PromisesStep ==
  ASSUME InOrder, Promising, NodesAreWaiting, Promises, [Next]_vars
  PROVE  Promises'
<1>0. ASSUME UNCHANGED <<program, thread, signalled>>
      PROVE  Promises'
  BY <1>0 DEF Promises, Promised, Waits, Holds
<1>1. CASE UNCHANGED vars
  BY <1>0, <1>1 DEF vars, state, lists
<1>2. CASE Next
  <2>1. UNCHANGED program
    BY <1>2 DEF Next
  <2>2. PICK t \in Thread : Program(t) \/ Run(t) \/ Disturbance(t)
    BY <1>2 DEF Next
  <2>3. Promised(t) /\ Typed /\ Basics
    BY DEF Promises, InOrder, Basics
  <2>4. /\ thread[t].pc \in {"idle", "held", "thrown", "dead"} => ~ Waits(t)
        /\ Waits(t) => thread[t].kind = "infinite"
        /\ thread[t].pc \in {"lastRead", "lastGrab"} => thread[t].kind = "timed"
        /\ thread[t].kind # "aborted"
        /\ thread[t] \in ThreadType
    BY DEF InOrder, Basics, Typed, ThreadsTyped, Local, AbortsAreRare, Casualties, Promising
  <2> USE <2>1 DEF Holding, Late, PC
  <2>5. ASSUME UNCHANGED signalled, NEW pc, Moves(t, pc), pc # "thrown", pc \notin Holding,
               thread[t].pc \in Late
        PROVE  Promises'
    BY <2>5, PromisesMove
  <2>6. ASSUME Entered(t), UNCHANGED signalled, thread[t].pc \in Late
        PROVE  Promises'
    <3>1. Moves(t, IF Waits(t) THEN "restore" ELSE "held")
      BY <2>3, <2>6, EnteredMoves
    <3>2. CASE Waits(t)
      BY <2>5, <2>6, <3>1, <3>2
    <3>3. CASE ~ Waits(t)
      BY <2>6, <3>1, <3>3, PromisesMove
    <3> QED  BY <3>2, <3>3
  <2>7. ASSUME Become(t, Idle), UNCHANGED signalled, thread[t].kind # "infinite"
        PROVE  Promises'
    BY <2>3, <2>4, <2>7, BecomeStops, PromisesEnd DEF Stops, Typed
  <2>8. ASSUME UNCHANGED signalled, NEW pc \in PC, Goto(t, pc), pc # "thrown", pc \notin Holding,
               thread[t].pc \in Late
        PROVE  Promises'
    BY <2>3, <2>5, <2>8, GotoMoves DEF Typed
  <2>9. CASE Reenter(t) \/ ExitInner(t) \/ Flush(t)
    BY <1>0, <2>9 DEF Reenter, ExitInner, Flush, lists
  <2>10. CASE Enter(t)
    <3>1. ~ Waits(t) /\ UNCHANGED signalled
      BY <2>4, <2>10 DEF Enter, At, lists
    <3>2. \E o, k : Lands(t, "read", o, None, k, NoWait)
      BY <2>3, <2>10, TypedEnter
    <3> QED  BY <3>1, <3>2, PromisesEnd
  <2>11. CASE ReadMonitor(t) \/ Allocate(t)
    <3>1. thread[t].pc \in Late /\ UNCHANGED signalled
      BY <2>11 DEF ReadMonitor, Allocate, At, lists
    <3> PICK pc \in {"try", "allocate", "install"} :
          \E m : Lands(t, pc, Obj(t), m, thread[t].kind, thread[t].wait)
      BY <2>3, <2>11, TypedReadMonitor, TypedAllocate
    <3>2. PICK m : Lands(t, pc, Obj(t), m, thread[t].kind, thread[t].wait)
      OBVIOUS
    <3>3. thread'[t].pc = pc /\ thread'[t].wait = thread[t].wait
      BY <3>2 DEF Lands
    <3>4. Promised(t)'
      BY <2>3, <3>1, <3>3 DEF Promised, Waits, Holds
    <3> QED  BY <3>1, <3>2, <3>4, PromisesKept
  <2>12. CASE Install(t)
    BY <2>6, <2>8, <2>12 DEF Install, At, lists
  <2>13. CASE Try(t)
    BY <2>7, <2>8, <2>13 DEF Try, At, lists
  <2>14. CASE Verify(t)
    BY <2>6, <2>8, <2>14 DEF Verify, At, lists
  <2>15. CASE Join(t) \/ Wake(t)
    BY <2>8, <2>15 DEF Join, Wake, At, lists
  <2>16. CASE Loop(t)
    BY <2>8, <2>16 DEF Loop, At, lists
  <2>17. CASE Grab(t)
    BY <2>6, <2>8, <2>17 DEF Grab, At, lists
  <2>18. CASE LastRead(t)
    BY <2>4, <2>7, <2>8, <2>18 DEF LastRead, At, lists
  <2>19. CASE LastGrab(t)
    BY <2>4, <2>6, <2>7, <2>19 DEF LastGrab, At, lists
  <2>20. CASE EnterTimesOut(t)
    BY <2>7, <2>8, <2>20 DEF EnterTimesOut, At, lists
  <2>21. CASE EnterIsInterrupted(t)
    <3>1. ~ Waits(t) /\ Become(t, Idle) /\ UNCHANGED signalled
      BY <2>21 DEF EnterIsInterrupted, Promising, lists
    <3> QED  BY <2>3, <3>1, BecomeStops, PromisesEnd DEF Stops, Typed
  <2>22. ~ EnterIsAborted(t)
    <3>1. EnterIsAborted(t) => Cardinality(Casualties) < 0
      BY DEF EnterIsAborted, Casualties, Promising
    <3>2. Cardinality(Casualties) \in Nat
      BY FiniteCounts, FS_CardinalityType
    <3> QED  BY <3>1, <3>2
  <2>23. ~ ExitAfterAbort(t) /\ ~ ExitInnerAfterAbort(t)
    BY <2>3 DEF ExitAfterAbort, ExitInnerAfterAbort, LetPass, Basics, AbortsAreRare, Promising
  <2>24. CASE ExitOuter(t)
    <3>1. thread[t].pc \in {"held", "exit"} /\ UNCHANGED signalled
      BY <2>24 DEF ExitOuter, At, lists
    <3>2. PICK pc \in {"hand", "park", "deflate"} : Moves(t, pc)
      BY <2>3, <2>24, ExitWays, GotoMoves DEF ExitOuter, Typed
    <3> QED  BY <3>1, <3>2, PromisesMove DEF Holds
  <2>25. CASE Unacquire(t) \/ Deflate(t)
    <3>1. UNCHANGED signalled
      BY <2>25 DEF Unacquire, Deflate, lists
    <3>2. PICK pc \in {"post", "postIfReady", "flush"} : Moves(t, pc)
      BY <2>3, <2>25, GotoMoves DEF Unacquire, Deflate, Typed
    <3> QED  BY <3>1, <3>2, PromisesMove
  <2>26. CASE PostOne(t) \/ PostIfReady(t) \/ ReturnMonitor(t)
    <3>1. UNCHANGED signalled
      BY <2>26 DEF PostOne, PostIfReady, ReturnMonitor, lists
    <3>2. IF ~ Waits(t) THEN Stops(t)
          ELSE Lands(t, IF thread[t].wait.kind = "zero" THEN "read" ELSE "pulse", Obj(t), None,
                     thread[t].kind, thread[t].wait)
      BY <2>3, <2>4, <2>26, ReleasedTyped DEF PostOne, PostIfReady, ReturnMonitor, At
    <3>3. CASE ~ Waits(t)
      BY <3>1, <3>2, <3>3, PromisesEnd DEF Stops
    <3>4. CASE Waits(t)
      <4>1. /\ thread'[t].pc = IF thread[t].wait.kind = "zero" THEN "read" ELSE "pulse"
            /\ thread'[t].wait = thread[t].wait
        BY <3>2, <3>4 DEF Lands
      <4>2. Promised(t)'
        BY <2>3, <3>1, <3>4, <4>1 DEF Promised, Waits, Holds
      <4> QED  BY <3>1, <3>2, <3>4, <4>2, PromisesKept
    <3> QED  BY <3>3, <3>4
  <2>27. CASE Pulsed(t)
    <3>1. Lands(t, "read", Obj(t), Mon(t), "infinite", [thread[t].wait EXCEPT !.pulsed = TRUE])
      BY <2>3, <2>27, TypedPulsed
    <3>2. thread[t].wait \in WaitType /\ Waits(t) /\ thread[t].pc = "pulse"
      BY <2>3, <2>4, <2>27 DEF ThreadType, Typed, ThreadsTyped, Local, Pulsed, At
    <3>3. thread'[t].wait.pulsed /\ thread'[t].wait.kind = thread[t].wait.kind /\ thread'[t].pc = "read"
      BY <3>1, <3>2 DEF Lands, WaitType, Waits
    <3>4. t \notin signalled' /\ signalled' \subseteq signalled
      BY <2>27 DEF Pulsed
    <3>5. Promised(t)'
      BY <2>3, <3>2, <3>3, <3>4 DEF Promised, Waits, Holds
    <3> QED  BY <3>1, <3>4, <3>5, PromisesKept
  <2>28. CASE WaitGivesUp(t)
    <3>1. Moves(t, "read") /\ UNCHANGED signalled /\ thread[t].pc = "pulse"
      BY <2>3, <2>28, GotoMoves DEF WaitGivesUp, At, lists, Typed
    <3>2. thread'[t].pc = "read" /\ thread'[t].wait = thread[t].wait
      BY <3>1 DEF Moves, Lands
    <3>3. Promised(t)'
      BY <2>3, <2>28, <3>1, <3>2 DEF Promised, Waits, Holds, WaitGivesUp
    <3> QED  BY <3>1, <3>3, PromisesKept DEF Moves
  <2>29. CASE Wait(t)
    <3>1. thread[t].pc = "held" /\ UNCHANGED signalled /\ ~ Waits(t)
      BY <2>4, <2>29 DEF Wait, At
    <3>2. PICK k \in program.waits :
            Lands(t, "exit", Obj(t), Mon(t), "infinite",
                  [depth |-> locks[Mon(t)], kind |-> k, pulsed |-> FALSE])
      BY <2>3, <2>29, TypedWait
    <3>3. thread'[t].pc = "exit" /\ ~ thread'[t].wait.pulsed /\ thread'[t].wait.kind = k
      BY <3>2 DEF Lands
    <3>4. Promised(t)'
      BY <2>3, <3>1, <3>3 DEF Promised, Waits, Holds
    <3> QED  BY <3>1, <3>2, <3>4, PromisesKept
  <2>30. CASE Restore(t)
    <3>1. Lands(t, "held", Obj(t), Mon(t), "none", NoWait) /\ signalled' = signalled \ {t}
      BY <2>3, <2>30, TypedRestore DEF Restore
    <3>2. Promised(t)'
      BY <3>1 DEF Promised, Lands, Waits, Holds
    <3> QED  BY <3>1, <3>2, PromisesKept
  <2>31. CASE Pulse(t)
    <3>1. thread[t].pc = "held" /\ UNCHANGED thread
      BY <2>31 DEF Pulse, At
    <3>2. PICK n \in Nat \ {0} :
            /\ PulseFirst(t, n) /\ Mon(t) \in Monitor
            /\ Range(SubSeq(pulseList[Mon(t)], 1, n)) \subseteq Range(pulseList[Mon(t)])
            /\ Range(pulseList[Mon(t)]) \subseteq Thread
      BY <2>3, <2>31, PulseTakes
    <3>3. ASSUME NEW u \in Range(pulseList[Mon(t)])
          PROVE  Waits(u) /\ ~ Holds(u)
      <4>1. u \in Thread /\ Waits(u) /\ monitor[Obj(u)] = Mon(t)
        BY <3>2 DEF NodesAreWaiting, At, Promises, Promised
      <4>2. Holds(u) => Mon(u) = Mon(t) /\ u # t
        BY <2>4, <3>1, <4>1, Exclusive
      <4>3. Holds(t)
        BY <3>1 DEF Holds
      <4> QED  BY <4>1, <4>2, <4>3, Exclusive
    <3>4. signalled' \subseteq signalled \cup Range(pulseList[Mon(t)])
      BY <3>2 DEF PulseFirst
    <3>5. ASSUME NEW u \in Thread PROVE Promised(u)'
      <4>1. Promised(u)
        BY DEF Promises
      <4>2. u \in signalled' => Waits(u) /\ ~ Holds(u)
        BY <3>3, <3>4, <4>1 DEF Promised
      <4> QED  BY <3>1, <4>1, <4>2 DEF Promised, Waits, Holds
    <3> QED  BY <3>5 DEF Promises
  <2> QED  BY <2>2, <2>9, <2>10, <2>11, <2>12, <2>13, <2>14, <2>15, <2>16, <2>17, <2>18, <2>19, <2>20,
              <2>21, <2>22, <2>23, <2>24, <2>25, <2>26, <2>27, <2>28, <2>29, <2>30, <2>31
              DEF Program, Run, Disturbance, Leaves
<1> QED  BY <1>1, <1>2

WaitingOf(t) ==
  IF Waits(t) /\ ~ Holds(t)
  THEN [obj |-> Obj(t), depth |-> thread[t].wait.depth,
        pulsed |-> thread[t].wait.pulsed \/ t \in signalled]
  ELSE [obj |-> None, depth |-> 0, pulsed |-> FALSE]

Alone == \A t, u \in Thread : Holds(t) /\ Holds(u) /\ Obj(t) = Obj(u) => t = u

\* What a thread holds, and how often, does not change.
SameHold(u) == (Holds(u)' <=> Holds(u)) /\ (Holds(u) => Obj(u)' = Obj(u) /\ DepthOf(u)' = DepthOf(u))

\* The holder of an object is the one thread that has it.
HolderKnown ==
  \A o \in Object :
    /\ \A t \in Thread : Has(t, o) => LockHolder[o] = t /\ LockDepth[o] = DepthOf(t)
    /\ (\A t \in Thread : ~ Has(t, o)) => LockHolder[o] = None /\ LockDepth[o] = 0

LEMMA HolderOf ==
  Alone => HolderKnown
<1> SUFFICES ASSUME Alone, NEW o \in Object
             PROVE  /\ \A t \in Thread : Has(t, o) => LockHolder[o] = t /\ LockDepth[o] = DepthOf(t)
                    /\ (\A t \in Thread : ~ Has(t, o)) => LockHolder[o] = None /\ LockDepth[o] = 0
  BY DEF HolderKnown
<1>1. \A t \in Thread : Has(t, o) => (CHOOSE u \in Thread : Has(u, o)) = t
  BY DEF Alone, Has
<1>2. /\ LockHolder[o] = IF \E t \in Thread : Has(t, o) THEN CHOOSE t \in Thread : Has(t, o) ELSE None
      /\ LockDepth[o] = IF \E t \in Thread : Has(t, o) THEN DepthOf(CHOOSE t \in Thread : Has(t, o)) ELSE 0
  BY DEF LockHolder, LockDepth
<1>3. ASSUME NEW t \in Thread, Has(t, o)
      PROVE  LockHolder[o] = t /\ LockDepth[o] = DepthOf(t)
  <2>1. (CHOOSE u \in Thread : Has(u, o)) = t
    BY <1>1, <1>3
  <2> QED  BY <1>2, <1>3, <2>1
<1> QED  BY <1>2, <1>3

LEMMA HolderOfNext ==
  Alone' => HolderKnown'
<1>1. (Alone => HolderKnown)'
  BY HolderOf, PTL
<1> QED  BY <1>1

LEMMA Shapes ==
  /\ LockHolder = [o \in Object |-> LockHolder[o]] /\ LockDepth = [o \in Object |-> LockDepth[o]]
  /\ LockHolder' = [o \in Object |-> LockHolder'[o]] /\ LockDepth' = [o \in Object |-> LockDepth'[o]]
  /\ LockWaiting = [t \in Thread |-> WaitingOf(t)] /\ LockWaiting' = [t \in Thread |-> WaitingOf(t)']
BY DEF LockHolder, LockDepth, LockWaiting, WaitingOf

\* Known of two states: what one thread changes, and the others do not.
Others(t) == \A u \in Thread \ {t} : SameHold(u)

LEMMA SameObject ==
  ASSUME Alone, Alone', NEW o \in Object, NEW t \in Thread, Others(t),
         ~ Has(t, o), ~ (Has(t, o)')
  PROVE  LockHolder'[o] = LockHolder[o] /\ LockDepth'[o] = LockDepth[o]
<1>1. \A u \in Thread : (Has(u, o)' <=> Has(u, o)) /\ (Has(u, o) => DepthOf(u)' = DepthOf(u))
  BY DEF Others, SameHold, Has
<1>2. HolderKnown /\ HolderKnown'
  BY HolderOf, HolderOfNext
<1>3. CASE \E u \in Thread : Has(u, o)
  <2>1. PICK u \in Thread : Has(u, o)
    BY <1>3
  <2>2. LockHolder[o] = u /\ LockDepth[o] = DepthOf(u)
    BY <1>2, <2>1 DEF HolderKnown
  <2>3. LockHolder'[o] = u /\ LockDepth'[o] = DepthOf(u)'
    BY <1>1, <1>2, <2>1 DEF HolderKnown
  <2> QED  BY <1>1, <2>1, <2>2, <2>3
<1>4. CASE \A u \in Thread : ~ Has(u, o)
  <2>1. LockHolder[o] = None /\ LockDepth[o] = 0
    BY <1>2, <1>4 DEF HolderKnown
  <2>2. LockHolder'[o] = None /\ LockDepth'[o] = 0
    BY <1>1, <1>2, <1>4 DEF HolderKnown
  <2> QED  BY <2>1, <2>2
<1> QED  BY <1>3, <1>4

\* What t holds is as it was.
LEMMA HoldsOn ==
  ASSUME Alone, Alone', NEW t \in Thread, Others(t), SameHold(t)
  PROVE  UNCHANGED <<LockHolder, LockDepth>>
<1>1. \A o \in Object : LockHolder'[o] = LockHolder[o] /\ LockDepth'[o] = LockDepth[o]
  <2> TAKE o \in Object
  <2>1. CASE ~ Has(t, o)
    BY <2>1, SameObject DEF SameHold, Has
  <2>2. CASE Has(t, o)
    <3>1. HolderKnown /\ HolderKnown'
      BY HolderOf, HolderOfNext
    <3>2. LockHolder[o] = t /\ LockDepth[o] = DepthOf(t)
      BY <2>2, <3>1 DEF HolderKnown
    <3>3. LockHolder'[o] = t /\ LockDepth'[o] = DepthOf(t)'
      BY <2>2, <3>1 DEF HolderKnown, SameHold, Has
    <3> QED  BY <2>2, <3>2, <3>3 DEF SameHold, Has
  <2> QED  BY <2>1, <2>2
<1> QED  BY <1>1, Shapes

\* t takes the lock of o.
LEMMA TakesIt ==
  ASSUME Alone, Alone', NEW t \in Thread, Others(t), NEW o \in Object, NEW n,
         ~ Holds(t), Holds(t)', Obj(t)' = o, DepthOf(t)' = n
  PROVE  Lock!Take(t, o, n)
<1>1. HolderKnown /\ HolderKnown'
  BY HolderOf, HolderOfNext
<1>2. \A u \in Thread : ~ Has(u, o)
  BY DEF Has, Others, SameHold, Alone
<1>3. LockHolder[o] = None
  BY <1>1, <1>2 DEF HolderKnown
<1>4. LockHolder'[o] = t /\ LockDepth'[o] = n
  BY <1>1 DEF HolderKnown, Has
<1>5. \A p \in Object \ {o} : LockHolder'[p] = LockHolder[p] /\ LockDepth'[p] = LockDepth[p]
  BY SameObject DEF Has
<1>6. LockHolder' = [LockHolder EXCEPT ![o] = t] /\ LockDepth' = [LockDepth EXCEPT ![o] = n]
  BY <1>4, <1>5, Shapes
<1> QED  BY <1>3, <1>6 DEF Lock!Take

\* t gives up the lock of its object, or changes how often it holds it.
LEMMA Changes ==
  ASSUME Alone, Alone', NEW t \in Thread, Others(t), Holds(t), Obj(t) \in Object,
         Holds(t)' => Obj(t)' = Obj(t)
  PROVE  /\ LockHolder[Obj(t)] = t /\ LockDepth[Obj(t)] = DepthOf(t)
         /\ ~ (Holds(t)') => Lock!Drop(Obj(t))
         /\ Holds(t)' => /\ LockHolder' = LockHolder
                         /\ LockDepth' = [LockDepth EXCEPT ![Obj(t)] = DepthOf(t)']
<1> DEFINE o == Obj(t)
<1>1. HolderKnown /\ HolderKnown'
  BY HolderOf, HolderOfNext
<1>2. LockHolder[o] = t /\ LockDepth[o] = DepthOf(t)
  BY <1>1 DEF HolderKnown, Has
<1>3. \A p \in Object \ {o} : LockHolder'[p] = LockHolder[p] /\ LockDepth'[p] = LockDepth[p]
  BY SameObject DEF Has
<1>4. ASSUME ~ (Holds(t)')
      PROVE  Lock!Drop(Obj(t))
  <2>1. \A p \in Object : p = o => \A u \in Thread : ~ (Has(u, p)')
    BY <1>4 DEF Has, Others, SameHold, Alone
  <2>2. \A p \in Object : p = o => LockHolder'[p] = None /\ LockDepth'[p] = 0
    BY <1>1, <2>1 DEF HolderKnown
  <2>3. \A p \in Object : /\ LockHolder'[p] = IF p = o THEN None ELSE LockHolder[p]
                          /\ LockDepth'[p] = IF p = o THEN 0 ELSE LockDepth[p]
    BY <1>3, <2>2
  <2>4. LockHolder' = [LockHolder EXCEPT ![o] = None] /\ LockDepth' = [LockDepth EXCEPT ![o] = 0]
    BY <2>3, Shapes
  <2> QED  BY <2>4 DEF Lock!Drop
<1>5. ASSUME Holds(t)'
      PROVE  /\ LockHolder' = LockHolder
             /\ LockDepth' = [LockDepth EXCEPT ![o] = DepthOf(t)']
  <2>1. \A p \in Object : p = o => LockHolder'[p] = t /\ LockDepth'[p] = DepthOf(t)'
    BY <1>1, <1>5 DEF HolderKnown, Has
  <2>2. \A p \in Object : /\ LockHolder'[p] = LockHolder[p]
                          /\ LockDepth'[p] = IF p = o THEN DepthOf(t)' ELSE LockDepth[p]
    BY <1>2, <1>3, <2>1
  <2> QED  BY <2>2, Shapes
<1> QED  BY <1>2, <1>4, <1>5

Refined == Lock!Next \/ UNCHANGED Lock!vars

\* The facts the steps below rest on.
Kept == InOrder /\ Promising /\ NodesAreWaiting /\ Promises

LEMMA KeptAlone ==
  Kept => Alone
BY Exclusive DEF Kept, Alone

LEMMA KeptAloneNext ==
  Kept' => Alone'
<1>1. (Kept => Alone)'
  BY KeptAlone, PTL
<1> QED  BY <1>1

LEMMA OthersLand ==
  ASSUME NEW t, NEW pc, NEW o, NEW m, NEW k, NEW w, Lands(t, pc, o, m, k, w),
         \A u \in Thread \ {t} : Holds(u) => locks'[Mon(u)] = locks[Mon(u)]
  PROVE  Others(t)
BY DEF Lands, Others, SameHold, Holds, DepthOf, Obj, Mon, Waits

LEMMA WaitingLands ==
  ASSUME NEW t \in Thread, NEW pc, NEW o, NEW m, NEW k, NEW w, Lands(t, pc, o, m, k, w),
         \A u \in Thread \ {t} : u \in signalled' <=> u \in signalled
  PROVE  /\ LockWaiting' = [LockWaiting EXCEPT ![t] = WaitingOf(t)']
         /\ LockWaiting[t] = WaitingOf(t)
         /\ WaitingOf(t)' = WaitingOf(t) => LockWaiting' = LockWaiting
<1>1. \A u \in Thread \ {t} : WaitingOf(u)' = WaitingOf(u)
  BY DEF Lands, WaitingOf, Holds, Obj, Waits
<1> QED  BY <1>1, Shapes

LEMMA Uses ==
  ASSUME NEW t \in Thread, NEW o \in Object, UNCHANGED program,
         \/ Lock!Enter(t, o) \/ Lock!Reenter(t, o) \/ Lock!Exit(t, o)
         \/ Lock!BeginWait(t, o) \/ Lock!Pulse(t, o) \/ Lock!EndWait(t, o)
  PROVE  Refined
BY DEF Refined, Lock!Next, Lock!Use, Lock!settings

\* A step away from the lock, or within it.
LEMMA StaysAway ==
  ASSUME Kept, Kept', UNCHANGED <<program, locks, signalled>>, NEW t \in Thread,
         NEW pc, NEW o, NEW m, NEW k, NEW w, Lands(t, pc, o, m, k, w),
         ~ Holds(t), pc \notin Holding, w = thread[t].wait, Waits(t) => o = Obj(t)
  PROVE  Refined
<1>1. ~ (Holds(t)') /\ (Waits(t)' <=> Waits(t)) /\ thread'[t].wait = thread[t].wait
      /\ (Waits(t) => Obj(t)' = Obj(t))
  BY DEF Lands, Holds, Waits, Obj
<1>2. WaitingOf(t)' = WaitingOf(t)
  BY <1>1 DEF WaitingOf
<1>3. LockWaiting' = LockWaiting
  BY <1>2, WaitingLands
<1>4. UNCHANGED <<LockHolder, LockDepth>>
  BY <1>1, OthersLand, HoldsOn, KeptAlone, KeptAloneNext DEF SameHold
<1> QED  BY <1>3, <1>4 DEF Refined, Lock!vars, Lock!settings

LEMMA Steps ==
  ASSUME Kept, Kept', UNCHANGED <<program, locks, signalled>>, NEW t \in Thread,
         NEW pc, Moves(t, pc), ~ Holds(t), pc \notin Holding
  PROVE  Refined
BY StaysAway DEF Moves

LEMMA Enters ==
  ASSUME Kept, Kept', UNCHANGED <<program, locks, signalled>>, NEW t \in Thread, Entered(t),
         thread[t].pc \in {"install", "verify", "grab", "lastGrab"}, locks[Mon(t)] = 1
  PROVE  Refined
<1>1. Moves(t, IF Waits(t) THEN "restore" ELSE "held") /\ ~ Holds(t)
  BY EnteredMoves DEF Kept, InOrder, Basics, Holds, Holding
<1>2. CASE Waits(t)
  BY <1>1, <1>2, Steps DEF Holding
<1>3. CASE ~ Waits(t)
  <2>1. Lands(t, "held", Obj(t), Mon(t), thread[t].kind, thread[t].wait)
    BY <1>1, <1>3 DEF Moves
  <2>2. Holds(t)' /\ Obj(t)' = Obj(t) /\ Mon(t)' = Mon(t) /\ ~ (Waits(t)')
    BY <1>3, <2>1 DEF Lands, Holds, Holding, Waits, Obj, Mon
  <2>3. DepthOf(t)' = 1
    BY <2>2 DEF DepthOf
  <2>4. Obj(t) \in Object
    BY Knows DEF Kept, InOrder, Basics, WithoutObject
  <2>5. Others(t)
    BY <2>1, OthersLand
  <2>6. Lock!Take(t, Obj(t), 1)
    BY <1>1, <2>2, <2>3, <2>4, <2>5, TakesIt, KeptAlone, KeptAloneNext
  <2>7. WaitingOf(t) = Lock!NotWaiting /\ WaitingOf(t)' = WaitingOf(t)
    BY <1>3, <2>2 DEF WaitingOf, Lock!NotWaiting
  <2>8. LockWaiting' = LockWaiting /\ LockWaiting[t] = Lock!NotWaiting
    BY <2>1, <2>7, WaitingLands
  <2>9. Lock!Enter(t, Obj(t))
    BY <2>6, <2>8 DEF Lock!Enter
  <2> QED  BY <2>4, <2>9, Uses
<1> QED  BY <1>2, <1>3

\* The holder's lock is given up: Exit, or the exit inside Wait.
LEMMA GivesUp ==
  ASSUME Kept, Kept', UNCHANGED <<program, locks, signalled>>, NEW t \in Thread, NEW pc, Moves(t, pc),
         thread[t].pc \in {"hand", "park", "deflate"}, pc \notin Holding, pc \in PC
  PROVE  Refined
<1>1. Holds(t) /\ Obj(t) \in Object /\ Mon(t) \in Monitor
  BY Exclusive DEF Kept, Holds, Holding
<1>2. Lands(t, pc, Obj(t), Mon(t), thread[t].kind, thread[t].wait) /\ Others(t)
  BY OthersLand DEF Moves
<1>3. ~ (Holds(t)') /\ (Waits(t)' <=> Waits(t)) /\ thread'[t].wait = thread[t].wait /\ Obj(t)' = Obj(t)
  BY <1>2 DEF Lands, Holds, Waits, Obj
<1>4. LockHolder[Obj(t)] = t /\ LockDepth[Obj(t)] = DepthOf(t) /\ Lock!Drop(Obj(t))
  BY <1>1, <1>2, <1>3, Changes, KeptAlone, KeptAloneNext
<1>5. CASE Waits(t)
  <2>1. t \notin signalled /\ ~ thread[t].wait.pulsed
    BY <1>1, <1>5 DEF Kept, Promises, Promised
  <2>2. WaitingOf(t)' = [obj |-> Obj(t), depth |-> DepthOf(t), pulsed |-> FALSE]
    BY <1>3, <1>5, <2>1 DEF WaitingOf, DepthOf
  <2>3. Lock!BeginWait(t, Obj(t))
    BY <1>2, <1>4, <2>2, WaitingLands DEF Lock!BeginWait
  <2> QED  BY <1>1, <2>3, Uses
<1>6. CASE ~ Waits(t)
  <2>1. Quiet(Mon(t))
    BY DEF Kept, InOrder, Basics, AbortsAreRare, Promising, Quiet
  <2>2. DepthOf(t) = 1
    BY <1>6, <2>1 DEF DepthOf, Kept, Promising, InOrder, Order, UnlockedOnce, Owning
  <2>3. WaitingOf(t)' = WaitingOf(t)
    BY <1>3, <1>6 DEF WaitingOf
  <2>4. Lock!Exit(t, Obj(t))
    BY <1>2, <1>4, <2>2, <2>3, WaitingLands DEF Lock!Exit
  <2> QED  BY <1>1, <2>4, Uses
<1> QED  BY <1>5, <1>6

\* A step of a holder that keeps the lock and holds it as often as before.
LEMMA HoldsStill ==
  ASSUME Kept, Kept', UNCHANGED <<program, signalled>>, NEW t \in Thread,
         NEW pc, NEW k, NEW w, Lands(t, pc, Obj(t), Mon(t), k, w), Holds(t), pc \in Holding,
         \A n \in Monitor \ {Mon(t)} : locks'[n] = locks[n],
         DepthOf(t)' = DepthOf(t)
  PROVE  Refined
<1>1. Holds(t)' /\ Obj(t)' = Obj(t)
  BY DEF Lands, Holds, Obj
<1>2. \A u \in Thread \ {t} : Holds(u) => locks'[Mon(u)] = locks[Mon(u)]
  BY Exclusive DEF Kept
<1>3. UNCHANGED <<LockHolder, LockDepth>>
  BY <1>1, <1>2, OthersLand, HoldsOn, KeptAlone, KeptAloneNext DEF SameHold
<1>4. LockWaiting' = LockWaiting
  BY <1>1, WaitingLands DEF WaitingOf
<1> QED  BY <1>3, <1>4 DEF Refined, Lock!vars, Lock!settings

LEMMA ReentersOrLeavesOne ==
  ASSUME Kept, Kept', UNCHANGED program, NEW t \in Thread, Reenter(t) \/ ExitInner(t)
  PROVE  Refined
<1>1. thread[t].pc = "held" /\ UNCHANGED <<thread, signalled>> /\ Holds(t)
  BY DEF Reenter, ExitInner, At, lists, Holds, Holding
<1>2. Obj(t) \in Object /\ Mon(t) \in Monitor /\ locks \in [Monitor -> 1 .. program.depth]
      /\ program.depth \in Nat
  BY <1>1, Exclusive DEF Kept, InOrder, Basics, Typed, HeapTyped
<1>3. ~ Waits(t) /\ ~ (Waits(t)')
  BY <1>1 DEF Kept, InOrder, Basics, Typed, ThreadsTyped, Local, Waits
<1>4. Lands(t, "held", Obj(t), Mon(t), thread[t].kind, thread[t].wait)
  BY <1>1 DEF Lands, Obj, Mon
<1>5. \A n \in Monitor \ {Mon(t)} : locks'[n] = locks[n]
  BY <1>2 DEF Reenter, ExitInner
<1>6. Others(t)
  BY <1>1, <1>2, <1>4, <1>5, OthersLand, Exclusive DEF Kept
<1>7. Holds(t)' /\ Obj(t)' = Obj(t) /\ Mon(t)' = Mon(t)
  BY <1>1 DEF Holds, Obj, Mon
<1>8. /\ LockHolder[Obj(t)] = t /\ LockDepth[Obj(t)] = DepthOf(t) /\ LockHolder' = LockHolder
      /\ LockDepth' = [LockDepth EXCEPT ![Obj(t)] = DepthOf(t)']
  BY <1>1, <1>2, <1>6, <1>7, Changes, KeptAlone, KeptAloneNext
<1>9. LockWaiting' = LockWaiting
  BY <1>1, <1>4, <1>7, WaitingLands DEF WaitingOf
<1>10. DepthOf(t) = locks[Mon(t)] /\ DepthOf(t)' = locks'[Mon(t)]
  BY <1>3, <1>7 DEF DepthOf
<1>11. CASE Reenter(t)
  <2>1. locks'[Mon(t)] = locks[Mon(t)] + 1
    BY <1>2, <1>11 DEF Reenter
  <2>2. Lock!Reenter(t, Obj(t))
    BY <1>8, <1>9, <1>10, <2>1 DEF Lock!Reenter
  <2> QED  BY <1>2, <2>2, Uses
<1>12. CASE ExitInner(t)
  <2>1. locks'[Mon(t)] = locks[Mon(t)] - 1 /\ locks[Mon(t)] > 1
    BY <1>2, <1>12 DEF ExitInner
  <2>2. Lock!Exit(t, Obj(t))
    BY <1>8, <1>9, <1>10, <2>1 DEF Lock!Exit
  <2> QED  BY <1>2, <2>2, Uses
<1> QED  BY <1>11, <1>12

LEMMA WaitEnds ==
  ASSUME Kept, Kept', UNCHANGED program, NEW t \in Thread, Restore(t)
  PROVE  Refined
<1>1. thread[t].pc = "restore" /\ ~ Holds(t) /\ signalled' = signalled \ {t}
  BY DEF Restore, At, Holds, Holding
<1>2. Obj(t) \in Object /\ Mon(t) \in Monitor /\ Waits(t) /\ thread[t].wait.kind \in program.waits
      /\ (thread[t].wait.pulsed \/ thread[t].wait.kind # "infinite" \/ "wait" \in program.interrupts)
  BY <1>1, Knows DEF Kept, InOrder, Basics, WithMonitor, WithoutObject, Promises, Promised, Late, PC,
     Typed, ThreadsTyped, Local
<1>3. Lands(t, "held", Obj(t), Mon(t), "none", NoWait)
  BY TypedRestore DEF Kept, InOrder, Basics
<1>4. Holds(t)' /\ Obj(t)' = Obj(t) /\ Mon(t)' = Mon(t) /\ ~ (Waits(t)')
  BY <1>3 DEF Lands, Holds, Holding, Obj, Mon, Waits
<1>5. locks'[Mon(t)] = thread[t].wait.depth /\ \A n \in Monitor \ {Mon(t)} : locks'[n] = locks[n]
  BY <1>2 DEF Restore, Kept, InOrder, Basics, Typed, HeapTyped
<1>6. \A u \in Thread \ {t} : Holds(u) => Mon(u) # Mon(t) /\ Mon(u) \in Monitor
  <2> TAKE u \in Thread \ {t}
  <2> HAVE Holds(u)
  <2>1. owner[Mon(u)] = u /\ Mon(u) \in Monitor
    BY Exclusive DEF Kept
  <2>2. owner[Mon(t)] = t
    BY <1>1, <1>2 DEF Kept, Promising, InOrder, Order, OwnersOwn, Owning, Basics, AbortsAreRare, Quiet
  <2> QED  BY <2>1, <2>2
<1>7. Others(t)
  BY <1>3, <1>5, <1>6, OthersLand
<1>8. DepthOf(t)' = thread[t].wait.depth
  BY <1>4, <1>5 DEF DepthOf
<1>9. Lock!Take(t, Obj(t), thread[t].wait.depth)
  BY <1>1, <1>2, <1>4, <1>7, <1>8, TakesIt, KeptAlone, KeptAloneNext
<1>10. /\ LockWaiting[t] = WaitingOf(t) /\ LockWaiting' = [LockWaiting EXCEPT ![t] = WaitingOf(t)']
  BY <1>1, <1>3, WaitingLands
<1>11. WaitingOf(t)' = Lock!NotWaiting
  BY <1>4 DEF WaitingOf, Lock!NotWaiting
<1>12. /\ WaitingOf(t).obj = Obj(t) /\ WaitingOf(t).depth = thread[t].wait.depth
       /\ WaitingOf(t).pulsed = (thread[t].wait.pulsed \/ t \in signalled)
  BY <1>1, <1>2 DEF WaitingOf
<1>13. WaitingOf(t).pulsed \/ program.waits # {"infinite"} \/ "wait" \in program.interrupts
  BY <1>2, <1>12
<1>14. Lock!EndWait(t, Obj(t))
  BY <1>9, <1>10, <1>11, <1>12, <1>13 DEF Lock!EndWait
<1> QED  BY <1>2, <1>14, Uses

\* Setting the pulsed flag of a waiting record leaves the rest of it alone
\* (what Monitor::Pulse
\* changes of a waiter is whether its event is set).
LEMMA SetPulsed ==
  ASSUME NEW o, NEW d, NEW q, NEW w, w = [obj |-> o, depth |-> d, pulsed |-> q]
  PROVE  [w EXCEPT !.pulsed = TRUE] = [obj |-> o, depth |-> d, pulsed |-> TRUE]
<1> DEFINE yes == TRUE
<1> HIDE DEF yes
<1>1. [w EXCEPT !.pulsed = yes] = [obj |-> o, depth |-> d, pulsed |-> yes]
  BY SMT
<1> QED  BY <1>1, Zenon DEF yes

LEMMA Pulses ==
  ASSUME Kept, Kept', UNCHANGED program, NEW t \in Thread, Pulse(t)
  PROVE  Refined
<1>1. thread[t].pc = "held" /\ UNCHANGED <<thread, locks>> /\ Holds(t)
  BY DEF Pulse, At, heap, Holds, Holding
<1>2. Obj(t) \in Object /\ Mon(t) \in Monitor /\ monitor[Obj(t)] = Mon(t)
  BY <1>1, Exclusive DEF Kept
<1>3. PICK n \in Nat \ {0} :
        /\ PulseFirst(t, n)
        /\ Range(SubSeq(pulseList[Mon(t)], 1, n)) \subseteq Range(pulseList[Mon(t)])
        /\ Range(pulseList[Mon(t)]) \subseteq Thread
  BY PulseTakes DEF Kept, InOrder, Basics
<1> DEFINE woken == Range(SubSeq(pulseList[Mon(t)], 1, n))
<1>4. signalled' = signalled \cup woken /\ woken \subseteq Thread
  BY <1>3 DEF PulseFirst
<1>5. \A u \in woken : Waits(u) /\ ~ Holds(u) /\ Obj(u) = Obj(t)
  <2> TAKE u \in woken
  <2>1. u \in Thread /\ Waits(u) /\ monitor[Obj(u)] = Mon(t)
    BY <1>2, <1>3 DEF Kept, NodesAreWaiting, At, Promises, Promised
  <2>2. ~ Holds(u)
    BY <1>1, <1>4, <2>1 DEF Kept, Promises, Promised, Holds
  <2>3. Obj(u) \in Object
    BY <2>1, Knows DEF Kept, InOrder, Basics, WithoutObject, Typed, ThreadsTyped, Local
  <2> QED  BY <1>2, <2>1, <2>2, <2>3, NoneAssumption DEF Kept, Promising, InOrder, Order, OneOfEach
<1> HIDE DEF woken
<1>6. \A u \in Thread : WaitingOf(u)' =
        IF u \in woken THEN [WaitingOf(u) EXCEPT !.pulsed = TRUE] ELSE WaitingOf(u)
  <2> TAKE u \in Thread
  <2>1. (Waits(u)' <=> Waits(u)) /\ (Holds(u)' <=> Holds(u)) /\ Obj(u)' = Obj(u)
        /\ thread'[u].wait = thread[u].wait
    BY <1>1 DEF Waits, Holds, Obj
  <2>2. CASE u \in woken
    <3>1. Waits(u) /\ ~ Holds(u) /\ u \in signalled'
      BY <1>4, <1>5, <2>2
    <3>2. WaitingOf(u)' = [obj |-> Obj(u), depth |-> thread[u].wait.depth, pulsed |-> TRUE]
      BY <2>1, <3>1 DEF WaitingOf
    <3>3. PICK q : WaitingOf(u) = [obj |-> Obj(u), depth |-> thread[u].wait.depth, pulsed |-> q]
      BY <3>1 DEF WaitingOf
    <3>4. [WaitingOf(u) EXCEPT !.pulsed = TRUE]
            = [obj |-> Obj(u), depth |-> thread[u].wait.depth, pulsed |-> TRUE]
      <4> HIDE DEF WaitingOf
      <4> QED  BY <3>3, SetPulsed, Zenon
    <3> QED  BY <2>2, <3>2, <3>4, Zenon
  <2>3. CASE u \notin woken
    <3>1. u \in signalled' <=> u \in signalled
      BY <1>4, <2>3
    <3> QED  BY <2>1, <2>3, <3>1 DEF WaitingOf
  <2> QED  BY <2>2, <2>3
<1>7. woken \in SUBSET {u \in Thread : LockWaiting[u].obj = Obj(t)}
  BY <1>4, <1>5, Shapes DEF WaitingOf
<1>8. LockWaiting' = [u \in Thread |->
        IF u \in woken THEN [LockWaiting[u] EXCEPT !.pulsed = TRUE] ELSE LockWaiting[u]]
  BY <1>6, Shapes
<1>9. SameHold(t) /\ Others(t)
  BY <1>1 DEF SameHold, Others, Holds, Obj, DepthOf, Waits, Mon
<1>10. UNCHANGED <<LockHolder, LockDepth>>
  BY <1>9, HoldsOn, KeptAlone, KeptAloneNext
<1>11. LockHolder[Obj(t)] = t
  BY <1>1, <1>2, HolderOf, KeptAlone DEF HolderKnown, Has
<1>12. Lock!Pulse(t, Obj(t))
  BY <1>7, <1>8, <1>10, <1>11 DEF Lock!Pulse
<1> QED  BY <1>2, <1>12, Uses

LEMMA RefineStep ==
  ASSUME Kept, Kept', [Next]_vars
  PROVE  Refined
<1>0. ASSUME UNCHANGED <<program, thread, locks, signalled>>
      PROVE  Refined
  <2>1. \A t \in Thread : SameHold(t) /\ WaitingOf(t)' = WaitingOf(t)
    BY <1>0 DEF SameHold, WaitingOf, Holds, Obj, DepthOf, Waits, Mon
  <2>2. LockWaiting' = LockWaiting
    BY <2>1, Shapes
  <2>3. \A o \in Object : LockHolder'[o] = LockHolder[o] /\ LockDepth'[o] = LockDepth[o]
    BY <1>0 DEF LockHolder, LockDepth, Has, Holds, Obj, DepthOf, Waits, Mon
  <2>4. UNCHANGED <<LockHolder, LockDepth>>
    BY <2>3, Shapes
  <2> QED  BY <1>0, <2>2, <2>4 DEF Refined, Lock!vars, Lock!settings
<1>1. CASE UNCHANGED vars
  BY <1>0, <1>1 DEF vars, state, heap, lists
<1>2. CASE Next
  <2>1. UNCHANGED program
    BY <1>2 DEF Next
  <2>2. PICK t \in Thread : Program(t) \/ Run(t) \/ Disturbance(t)
    BY <1>2 DEF Next
  <2>3. Typed /\ Basics /\ Order
    BY DEF Kept, Promising, InOrder, Basics
  <2>4. /\ thread[t].pc \in {"idle", "held", "thrown", "dead"} => ~ Waits(t)
        /\ Waits(t) => thread[t].kind = "infinite"
        /\ thread[t].pc \in {"lastRead", "lastGrab"} => thread[t].kind = "timed"
        /\ thread[t].kind # "aborted"
        /\ thread[t].pc \in WithMonitor => Mon(t) \in Monitor
    BY DEF Kept, InOrder, Basics, Typed, ThreadsTyped, Local, AbortsAreRare, Casualties, Promising
  <2>5. \A m : Quiet(m)
    BY <2>3 DEF Basics, AbortsAreRare, Quiet, Kept, Promising
  <2> USE <2>1
  \* the kinds of steps outside the lock
  <2>6. ASSUME UNCHANGED <<locks, signalled>>, NEW pc \in PC, Goto(t, pc), ~ Holds(t), pc \notin Holding
        PROVE  Refined
    BY <2>3, <2>6, GotoMoves, Steps DEF Typed
  <2>7. ASSUME UNCHANGED <<locks, signalled>>, Become(t, Idle), ~ Holds(t), ~ Waits(t)
        PROVE  Refined
    <3>1. Lands(t, "idle", None, None, "none", NoWait)
      BY <2>3, <2>7, BecomeStops DEF Stops, Typed
    <3> QED  BY <2>7, <3>1, StaysAway DEF Holding, Waits
  <2>8. ASSUME thread[t].pc \in {"grab", "lastGrab"}, TryAcquire(t)
        PROVE  locks[Mon(t)] = 1
    BY <2>3, <2>4, <2>5, <2>8 DEF TryAcquire, Order, UnlockedOnce, WithMonitor
  <2>9. ASSUME thread[t].pc \in {"install", "verify"}
        PROVE  locks[Mon(t)] = 1
    BY <2>3, <2>5, <2>9 DEF Order, UnlockedOnce, Owning
  <2>10. CASE Flush(t)
    BY <1>0, <2>10 DEF Flush, lists
  <2>11. CASE Reenter(t) \/ ExitInner(t)
    BY <2>11, ReentersOrLeavesOne
  <2>12. CASE Restore(t)
    BY <2>12, WaitEnds
  <2>13. CASE Pulse(t)
    BY <2>13, Pulses
  <2>14. CASE Unacquire(t) \/ Deflate(t)
    <3>1. UNCHANGED <<locks, signalled>> /\ thread[t].pc \in {"hand", "park", "deflate"}
      BY <2>14 DEF Unacquire, Deflate, At, lists
    <3>2. PICK pc \in {"post", "postIfReady", "flush"} : Moves(t, pc)
      BY <2>3, <2>14, GotoMoves DEF Unacquire, Deflate, Typed, PC
    <3> QED  BY <3>1, <3>2, GivesUp DEF Holding, PC
  <2>15. CASE Enter(t)
    <3>1. ~ Waits(t) /\ UNCHANGED <<locks, signalled>> /\ ~ Holds(t)
      BY <2>4, <2>15 DEF Enter, At, heap, lists, Holds, Holding
    <3>2. \E o, k : Lands(t, "read", o, None, k, NoWait)
      BY <2>3, <2>15, TypedEnter
    <3> QED  BY <3>1, <3>2, StaysAway DEF Waits, Holding
  <2>16. CASE ReadMonitor(t) \/ Allocate(t)
    <3>1. UNCHANGED <<locks, signalled>> /\ ~ Holds(t)
      BY <2>16 DEF ReadMonitor, Allocate, At, heap, lists, Holds, Holding
    <3>2. \E pc \in {"try", "allocate", "install"} :
            \E m : Lands(t, pc, Obj(t), m, thread[t].kind, thread[t].wait)
      BY <2>3, <2>16, TypedReadMonitor, TypedAllocate
    <3> QED  BY <3>1, <3>2, StaysAway DEF Holding
  <2>17. CASE Install(t)
    <3>1. UNCHANGED <<locks, signalled>> /\ thread[t].pc = "install" /\ ~ Holds(t)
      BY <2>17 DEF Install, At, lists, Holds, Holding
    <3>2. Entered(t) => Refined
      BY <2>9, <3>1, Enters
    <3> QED  BY <2>6, <2>17, <3>1, <3>2 DEF Install, PC, Holding
  <2>18. CASE Try(t)
    <3>1. UNCHANGED <<locks, signalled>> /\ ~ Holds(t)
      BY <2>18 DEF Try, At, lists, Holds, Holding
    <3>2. CASE Goto(t, "verify") \/ Goto(t, "join")
      BY <2>6, <3>1, <3>2 DEF PC, Holding
    <3>3. CASE thread[t].kind = "zero" /\ Become(t, Idle)
      BY <2>4, <2>7, <3>1, <3>3
    <3> QED  BY <2>18, <3>2, <3>3 DEF Try
  <2>19. CASE Verify(t)
    <3>1. UNCHANGED <<locks, signalled>> /\ thread[t].pc = "verify" /\ ~ Holds(t)
      BY <2>19 DEF Verify, At, lists, Holds, Holding
    <3>2. Entered(t) => Refined
      BY <2>9, <3>1, Enters
    <3> QED  BY <2>6, <2>19, <3>1, <3>2 DEF Verify, PC, Holding
  <2>20. CASE Join(t) \/ Wake(t)
    <3>1. UNCHANGED <<locks, signalled>> /\ ~ Holds(t)
      BY <2>20 DEF Join, Wake, At, lists, Holds, Holding
    <3> QED  BY <2>6, <2>20, <3>1 DEF Join, Wake, PC, Holding
  <2>21. CASE Loop(t)
    <3>1. UNCHANGED <<locks, signalled>> /\ ~ Holds(t)
      BY <2>21 DEF Loop, At, lists, Holds, Holding
    <3> QED  BY <2>6, <2>21, <3>1 DEF Loop, PC, Holding
  <2>22. CASE Grab(t)
    <3>1. UNCHANGED <<locks, signalled>> /\ thread[t].pc = "grab" /\ ~ Holds(t)
      BY <2>22 DEF Grab, At, lists, Holds, Holding
    <3>2. TryAcquire(t) /\ Entered(t) => Refined
      BY <2>8, <3>1, Enters
    <3> QED  BY <2>6, <2>22, <3>1, <3>2 DEF Grab, PC, Holding
  <2>23. CASE LastRead(t)
    <3>1. UNCHANGED <<locks, signalled>> /\ thread[t].pc = "lastRead" /\ ~ Holds(t) /\ ~ Waits(t)
      BY <2>4, <2>23 DEF LastRead, At, heap, lists, Holds, Holding
    <3> QED  BY <2>6, <2>7, <2>23, <3>1 DEF LastRead, PC, Holding
  <2>24. CASE LastGrab(t)
    <3>1. UNCHANGED <<locks, signalled>> /\ thread[t].pc = "lastGrab" /\ ~ Holds(t) /\ ~ Waits(t)
      BY <2>4, <2>24 DEF LastGrab, At, lists, Holds, Holding
    <3>2. TryAcquire(t) /\ Entered(t) => Refined
      BY <2>8, <3>1, Enters
    <3> QED  BY <2>7, <2>24, <3>1, <3>2 DEF LastGrab
  <2>25. CASE EnterTimesOut(t)
    <3>1. UNCHANGED <<locks, signalled>> /\ ~ Holds(t) /\ ~ Waits(t)
      BY <2>4, <2>25 DEF EnterTimesOut, At, lists, Holds, Holding
    <3> QED  BY <2>6, <2>7, <2>25, <3>1 DEF EnterTimesOut, PC, Holding
  <2>26. CASE EnterIsInterrupted(t)
    <3>1. UNCHANGED <<locks, signalled>> /\ ~ Holds(t) /\ ~ Waits(t) /\ Become(t, Idle)
      BY <2>26 DEF EnterIsInterrupted, At, lists, Holds, Holding, Kept, Promising
    <3> QED  BY <2>7, <3>1
  <2>27. CASE PostOne(t) \/ PostIfReady(t) \/ ReturnMonitor(t)
    <3>1. UNCHANGED <<locks, signalled>> /\ ~ Holds(t)
      BY <2>27 DEF PostOne, PostIfReady, ReturnMonitor, At, lists, Holds, Holding
    <3>2. IF ~ Waits(t) THEN Stops(t)
          ELSE Lands(t, IF thread[t].wait.kind = "zero" THEN "read" ELSE "pulse", Obj(t), None,
                     thread[t].kind, thread[t].wait)
      BY <2>3, <2>4, <2>27, ReleasedTyped DEF PostOne, PostIfReady, ReturnMonitor, At
    <3>3. CASE ~ Waits(t)
      <4>1. Lands(t, "idle", None, None, "none", NoWait)
        BY <3>2, <3>3 DEF Stops
      <4> QED  BY <3>1, <3>3, <4>1, StaysAway DEF Waits, Holding
    <3>4. CASE Waits(t)
      <4>1. PICK pc \in {"read", "pulse"} : Lands(t, pc, Obj(t), None, thread[t].kind, thread[t].wait)
        BY <3>2, <3>4
      <4> QED  BY <3>1, <4>1, StaysAway DEF Holding
    <3> QED  BY <3>3, <3>4
  <2>28. CASE WaitGivesUp(t)
    <3>1. UNCHANGED <<locks, signalled>> /\ ~ Holds(t)
      BY <2>28 DEF WaitGivesUp, At, heap, lists, Holds, Holding
    <3> QED  BY <2>6, <2>28, <3>1 DEF WaitGivesUp, PC, Holding
  <2>29. CASE Pulsed(t)
    <3>1. /\ Lands(t, "read", Obj(t), Mon(t), "infinite", [thread[t].wait EXCEPT !.pulsed = TRUE])
          /\ [thread[t].wait EXCEPT !.pulsed = TRUE] # NoWait
      BY <2>3, <2>29, TypedPulsed
    <3>2. /\ thread[t].wait \in WaitType /\ Waits(t) /\ ~ Holds(t) /\ t \in signalled
          /\ signalled' = signalled \ {t} /\ UNCHANGED locks
      BY <2>3, <2>29 DEF Typed, ThreadsTyped, ThreadType, Local, Pulsed, At, heap, Holds, Holding
    <3>3. /\ Waits(t)' /\ ~ (Holds(t)') /\ Obj(t)' = Obj(t)
          /\ thread'[t].wait.pulsed = TRUE /\ thread'[t].wait.depth = thread[t].wait.depth
      BY <3>1, <3>2 DEF Lands, Waits, WaitType, Holds, Holding, Obj
    <3>4. WaitingOf(t)' = WaitingOf(t)
      BY <3>2, <3>3 DEF WaitingOf
    <3>5. LockWaiting' = LockWaiting
      BY <3>1, <3>2, <3>4, WaitingLands
    <3>6. Others(t) /\ SameHold(t)
      BY <3>1, <3>2, <3>3, OthersLand DEF SameHold
    <3> QED  BY <3>5, <3>6, HoldsOn, KeptAlone, KeptAloneNext DEF Refined, Lock!vars, Lock!settings
  <2>30. CASE ExitOuter(t)
    <3>1. Holds(t) /\ UNCHANGED <<locks, signalled>>
      BY <2>30 DEF ExitOuter, At, heap, lists, Holds, Holding
    <3>2. PICK pc \in {"hand", "park", "deflate"} : Moves(t, pc)
      BY <2>3, <2>30, ExitWays, GotoMoves DEF ExitOuter, Typed, PC
    <3>3. DepthOf(t)' = DepthOf(t)
      BY <3>1, <3>2 DEF DepthOf, Moves, Lands, Waits, Mon
    <3> QED  BY <3>1, <3>2, <3>3, HoldsStill DEF Moves, Holding
  <2>31. CASE Wait(t)
    <3>1. Holds(t) /\ UNCHANGED signalled /\ ~ Waits(t)
      BY <2>4, <2>31 DEF Wait, At, Holds, Holding
    <3>2. PICK k \in {"infinite", "timed", "zero"} :
            Lands(t, "exit", Obj(t), Mon(t), "infinite",
                  [depth |-> locks[Mon(t)], kind |-> k, pulsed |-> FALSE])
      BY <2>3, <2>31, TypedWait
    <3>3. thread'[t].wait = [depth |-> locks[Mon(t)], kind |-> k, pulsed |-> FALSE]
      BY <3>2 DEF Lands
    <3>4. thread'[t].wait.depth = locks[Mon(t)] /\ thread'[t].wait.kind # "none"
      BY <3>3
    <3>5. Waits(t)'
      BY <3>4 DEF Waits, NoWait
    <3>6. DepthOf(t)' = DepthOf(t)
      BY <3>1, <3>4, <3>5 DEF DepthOf
    <3>7. \A n \in Monitor \ {Mon(t)} : locks'[n] = locks[n]
      BY <2>3, <2>31 DEF Wait, Typed, HeapTyped
    <3> QED  BY <3>1, <3>2, <3>6, <3>7, HoldsStill DEF Holding
  <2>32. ~ EnterIsAborted(t) /\ ~ ExitAfterAbort(t) /\ ~ ExitInnerAfterAbort(t)
    <3>1. EnterIsAborted(t) => Cardinality(Casualties) < 0
      BY DEF EnterIsAborted, Casualties, Kept, Promising
    <3>2. Cardinality(Casualties) \in Nat
      BY FiniteCounts, FS_CardinalityType
    <3> QED  BY <2>5, <3>1, <3>2 DEF ExitAfterAbort, ExitInnerAfterAbort, LetPass, Quiet
  <2> QED  BY <2>2, <2>10, <2>11, <2>12, <2>13, <2>14, <2>15, <2>16, <2>17, <2>18, <2>19, <2>20, <2>21,
              <2>22, <2>23, <2>24, <2>25, <2>26, <2>27, <2>28, <2>29, <2>30, <2>31, <2>32
              DEF Program, Run, Disturbance, Leaves
<1> QED  BY <1>1, <1>2

\* Monitor implements the lock a C# program knows: at most one thread holds an
\* object, Wait gives the lock up and takes it back as often as it was held, and
\* ends without a pulse only where the program allows it.  For every program
\* whose monitors keep their object and whose threads are not interrupted while
\* Wait takes the lock back; a program that aborts threads is promised nothing.
THEOREM MonitorImplementsLock ==
  ASSUME \A p \in Programs : Tame(p)
  PROVE  Spec => ImplementsLock
<1> DEFINE Good == InOrder /\ Tame(program) /\ (Promising => NodesAreWaiting /\ Promises)
<1>1. Init => Good
  <2> SUFFICES ASSUME Init PROVE Good
    OBVIOUS
  <2>1. InOrder
    BY BasicsInit, OrderInit DEF InOrder
  <2>2. Tame(program)
    BY DEF Init
  <2>3. IsInjective(<<>>) /\ Range(<<>>) = {}
    BY DEF IsInjective, Range
  <2>4. NodesAreWaiting
    BY <2>3 DEF Init, NodesAreWaiting
  <2>5. Promises
    BY DEF Promises, Promised, Init, Idle, Waits, Holds, Holding
  <2> QED  BY <2>1, <2>2, <2>4, <2>5
<1>2. Good /\ [Next]_vars => Good'
  <2> SUFFICES ASSUME Good, [Next]_vars PROVE Good'
    OBVIOUS
  <2>1. UNCHANGED program /\ InOrder'
    BY ProgramStays, BasicsStep, OrderStep DEF InOrder
  <2>2. Promising' => Promising
    BY <2>1 DEF Promising, MonitorsKeepTheirObject, OneObject
  <2>3. Promising => NodesAreWaiting' /\ Promises'
    BY NodesStep, PromisesStep DEF InOrder, Promising
  <2> QED  BY <2>1, <2>2, <2>3
<1>3. Good /\ Good' /\ [Next]_vars => [Lock!Next]_(Lock!vars)
  <2> SUFFICES ASSUME Good, Good', [Next]_vars PROVE Refined
    BY DEF Refined
  <2>1. UNCHANGED program /\ (Promising' <=> Promising)
    BY ProgramStays DEF Promising, MonitorsKeepTheirObject, OneObject
  <2>2. CASE Promising
    BY <2>1, <2>2, RefineStep DEF Kept
  <2>3. CASE ~ Promising
    <3>1. program.aborts > 0
      <4>1. program.aborts \in Nat
        BY DEF InOrder, Basics, Typed, HeapTyped
      <4> QED  BY <2>3, <4>1 DEF Promising, Tame, MonitorsKeepTheirObject, OneObject
    <3> QED  BY <2>1, <3>1 DEF Refined, Lock!Next, Lock!settings
  <2> QED  BY <2>2, <2>3
<1>4. Init => Lock!Init
  <2> SUFFICES ASSUME Init PROVE Lock!Init
    OBVIOUS
  <2>1. \A t \in Thread : ~ Holds(t) /\ ~ Waits(t)
    BY DEF Init, Idle, Holds, Holding, Waits
  <2>2. LockHolder = [o \in Object |-> None] /\ LockDepth = [o \in Object |-> 0]
    BY <2>1 DEF LockHolder, LockDepth, Has
  <2>3. LockWaiting = [t \in Thread |-> Lock!NotWaiting]
    BY <2>1 DEF LockWaiting, Lock!NotWaiting
  <2> QED  BY <2>2, <2>3 DEF Lock!Init
<1> QED  BY <1>1, <1>2, <1>3, <1>4, PTL DEF Spec, ImplementsLock, Lock!Spec
====
