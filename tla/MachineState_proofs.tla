------------------------ MODULE MachineState_proofs ------------------------
(***************************************************************************)
(* Theorems of MachineState for every stack size, frame and flow capacity, *)
(* method table and nesting depth.                                         *)
(*                                                                         *)
(* The layout of the memory is stated for any frame table fs and tops, so  *)
(* that a step that leaves a frame and then pushes a flow entry            *)
(* (UnwindFrame) is the composition of the lemmas of its two halves.       *)
(***************************************************************************)
EXTENDS MachineState, SequenceTheorems, TLAPS

(* The activations nest: each one has frames of its own, above those of    *)
(* the activations it interrupts.  This survives an escaped exception.     *)
GroupsNest(gs, n) ==
  /\ \A g \in 1..Len(gs) : gs[g].frameBase < gs[g].cur /\ gs[g].cur <= n
  /\ \A g, h \in 1..Len(gs) : g < h => gs[g].cur <= gs[h].frameBase

(* Without one, the activations split the frame table exactly.             *)
GroupsCover(gs, n) ==
  /\ gs = <<>> => n = 0
  /\ gs # <<>> => gs[1].frameBase = 0
  /\ \A g \in 1..Len(gs) :
       gs[g].cur = IF g = Len(gs) THEN n ELSE gs[g + 1].frameBase

StackLayout(fs, top) ==
  /\ \A i \in 1..Len(fs) :
       /\ 0 <= fs[i].base
       /\ fs[i].base + fs[i].size <= top
       /\ fs[i].oldStackTop <= top
  /\ \A i, j \in 1..Len(fs) : i < j =>
       /\ fs[i].base + fs[i].size <= fs[j].oldStackTop
       /\ fs[i].oldStackTop <= fs[j].oldStackTop
  /\ fs # <<>> => fs[1].oldStackTop = 0
  /\ fs = <<>> => top = 0

PoolLayout(fs, pool) ==
  /\ \A i \in 1..Len(fs) :
       /\ pool <= fs[i].oldPool
       /\ fs[i].locs \subseteq pool .. (fs[i].oldPool - 1)
  /\ \A i, j \in 1..Len(fs) : i < j =>
       /\ fs[j].oldPool <= fs[i].oldPool
       /\ fs[i].locs \subseteq fs[j].oldPool .. (fs[i].oldPool - 1)
  /\ fs # <<>> => pool # -1 /\ fs[1].oldPool = StackSize
  /\ fs = <<>> => pool \in {-1, StackSize}

FlowEnd(f) == f.flowMark + f.exCap

FlowLayout(fs, top) ==
  /\ \A i \in 1..Len(fs) :
       /\ fs[i].exCount <= fs[i].exCap
       /\ fs[i].exBase = NoFlow => fs[i].exCap = 0
       /\ fs[i].exBase # NoFlow => fs[i].exBase = fs[i].flowMark
       /\ FlowEnd(fs[i]) <= top
       /\ FlowEnd(fs[i]) = IF i = Len(fs) THEN top ELSE fs[i + 1].flowMark
  /\ \A i, j \in 1..Len(fs) : i < j => FlowEnd(fs[i]) <= fs[j].flowMark
  /\ fs # <<>> => fs[1].flowMark = 0
  /\ fs = <<>> => top = 0
  /\ top <= FlowCap

Layout ==
  /\ GroupsCover(groups, Len(frames))
  /\ StackLayout(frames, stackTop)
  /\ PoolLayout(frames, poolBottom)
  /\ poolBottom # -1 => stackTop <= poolBottom
  /\ FlowLayout(frames, flowTop)

IInv ==
  /\ TypeOK
  /\ phase # "run" => groups # <<>>
  /\ GroupsNest(groups, Len(frames))
  /\ ~escaped => Layout

-----------------------------------------------------------------------------
\* The type of every field of a frame, so that leaves need not expand Frame.
LEMMA FrameFields ==
  ASSUME NEW f \in Frame
  PROVE  /\ f.base \in Int /\ f.size \in Nat
         /\ f.oldStackTop \in Nat /\ f.oldPool \in Nat /\ f.flowMark \in Nat
         /\ f.exBase \in Nat \cup {NoFlow} /\ f.exCount \in Nat /\ f.exCap \in Nat
         /\ f.locs \in SUBSET Int
         /\ FlowEnd(f) \in Nat
<1>1. /\ f.base \in Int /\ f.size \in Nat
      /\ f.oldStackTop \in Nat /\ f.oldPool \in Nat /\ f.flowMark \in Nat
      /\ f.exBase \in Nat \cup {NoFlow} /\ f.exCount \in Nat /\ f.exCap \in Nat
      /\ f.locs \in SUBSET Int
  BY DEF Frame
<1>2. FlowEnd(f) \in Nat
  BY <1>1 DEF FlowEnd
<1> QED
  BY <1>1, <1>2

(* Leaving a frame *)

\* The arithmetic of SubSeq(s, 1, Len(s) - 1).
LEMMA FrontLength ==
  ASSUME NEW n \in Nat, n >= 1
  PROVE  /\ (IF 1 <= n - 1 THEN n - 1 - 1 + 1 ELSE 0) = n - 1
         /\ n - 1 - 1 + 1 = n - 1
         /\ \A i \in 1..(n - 1) : 1 + i - 1 = i
  OBVIOUS

\* What is left of a frame table when its last frame is gone.
LEMMA PoppedFrames ==
  ASSUME NEW fs \in Seq(Frame), fs # <<>>
  PROVE  /\ Len(fs) \in Nat /\ Len(fs) >= 1
         /\ Popped(fs) \in Seq(Frame)
         /\ Len(Popped(fs)) = Len(fs) - 1
         /\ \A i \in 1..(Len(fs) - 1) : Popped(fs)[i] = fs[i]
         /\ Popped(fs) = <<>> <=> Len(fs) = 1
<1>1. Len(fs) \in Nat /\ Len(fs) >= 1
  BY EmptySeq, LenProperties
<1>2. /\ Popped(fs) \in Seq(Frame)
      /\ Len(Popped(fs)) = Len(fs) - 1
      /\ \A i \in 1..(Len(fs) - 1) : Popped(fs)[i] = fs[i]
  <2>1. \A i \in 1..(Len(fs) - 1) : fs[i] \in Frame
    BY <1>1, ElementOfSeq
  <2>2. Len(fs) - 1 \in Int /\ 1 \in Int
    BY <1>1
  <2>3. /\ SubSeq(fs, 1, Len(fs) - 1) \in Seq(Frame)
        /\ Len(SubSeq(fs, 1, Len(fs) - 1)) = IF 1 <= Len(fs) - 1 THEN Len(fs) - 1 - 1 + 1 ELSE 0
        /\ \A i \in 1..(Len(fs) - 1 - 1 + 1) : SubSeq(fs, 1, Len(fs) - 1)[i] = fs[1 + i - 1]
    BY <2>1, <2>2, SubSeqProperties
  <2>5. Popped(fs) \in Seq(Frame) /\ Len(Popped(fs)) = Len(fs) - 1
    BY <1>1, <2>3, FrontLength DEF Popped
  <2>6. ASSUME NEW i \in 1..(Len(fs) - 1)
        PROVE  Popped(fs)[i] = fs[i]
    BY <1>1, <2>3, FrontLength DEF Popped
  <2> QED
    BY <2>5, <2>6
<1>3. Popped(fs) = <<>> <=> Len(fs) = 1
  BY <1>1, <1>2
<1> QED
  BY <1>1, <1>2, <1>3

\* LeaveFrame keeps the windows of the remaining frames ordered and below the
\* stack top it goes back to.
LEMMA PoppedStack ==
  ASSUME NEW fs \in Seq(Frame), fs # <<>>, NEW top \in Nat, StackLayout(fs, top)
  PROVE  StackLayout(Popped(fs), fs[Len(fs)].oldStackTop)
<1> DEFINE ps == Popped(fs)
<1>1. /\ Len(fs) \in Nat /\ Len(fs) >= 1 /\ Len(ps) = Len(fs) - 1
      /\ \A i \in 1..Len(ps) : ps[i] = fs[i] /\ i \in 1..Len(fs) /\ i < Len(fs)
      /\ Len(fs) \in 1..Len(fs)
      /\ ps = <<>> <=> Len(fs) = 1
  BY PoppedFrames
<1> HIDE DEF ps
<1>2. \A i \in 1..Len(ps) :
        /\ 0 <= ps[i].base
        /\ ps[i].base + ps[i].size <= fs[Len(fs)].oldStackTop
        /\ ps[i].oldStackTop <= fs[Len(fs)].oldStackTop
  BY <1>1 DEF StackLayout
<1>3. \A i, j \in 1..Len(ps) : i < j =>
        /\ ps[i].base + ps[i].size <= ps[j].oldStackTop
        /\ ps[i].oldStackTop <= ps[j].oldStackTop
  BY <1>1 DEF StackLayout
<1>4. /\ ps # <<>> => ps[1].oldStackTop = 0
      /\ ps = <<>> => fs[Len(fs)].oldStackTop = 0
  BY <1>1 DEF StackLayout
<1>5. StackLayout(ps, fs[Len(fs)].oldStackTop)
  BY <1>2, <1>3, <1>4 DEF StackLayout
<1> QED
  BY <1>5 DEF ps

\* LeaveFrame keeps the localloc blocks of the remaining frames ordered and
\* above the pool bottom it goes back to.
LEMMA PoppedPool ==
  ASSUME NEW fs \in Seq(Frame), fs # <<>>, NEW pool, PoolLayout(fs, pool)
  PROVE  PoolLayout(Popped(fs), fs[Len(fs)].oldPool)
<1> DEFINE ps == Popped(fs)
<1>1. /\ Len(fs) \in Nat /\ Len(fs) >= 1 /\ Len(ps) = Len(fs) - 1
      /\ \A i \in 1..Len(ps) : ps[i] = fs[i] /\ i \in 1..Len(fs) /\ i < Len(fs)
      /\ Len(fs) \in 1..Len(fs)
      /\ ps = <<>> <=> Len(fs) = 1
  BY PoppedFrames
<1>2. fs[Len(fs)] \in Frame
  BY <1>1, ElementOfSeq
<1> HIDE DEF ps
<1>3. \A i \in 1..Len(ps) :
        /\ fs[Len(fs)].oldPool <= ps[i].oldPool
        /\ ps[i].locs \subseteq fs[Len(fs)].oldPool .. (ps[i].oldPool - 1)
  BY <1>1 DEF PoolLayout
<1>4. \A i, j \in 1..Len(ps) : i < j =>
        /\ ps[j].oldPool <= ps[i].oldPool
        /\ ps[i].locs \subseteq ps[j].oldPool .. (ps[i].oldPool - 1)
  BY <1>1 DEF PoolLayout
<1>5. fs[Len(fs)].oldPool # -1
  <2>1. fs[Len(fs)].oldPool \in Nat
    BY <1>2 DEF Frame
  <2> QED
    BY <2>1
<1>6. ps # <<>> => ps[1].oldPool = StackSize
  BY <1>1 DEF PoolLayout
<1>7. ps = <<>> => fs[Len(fs)].oldPool \in {-1, StackSize}
  BY <1>1 DEF PoolLayout
<1>8. PoolLayout(ps, fs[Len(fs)].oldPool)
  BY <1>3, <1>4, <1>5, <1>6, <1>7 DEF PoolLayout
<1> QED
  BY <1>8 DEF ps

\* The flow top LeaveFrame goes back to is the one its frame was entered at.
LEMMA PoppedFlow ==
  ASSUME NEW fs \in Seq(Frame), fs # <<>>, NEW top \in Nat, FlowLayout(fs, top),
         NEW after,
         after = IF fs[Len(fs)].exBase # NoFlow THEN fs[Len(fs)].exBase ELSE top
  PROVE  after \in Nat /\ FlowLayout(Popped(fs), after)
<1> DEFINE ps == Popped(fs)
           last == fs[Len(fs)]
<1>1. /\ Len(fs) \in Nat /\ Len(fs) >= 1 /\ Len(ps) = Len(fs) - 1
      /\ \A i \in 1..Len(ps) : ps[i] = fs[i] /\ i \in 1..Len(fs) /\ i < Len(fs)
      /\ Len(fs) \in 1..Len(fs)
      /\ ps = <<>> <=> Len(fs) = 1
  BY PoppedFrames
<1>2. last \in Frame
  BY <1>1, ElementOfSeq
<1>3. /\ last.flowMark \in Nat /\ last.exCap \in Nat
      /\ last.exBase = NoFlow => last.exCap = 0
      /\ last.exBase # NoFlow => last.exBase = last.flowMark
      /\ last.flowMark + last.exCap = top /\ top <= FlowCap
  BY <1>1, <1>2 DEF FlowLayout, FlowEnd, Frame
<1> HIDE DEF ps
<1>4. after = last.flowMark
  BY <1>3
<1> HIDE DEF last
<1>5. after \in Nat /\ after <= FlowCap
  BY <1>3, <1>4, SizeAssumption
<1>6. \A i \in 1..Len(ps) :
        /\ ps[i].exCount <= ps[i].exCap
        /\ ps[i].exBase = NoFlow => ps[i].exCap = 0
        /\ ps[i].exBase # NoFlow => ps[i].exBase = ps[i].flowMark
        /\ FlowEnd(ps[i]) <= after
  BY <1>1, <1>4 DEF FlowLayout, last
<1>7. \A i \in 1..Len(ps) :
        FlowEnd(ps[i]) = IF i = Len(ps) THEN after ELSE ps[i + 1].flowMark
  BY <1>1, <1>4 DEF FlowLayout, last
<1>8. \A i, j \in 1..Len(ps) : i < j => FlowEnd(ps[i]) <= ps[j].flowMark
  BY <1>1 DEF FlowLayout
<1>9. /\ ps # <<>> => ps[1].flowMark = 0
      /\ ps = <<>> => after = 0
  BY <1>1, <1>4 DEF FlowLayout, last
<1>10. FlowLayout(ps, after)
  BY <1>5, <1>6, <1>7, <1>8, <1>9 DEF FlowLayout
<1> QED
  BY <1>5, <1>10 DEF ps

-----------------------------------------------------------------------------
(* Pushing a flow entry *)

\* PushExceptionFlowInfo changes one frame, and only its flow fields.
LEMMA PushedFrames ==
  ASSUME NEW fs \in Seq(Frame), NEW i \in 1..Len(fs), NEW top \in Nat
  PROVE  /\ Pushed(fs, i, top) \in Seq(Frame)
         /\ Len(Pushed(fs, i, top)) = Len(fs)
         /\ TopAfterPush(fs, i, top) \in Nat
         /\ \A k \in 1..Len(fs) : k # i => Pushed(fs, i, top)[k] = fs[k]
         /\ \E e \in Frame :
              /\ Pushed(fs, i, top)[i] = e
              /\ e.base = fs[i].base /\ e.size = fs[i].size
              /\ e.oldStackTop = fs[i].oldStackTop /\ e.oldPool = fs[i].oldPool
              /\ e.locs = fs[i].locs /\ e.flowMark = fs[i].flowMark
              /\ e.exCount = fs[i].exCount + 1
              /\ IF NeedsFlow(fs, i)
                 THEN /\ e.exBase = IF fs[i].exBase = NoFlow THEN top ELSE fs[i].exBase
                      /\ e.exCap = fs[i].exCap + 3
                 ELSE e.exBase = fs[i].exBase /\ e.exCap = fs[i].exCap
<1> DEFINE x == fs[i]
           e == IF NeedsFlow(fs, i)
                THEN [x EXCEPT !.exBase = IF @ = NoFlow THEN top ELSE @,
                               !.exCap = @ + 3, !.exCount = @ + 1]
                ELSE [x EXCEPT !.exCount = @ + 1]
<1>1. x \in Frame
  BY ElementOfSeq
<1>2. e \in Frame
  <2>1. x.exCount + 1 \in Nat /\ x.exCap + 3 \in Nat
    <3>1. x.exCount \in Nat /\ x.exCap \in Nat
      BY <1>1 DEF Frame
    <3> QED
      BY <3>1
  <2>2. (IF x.exBase = NoFlow THEN top ELSE x.exBase) \in Nat \cup {NoFlow}
    <3>1. x.exBase \in Nat \cup {NoFlow}
      BY <1>1 DEF Frame
    <3> QED
      BY <3>1
  <2>3. ASSUME NEW b \in Nat \cup {NoFlow}, NEW c \in Nat, NEW n \in Nat
        PROVE  [x EXCEPT !.exBase = b, !.exCap = c, !.exCount = n] \in Frame
    BY <1>1 DEF Frame
  <2>4. ASSUME NEW n \in Nat
        PROVE  [x EXCEPT !.exCount = n] \in Frame
    BY <1>1 DEF Frame
  <2> QED
    BY <2>1, <2>2, <2>3, <2>4
<1>3. /\ e.base = x.base /\ e.size = x.size
      /\ e.oldStackTop = x.oldStackTop /\ e.oldPool = x.oldPool
      /\ e.locs = x.locs /\ e.flowMark = x.flowMark
      /\ e.exCount = x.exCount + 1
      /\ IF NeedsFlow(fs, i)
         THEN /\ e.exBase = IF x.exBase = NoFlow THEN top ELSE x.exBase
              /\ e.exCap = x.exCap + 3
         ELSE e.exBase = x.exBase /\ e.exCap = x.exCap
  BY <1>1 DEF Frame
<1>4. Pushed(fs, i, top) = [fs EXCEPT ![i] = e]
  BY DEF Pushed, EXCEPTION_FLOW_INFO_ALLOC_BATCH_NUM
<1> HIDE DEF e
<1>5. /\ [fs EXCEPT ![i] = e] \in Seq(Frame)
      /\ Len([fs EXCEPT ![i] = e]) = Len(fs)
      /\ [fs EXCEPT ![i] = e][i] = e
      /\ \A k \in 1..Len(fs) : k # i => [fs EXCEPT ![i] = e][k] = fs[k]
  BY <1>2, ExceptSeq
<1>6. TopAfterPush(fs, i, top) \in Nat
  BY DEF TopAfterPush, EXCEPTION_FLOW_INFO_ALLOC_BATCH_NUM
<1> QED
  BY <1>2, <1>3, <1>4, <1>5, <1>6

\* A push leaves the stack windows alone.
LEMMA PushedStack ==
  ASSUME NEW fs \in Seq(Frame), NEW i \in 1..Len(fs), NEW top \in Nat,
         NEW st, StackLayout(fs, st)
  PROVE  StackLayout(Pushed(fs, i, top), st)
<1> DEFINE ps == Pushed(fs, i, top)
<1>1. /\ Len(ps) = Len(fs) /\ Len(fs) >= 1
      /\ \A k \in 1..Len(fs) :
           ps[k].base = fs[k].base /\ ps[k].size = fs[k].size
           /\ ps[k].oldStackTop = fs[k].oldStackTop
      /\ ps # <<>> /\ fs # <<>> /\ 1 \in 1..Len(fs)
  BY PushedFrames
<1> HIDE DEF ps
<1>2. StackLayout(ps, st)
  BY <1>1 DEF StackLayout
<1> QED
  BY <1>2 DEF ps

\* A push leaves the localloc blocks alone.
LEMMA PushedPool ==
  ASSUME NEW fs \in Seq(Frame), NEW i \in 1..Len(fs), NEW top \in Nat,
         NEW pool, PoolLayout(fs, pool)
  PROVE  PoolLayout(Pushed(fs, i, top), pool)
<1> DEFINE ps == Pushed(fs, i, top)
<1>1. /\ Len(ps) = Len(fs) /\ Len(fs) >= 1
      /\ \A k \in 1..Len(fs) : ps[k].oldPool = fs[k].oldPool /\ ps[k].locs = fs[k].locs
      /\ ps # <<>> /\ fs # <<>> /\ 1 \in 1..Len(fs)
  BY PushedFrames
<1> HIDE DEF ps
<1>2. PoolLayout(ps, pool)
  BY <1>1 DEF PoolLayout
<1> QED
  BY <1>2 DEF ps

\* The batch a frame is given continues the entries it has: only the last
\* frame of the table pushes, and those above it gave theirs back.
LEMMA PushedFlow ==
  ASSUME NEW fs \in Seq(Frame), fs # <<>>, NEW top \in Nat, FlowLayout(fs, top),
         NeedsFlow(fs, Len(fs)) => top + 3 < FlowCap
  PROVE  FlowLayout(Pushed(fs, Len(fs), top), TopAfterPush(fs, Len(fs), top))
<1> DEFINE n == Len(fs)
           ps == Pushed(fs, n, top)
           new == TopAfterPush(fs, n, top)
<1>1. n \in Nat /\ n >= 1 /\ n \in 1..n /\ 1 \in 1..n
  BY EmptySeq, LenProperties
<1>2. /\ Len(ps) = n
      /\ \A k \in 1..n : k # n => ps[k] = fs[k]
      /\ \A k \in 1..n : ps[k].flowMark = fs[k].flowMark
      /\ ps[n].exCount = fs[n].exCount + 1
      /\ IF NeedsFlow(fs, n)
         THEN /\ ps[n].exBase = IF fs[n].exBase = NoFlow THEN top ELSE fs[n].exBase
              /\ ps[n].exCap = fs[n].exCap + 3
         ELSE ps[n].exBase = fs[n].exBase /\ ps[n].exCap = fs[n].exCap
      /\ ps # <<>>
  BY <1>1, PushedFrames
<1>3. new = IF NeedsFlow(fs, n) THEN top + 3 ELSE top
  BY DEF TopAfterPush, EXCEPTION_FLOW_INFO_ALLOC_BATCH_NUM
<1>4. /\ fs[n].exCount \in Nat /\ fs[n].exCap \in Nat /\ fs[n].flowMark \in Nat
      /\ fs[n].exBase \in Nat \cup {NoFlow}
  BY <1>1, ElementOfSeq, FrameFields
<1>5. /\ fs[n].exCount <= fs[n].exCap
      /\ fs[n].exBase = NoFlow => fs[n].exCap = 0
      /\ fs[n].exBase # NoFlow => fs[n].exBase = fs[n].flowMark
      /\ fs[n].flowMark + fs[n].exCap = top /\ top <= FlowCap
  BY <1>1 DEF FlowLayout, FlowEnd
<1>6. NeedsFlow(fs, n) <=> fs[n].exCount >= fs[n].exCap
  BY DEF NeedsFlow
<1>7. \A k \in 1..n : k # n =>
        /\ k < n /\ k + 1 \in 1..n
        /\ fs[k].exCount <= fs[k].exCap
        /\ fs[k].exBase = NoFlow => fs[k].exCap = 0
        /\ fs[k].exBase # NoFlow => fs[k].exBase = fs[k].flowMark
        /\ FlowEnd(fs[k]) <= fs[n].flowMark
        /\ FlowEnd(fs[k]) = fs[k + 1].flowMark
  BY <1>1 DEF FlowLayout
<1>8. \A k \in 1..n : k # n => FlowEnd(fs[k]) \in Nat
  BY ElementOfSeq, FrameFields
<1> HIDE DEF ps, new, n
<1>9. /\ ps[n].exCount <= ps[n].exCap
      /\ ps[n].exBase = NoFlow => ps[n].exCap = 0
      /\ ps[n].exBase # NoFlow => ps[n].exBase = ps[n].flowMark
      /\ FlowEnd(ps[n]) = new /\ new <= FlowCap /\ fs[n].flowMark <= new
      /\ new \in Nat
  BY <1>1, <1>2, <1>3, <1>4, <1>5, <1>6, SizeAssumption DEF FlowEnd, n
<1>10. \A k \in 1..n :
        /\ ps[k].exCount <= ps[k].exCap
        /\ ps[k].exBase = NoFlow => ps[k].exCap = 0
        /\ ps[k].exBase # NoFlow => ps[k].exBase = ps[k].flowMark
  BY <1>2, <1>7, <1>9
<1>11. \A k \in 1..n :
        FlowEnd(ps[k]) = IF k = n THEN new ELSE ps[k + 1].flowMark
  BY <1>2, <1>7, <1>9
<1>12. \A k \in 1..n : FlowEnd(ps[k]) <= new
  BY <1>2, <1>4, <1>7, <1>8, <1>9
<1>13. \A j, k \in 1..n : j < k => FlowEnd(ps[j]) <= ps[k].flowMark
  <2> TAKE j, k \in 1..n
  <2> HAVE j < k
  <2>1. j # n /\ j < k
    BY <1>1
  <2>2. FlowEnd(fs[j]) <= fs[k].flowMark
    BY <2>1 DEF FlowLayout, n
  <2> QED
    BY <1>2, <2>1, <2>2
<1>14. ps[1].flowMark = 0
  BY <1>1, <1>2 DEF FlowLayout, n
<1>15. FlowLayout(ps, new)
  BY <1>2, <1>9, <1>10, <1>11, <1>12, <1>13, <1>14 DEF FlowLayout
<1> QED
  BY <1>15 DEF ps, new, n

-----------------------------------------------------------------------------
(* Entering a frame *)

\* A frame table with one more frame is well-typed, and its old frames are in place.
LEMMA AppendedFrames ==
  ASSUME NEW fs \in Seq(Frame), NEW f \in Frame
  PROVE  /\ Append(fs, f) \in Seq(Frame)
         /\ Len(fs) \in Nat
         /\ Len(Append(fs, f)) = Len(fs) + 1
         /\ Append(fs, f) # <<>>
         /\ \A k \in 1..(Len(fs) + 1) : (k \in 1..Len(fs) /\ k < Len(fs) + 1) \/ k = Len(fs) + 1
         /\ \A k \in 1..Len(fs) : Append(fs, f)[k] = fs[k]
         /\ Append(fs, f)[Len(fs) + 1] = f
         /\ Len(fs) = 0 => Append(fs, f)[1] = f
         /\ \A k \in 1..Len(fs) : k + 1 # Len(fs) + 1 => k + 1 \in 1..Len(fs)
         /\ \A k \in 1..Len(fs) : fs[k] \in Frame
         /\ fs = <<>> <=> Len(fs) = 0
<1>1. Len(fs) \in Nat
  BY LenProperties
<1>2. \A k \in 1..(Len(fs) + 1) : (k \in 1..Len(fs) /\ k < Len(fs) + 1) \/ k = Len(fs) + 1
  BY <1>1
<1>3. fs = <<>> <=> Len(fs) = 0
  BY EmptySeq, LenProperties
<1>4. \A k \in 1..Len(fs) : k + 1 # Len(fs) + 1 => k + 1 \in 1..Len(fs)
  BY <1>1
<1>5. Len(fs) = 0 => Len(fs) + 1 = 1
  OBVIOUS
<1> QED
  BY <1>1, <1>2, <1>3, <1>4, <1>5, AppendProperties, ElementOfSeq

\* Raising the stack top keeps every window below it (the slots a call took
\* before the frame table turned out to be full).
LEMMA RaisedStack ==
  ASSUME NEW fs \in Seq(Frame), fs # <<>>, NEW st \in Nat, NEW new \in Nat, st <= new,
         StackLayout(fs, st)
  PROVE  StackLayout(fs, new)
<1>1. \A i \in 1..Len(fs) : fs[i].base + fs[i].size \in Int /\ fs[i].oldStackTop \in Int
  BY ElementOfSeq, FrameFields
<1>2. \A i \in 1..Len(fs) :
        /\ 0 <= fs[i].base /\ fs[i].base + fs[i].size <= new /\ fs[i].oldStackTop <= new
  BY <1>1 DEF StackLayout
<1> QED
  BY <1>2 DEF StackLayout

\* AllocStackSlot: the new window starts at the top and lies above all others.
LEMMA AppendedStack ==
  ASSUME NEW fs \in Seq(Frame), NEW f \in Frame, NEW st \in Nat, NEW new \in Nat,
         st <= new, StackLayout(fs, st),
         f.oldStackTop = st, 0 <= f.base, f.base + f.size <= new
  PROVE  StackLayout(Append(fs, f), new)
<1> DEFINE as == Append(fs, f)
           n == Len(fs)
<1>1. \A i \in 1..n :
        /\ 0 <= fs[i].base /\ fs[i].base + fs[i].size <= new /\ fs[i].oldStackTop <= new
  BY RaisedStack DEF StackLayout
<1>2. /\ n \in Nat /\ Len(as) = n + 1 /\ as # <<>>
      /\ \A k \in 1..(n + 1) : (k \in 1..n /\ k < n + 1) \/ k = n + 1
      /\ \A k \in 1..n : as[k] = fs[k]
      /\ as[n + 1] = f
      /\ n = 0 => as[1] = f
      /\ \A k \in 1..n : k + 1 # n + 1 => k + 1 \in 1..n
      /\ fs = <<>> <=> n = 0
  BY AppendedFrames
<1> HIDE DEF as, n
<1>3. \A i \in 1..(n + 1) :
        /\ 0 <= as[i].base /\ as[i].base + as[i].size <= new /\ as[i].oldStackTop <= new
  <2> TAKE i \in 1..(n + 1)
  <2>1. CASE i \in 1..n
    BY <1>1, <1>2, <2>1
  <2>2. CASE i = n + 1
    BY <1>2, <2>2
  <2> QED
    BY <1>2, <2>1, <2>2
<1>4. \A i, j \in 1..(n + 1) : i < j =>
        /\ as[i].base + as[i].size <= as[j].oldStackTop
        /\ as[i].oldStackTop <= as[j].oldStackTop
  <2> TAKE i, j \in 1..(n + 1)
  <2> HAVE i < j
  <2>1. i \in 1..n
    BY <1>2
  <2>2. CASE j \in 1..n
    BY <1>2, <2>1, <2>2 DEF StackLayout, n
  <2>3. CASE j = n + 1
    BY <1>2, <2>1, <2>3 DEF StackLayout, n
  <2> QED
    BY <1>2, <2>2, <2>3
<1>5. as[1].oldStackTop = 0
  <2>1. CASE n = 0
    <3>1. as[1] = f /\ fs = <<>>
      BY <1>2, <2>1
    <3> QED
      BY <3>1 DEF StackLayout
  <2>2. CASE n # 0
    <3>1. 1 \in 1..n /\ fs # <<>>
      BY <1>2, <2>2
    <3> QED
      BY <1>2, <3>1 DEF StackLayout
  <2> QED
    BY <2>1, <2>2
<1>6. StackLayout(as, new)
  BY <1>2, <1>3, <1>4, <1>5 DEF StackLayout
<1> QED
  BY <1>6 DEF as

\* InitEvalStack on the first call of a thread hands out no pool slot.
LEMMA ReadiedPool ==
  ASSUME NEW fs \in Seq(Frame), NEW pool, PoolLayout(fs, pool), NEW rp,
         rp = IF pool = -1 THEN StackSize ELSE pool
  PROVE  PoolLayout(fs, rp)
<1>1. CASE pool = -1
  BY <1>1 DEF PoolLayout
<1>2. CASE pool # -1
  BY <1>2
<1> QED
  BY <1>1, <1>2

\* A new frame starts with an empty block at the bottom of the pool.
LEMMA AppendedPool ==
  ASSUME NEW fs \in Seq(Frame), NEW f \in Frame, NEW rp \in Nat, PoolLayout(fs, rp),
         f.oldPool = rp, f.locs = {}
  PROVE  PoolLayout(Append(fs, f), rp)
<1> DEFINE as == Append(fs, f)
           n == Len(fs)
<1>1. \A i \in 1..n :
        /\ rp <= fs[i].oldPool
        /\ fs[i].locs \subseteq rp .. (fs[i].oldPool - 1)
  BY DEF PoolLayout
<1>2. /\ n \in Nat /\ Len(as) = n + 1 /\ as # <<>>
      /\ \A k \in 1..(n + 1) : (k \in 1..n /\ k < n + 1) \/ k = n + 1
      /\ \A k \in 1..n : as[k] = fs[k]
      /\ as[n + 1] = f
      /\ n = 0 => as[1] = f
      /\ \A k \in 1..n : k + 1 # n + 1 => k + 1 \in 1..n
      /\ fs = <<>> <=> n = 0
  BY AppendedFrames
<1> HIDE DEF as, n
<1>3. \A i \in 1..(n + 1) :
        /\ rp <= as[i].oldPool
        /\ as[i].locs \subseteq rp .. (as[i].oldPool - 1)
  <2> TAKE i \in 1..(n + 1)
  <2>1. CASE i \in 1..n
    BY <1>1, <1>2, <2>1
  <2>2. CASE i = n + 1
    <3>1. as[i] = f
      BY <1>2, <2>2
    <3>2. rp <= f.oldPool /\ f.locs \subseteq rp .. (f.oldPool - 1)
      OBVIOUS
    <3> QED
      BY <3>1, <3>2
  <2> QED
    BY <1>2, <2>1, <2>2
<1>4. \A i, j \in 1..(n + 1) : i < j =>
        /\ as[j].oldPool <= as[i].oldPool
        /\ as[i].locs \subseteq as[j].oldPool .. (as[i].oldPool - 1)
  <2> TAKE i, j \in 1..(n + 1)
  <2> HAVE i < j
  <2>1. i \in 1..n
    BY <1>2
  <2>2. CASE j \in 1..n
    BY <1>2, <2>1, <2>2 DEF PoolLayout, n
  <2>3. CASE j = n + 1
    BY <1>2, <2>1, <2>3 DEF PoolLayout, n
  <2> QED
    BY <1>2, <2>2, <2>3
<1>5. as[1].oldPool = StackSize
  <2>1. CASE n = 0
    <3>1. as[1] = f /\ fs = <<>>
      BY <1>2, <2>1
    <3> QED
      BY <3>1 DEF PoolLayout
  <2>2. CASE n # 0
    <3>1. 1 \in 1..n /\ fs # <<>>
      BY <1>2, <2>2
    <3> QED
      BY <1>2, <3>1 DEF PoolLayout
  <2> QED
    BY <2>1, <2>2
<1>6. rp # -1
  OBVIOUS
<1>7. PoolLayout(as, rp)
  BY <1>2, <1>3, <1>4, <1>5, <1>6 DEF PoolLayout
<1> QED
  BY <1>7 DEF as

\* A new frame starts without flow entries, at the flow top.
LEMMA AppendedFlow ==
  ASSUME NEW fs \in Seq(Frame), NEW f \in Frame, NEW top \in Nat, FlowLayout(fs, top),
         f.exBase = NoFlow, f.exCap = 0, f.exCount = 0, f.flowMark = top
  PROVE  FlowLayout(Append(fs, f), top)
<1> DEFINE as == Append(fs, f)
           n == Len(fs)
<1>2. /\ n \in Nat /\ Len(as) = n + 1 /\ as # <<>>
      /\ \A k \in 1..(n + 1) : (k \in 1..n /\ k < n + 1) \/ k = n + 1
      /\ \A k \in 1..n : as[k] = fs[k]
      /\ as[n + 1] = f
      /\ n = 0 => as[1] = f
      /\ \A k \in 1..n : k + 1 # n + 1 => k + 1 \in 1..n
      /\ fs = <<>> <=> n = 0
  BY AppendedFrames
<1>1. FlowEnd(f) = top
  BY DEF FlowEnd
<1>0. \A i \in 1..n :
        /\ fs[i].exCount <= fs[i].exCap
        /\ fs[i].exBase = NoFlow => fs[i].exCap = 0
        /\ fs[i].exBase # NoFlow => fs[i].exBase = fs[i].flowMark
        /\ FlowEnd(fs[i]) <= top
        /\ FlowEnd(fs[i]) = IF i = n THEN top ELSE fs[i + 1].flowMark
  BY DEF FlowLayout
<1> HIDE DEF as, n
<1>3. \A i \in 1..(n + 1) :
        /\ as[i].exCount <= as[i].exCap
        /\ as[i].exBase = NoFlow => as[i].exCap = 0
        /\ as[i].exBase # NoFlow => as[i].exBase = as[i].flowMark
        /\ FlowEnd(as[i]) <= top
  <2> TAKE i \in 1..(n + 1)
  <2>1. CASE i \in 1..n
    BY <1>0, <1>2, <2>1
  <2>2. CASE i = n + 1
    <3>1. as[i] = f
      BY <1>2, <2>2
    <3>2. f.exCount <= f.exCap /\ FlowEnd(f) <= top
      BY <1>1
    <3> QED
      BY <3>1, <3>2
  <2> QED
    BY <1>2, <2>1, <2>2
<1>4. \A i \in 1..(n + 1) :
        FlowEnd(as[i]) = IF i = n + 1 THEN top ELSE as[i + 1].flowMark
  <2> TAKE i \in 1..(n + 1)
  <2>1. CASE i = n + 1
    BY <1>1, <1>2, <2>1
  <2>2. CASE i = n /\ i \in 1..n
    <3>1. FlowEnd(fs[i]) = top
      BY <1>0, <2>2
    <3>2. as[i + 1] = f /\ as[i] = fs[i]
      BY <1>2, <2>2
    <3>3. i # n + 1
      BY <1>2, <2>2
    <3>4. FlowEnd(as[i]) = top
      BY <3>1, <3>2
    <3>5. as[i + 1].flowMark = top
      BY <3>2
    <3> QED
      BY <3>3, <3>4, <3>5
  <2>3. CASE i # n /\ i \in 1..n
    <3>1. i + 1 \in 1..n /\ i # n + 1
      BY <1>2, <2>3
    <3>2. FlowEnd(fs[i]) = fs[i + 1].flowMark
      BY <1>0, <2>3
    <3>3. as[i] = fs[i] /\ as[i + 1] = fs[i + 1]
      BY <1>2, <2>3, <3>1
    <3> QED
      BY <3>1, <3>2, <3>3
  <2> QED
    BY <1>2, <2>1, <2>2, <2>3
<1>5. \A i, j \in 1..(n + 1) : i < j => FlowEnd(as[i]) <= as[j].flowMark
  <2> TAKE i, j \in 1..(n + 1)
  <2> HAVE i < j
  <2>1. i \in 1..n
    BY <1>2
  <2>2. CASE j \in 1..n
    BY <1>2, <2>1, <2>2 DEF FlowLayout, n
  <2>3. CASE j = n + 1
    BY <1>2, <2>1, <2>3 DEF FlowLayout, n
  <2> QED
    BY <1>2, <2>2, <2>3
<1>6. as[1].flowMark = 0
  <2>1. CASE n = 0
    <3>1. as[1] = f /\ fs = <<>>
      BY <1>2, <2>1
    <3> QED
      BY <3>1 DEF FlowLayout
  <2>2. CASE n # 0
    <3>1. 1 \in 1..n /\ fs # <<>>
      BY <1>2, <2>2
    <3> QED
      BY <1>2, <3>1 DEF FlowLayout
  <2> QED
    BY <2>1, <2>2
<1>7. FlowLayout(as, top)
  BY <1>2, <1>3, <1>4, <1>5, <1>6 DEF FlowLayout
<1> QED
  BY <1>7 DEF as

-----------------------------------------------------------------------------
(* Touching one frame: localloc, and giving one flow entry back *)

\* Changing one frame keeps the table well-typed and the other frames in place.
LEMMA ReplacedFrames ==
  ASSUME NEW fs \in Seq(Frame), NEW i \in 1..Len(fs), NEW e \in Frame
  PROVE  /\ [fs EXCEPT ![i] = e] \in Seq(Frame)
         /\ Len([fs EXCEPT ![i] = e]) = Len(fs)
         /\ [fs EXCEPT ![i] = e] # <<>> /\ fs # <<>>
         /\ [fs EXCEPT ![i] = e][i] = e
         /\ \A k \in 1..Len(fs) : k # i => [fs EXCEPT ![i] = e][k] = fs[k]
         /\ 1 \in 1..Len(fs) /\ Len(fs) \in Nat
  BY ExceptSeq, LenProperties, EmptySeq

\* A frame that has allocated localloc memory is a frame.
LEMMA LocallocFrame ==
  ASSUME NEW x \in Frame, NEW L \in SUBSET Int
  PROVE  LET e == [x EXCEPT !.locs = @ \cup L]
         IN  /\ e \in Frame
             /\ e.locs = x.locs \cup L
             /\ e.base = x.base /\ e.size = x.size
             /\ e.oldStackTop = x.oldStackTop /\ e.oldPool = x.oldPool
             /\ e.flowMark = x.flowMark /\ e.exBase = x.exBase
             /\ e.exCount = x.exCount /\ e.exCap = x.exCap
  BY DEF Frame

\* Giving one flow entry back keeps the table well-typed, and changes no more.
LEMMA PoppedFlowFrames ==
  ASSUME NEW fs \in Seq(Frame), NEW i \in 1..Len(fs), fs[i].exCount > 0
  PROVE  \E e \in Frame :
           /\ [fs EXCEPT ![i].exCount = @ - 1] = [fs EXCEPT ![i] = e]
           /\ e.exCount = fs[i].exCount - 1
           /\ e.base = fs[i].base /\ e.size = fs[i].size
           /\ e.oldStackTop = fs[i].oldStackTop /\ e.oldPool = fs[i].oldPool
           /\ e.flowMark = fs[i].flowMark /\ e.exBase = fs[i].exBase
           /\ e.locs = fs[i].locs /\ e.exCap = fs[i].exCap
<1> DEFINE x == fs[i]
           e == [x EXCEPT !.exCount = @ - 1]
<1>1. x \in Frame
  BY ElementOfSeq
<1>2. x.exCount - 1 \in Nat
  BY <1>1, FrameFields
<1>3. e \in Frame
  BY <1>1, <1>2 DEF Frame
<1>4. /\ e.exCount = x.exCount - 1
      /\ e.base = x.base /\ e.size = x.size
      /\ e.oldStackTop = x.oldStackTop /\ e.oldPool = x.oldPool
      /\ e.flowMark = x.flowMark /\ e.exBase = x.exBase
      /\ e.locs = x.locs /\ e.exCap = x.exCap
  BY <1>1 DEF Frame
<1>5. [fs EXCEPT ![i].exCount = @ - 1] = [fs EXCEPT ![i] = e]
  OBVIOUS
<1> QED
  BY <1>3, <1>4, <1>5

\* A changed frame with the same window keeps the stack layout.
LEMMA ReplacedStack ==
  ASSUME NEW fs \in Seq(Frame), NEW i \in 1..Len(fs), NEW e \in Frame, NEW st,
         StackLayout(fs, st),
         e.base = fs[i].base, e.size = fs[i].size, e.oldStackTop = fs[i].oldStackTop
  PROVE  StackLayout([fs EXCEPT ![i] = e], st)
<1> DEFINE ps == [fs EXCEPT ![i] = e]
<1>1. /\ Len(ps) = Len(fs) /\ ps # <<>> /\ fs # <<>> /\ 1 \in 1..Len(fs)
      /\ \A k \in 1..Len(fs) :
           ps[k].base = fs[k].base /\ ps[k].size = fs[k].size
           /\ ps[k].oldStackTop = fs[k].oldStackTop
  BY ReplacedFrames
<1> HIDE DEF ps
<1>2. StackLayout(ps, st)
  BY <1>1 DEF StackLayout
<1> QED
  BY <1>2 DEF ps

\* A changed frame with the same block keeps the pool layout.
LEMMA ReplacedPool ==
  ASSUME NEW fs \in Seq(Frame), NEW i \in 1..Len(fs), NEW e \in Frame, NEW pool,
         PoolLayout(fs, pool), e.oldPool = fs[i].oldPool, e.locs = fs[i].locs
  PROVE  PoolLayout([fs EXCEPT ![i] = e], pool)
<1> DEFINE ps == [fs EXCEPT ![i] = e]
<1>1. /\ Len(ps) = Len(fs) /\ ps # <<>> /\ fs # <<>> /\ 1 \in 1..Len(fs)
      /\ \A k \in 1..Len(fs) : ps[k].oldPool = fs[k].oldPool /\ ps[k].locs = fs[k].locs
  BY ReplacedFrames
<1> HIDE DEF ps
<1>2. PoolLayout(ps, pool)
  BY <1>1 DEF PoolLayout
<1> QED
  BY <1>2 DEF ps

\* A frame that uses fewer entries of its region keeps the flow layout.
LEMMA ReplacedFlow ==
  ASSUME NEW fs \in Seq(Frame), NEW i \in 1..Len(fs), NEW e \in Frame, NEW top,
         FlowLayout(fs, top),
         e.flowMark = fs[i].flowMark, e.exBase = fs[i].exBase, e.exCap = fs[i].exCap,
         e.exCount <= fs[i].exCount
  PROVE  FlowLayout([fs EXCEPT ![i] = e], top)
<1> DEFINE ps == [fs EXCEPT ![i] = e]
<1>1. /\ Len(ps) = Len(fs) /\ ps # <<>> /\ fs # <<>> /\ 1 \in 1..Len(fs)
      /\ \A k \in 1..Len(fs) :
           /\ ps[k].flowMark = fs[k].flowMark /\ ps[k].exBase = fs[k].exBase
           /\ ps[k].exCap = fs[k].exCap
           /\ k # i => ps[k].exCount = fs[k].exCount
      /\ ps[i].exCount = e.exCount
  BY ReplacedFrames
<1>2. fs[i].exCount \in Nat /\ fs[i].exCap \in Nat /\ e.exCount \in Nat
  BY ElementOfSeq, FrameFields
<1>3. e.exCount <= fs[i].exCap
  BY <1>2 DEF FlowLayout
<1>4. \A k \in 1..Len(fs) : FlowEnd(ps[k]) = FlowEnd(fs[k])
  BY <1>1 DEF FlowEnd
<1>5. \A k \in 1..Len(fs) :
         ps[k].exCount <= ps[k].exCap
  BY <1>1, <1>3 DEF FlowLayout
<1>6. \A k \in 1..Len(fs) : k # Len(fs) => k + 1 \in 1..Len(fs)
  BY LenProperties
<1> HIDE DEF ps
<1>7. FlowLayout(ps, top)
  BY <1>1, <1>4, <1>5, <1>6 DEF FlowLayout
<1> QED
  BY <1>7 DEF ps

\* The new block lies below everything the pool handed out before.
LEMMA LocallocPool ==
  ASSUME NEW fs \in Seq(Frame), fs # <<>>, NEW e \in Frame,
         NEW pool \in Nat, NEW new \in Nat, new <= pool,
         PoolLayout(fs, pool),
         e.oldPool = fs[Len(fs)].oldPool,
         e.locs = fs[Len(fs)].locs \cup new..(pool - 1)
  PROVE  PoolLayout([fs EXCEPT ![Len(fs)] = e], new)
<1> DEFINE ps == [fs EXCEPT ![Len(fs)] = e]
           n == Len(fs)
<1>1. n \in Nat /\ n \in 1..n
  BY EmptySeq, LenProperties
<1>2. /\ Len(ps) = n /\ ps # <<>> /\ fs # <<>> /\ 1 \in 1..n
      /\ \A k \in 1..n : k # n => ps[k] = fs[k] /\ k < n
      /\ \A k \in 1..n : ps[k].oldPool = fs[k].oldPool
      /\ ps[n] = e
  BY <1>1, ReplacedFrames
<1>3. \A k \in 1..n : fs[k].oldPool \in Nat
  BY ElementOfSeq, FrameFields
<1>4. \A k \in 1..n :
        /\ pool <= fs[k].oldPool
        /\ fs[k].locs \subseteq pool .. (fs[k].oldPool - 1)
  BY DEF PoolLayout
<1>5. \A i, j \in 1..n : i < j =>
        /\ fs[j].oldPool <= fs[i].oldPool
        /\ fs[i].locs \subseteq fs[j].oldPool .. (fs[i].oldPool - 1)
  BY DEF PoolLayout
<1>6. fs[1].oldPool = StackSize
  BY DEF PoolLayout
<1> HIDE DEF ps, n
<1>7. \A k \in 1..n : new <= ps[k].oldPool
  BY <1>2, <1>3, <1>4
<1>8. \A k \in 1..n : ps[k].locs \subseteq new .. (ps[k].oldPool - 1)
  <2> TAKE k \in 1..n
  <2>1. pool .. (fs[k].oldPool - 1) \subseteq new .. (fs[k].oldPool - 1)
    BY <1>3
  <2>2. CASE k # n
    BY <1>2, <1>4, <2>1, <2>2
  <2>3. CASE k = n
    <3>1. new..(pool - 1) \subseteq new .. (fs[k].oldPool - 1)
      BY <1>3, <1>4
    <3>2. ps[k].locs = fs[k].locs \cup new..(pool - 1) /\ ps[k].oldPool = fs[k].oldPool
      BY <1>2, <2>3 DEF n
    <3> QED
      BY <1>4, <2>1, <3>1, <3>2
  <2> QED
    BY <2>2, <2>3
<1>9. \A i, j \in 1..n : i < j =>
        /\ ps[j].oldPool <= ps[i].oldPool
        /\ ps[i].locs \subseteq ps[j].oldPool .. (ps[i].oldPool - 1)
  <2> TAKE i, j \in 1..n
  <2> HAVE i < j
  <2>1. i # n
    BY <1>1
  <2> QED
    BY <1>2, <1>5, <2>1
<1>10. new # -1
  OBVIOUS
<1>11. PoolLayout(ps, new)
  BY <1>2, <1>6, <1>7, <1>8, <1>9, <1>10 DEF PoolLayout
<1> QED
  BY <1>11 DEF ps, n

-----------------------------------------------------------------------------
(* The activations *)

\* The type of every field of an activation.
LEMMA GroupFields ==
  ASSUME NEW g \in Group
  PROVE  g.frameBase \in Nat /\ g.cur \in Nat
  BY DEF Group

\* The innermost activation is well-typed and its frames are the last ones.
LEMMA TopGroupFacts ==
  ASSUME NEW gs \in Seq(Group), gs # <<>>, NEW n \in Nat, GroupsNest(gs, n)
  PROVE  /\ Len(gs) \in Nat /\ Len(gs) >= 1 /\ Len(gs) \in 1..Len(gs) /\ 1 \in 1..Len(gs)
         /\ gs[Len(gs)] \in Group
         /\ gs[Len(gs)].frameBase \in Nat /\ gs[Len(gs)].cur \in Nat
         /\ gs[Len(gs)].frameBase < gs[Len(gs)].cur /\ gs[Len(gs)].cur <= n
         /\ gs[Len(gs)].cur \in 1..n
<1>1. Len(gs) \in Nat /\ Len(gs) >= 1 /\ Len(gs) \in 1..Len(gs) /\ 1 \in 1..Len(gs)
  BY EmptySeq, LenProperties
<1>2. gs[Len(gs)] \in Group
  BY <1>1, ElementOfSeq
<1>3. gs[Len(gs)].frameBase \in Nat /\ gs[Len(gs)].cur \in Nat
  BY <1>2 DEF Group
<1>4. gs[Len(gs)].frameBase < gs[Len(gs)].cur /\ gs[Len(gs)].cur <= n
  BY <1>1 DEF GroupsNest
<1>5. gs[Len(gs)].cur \in 1..n
  BY <1>3, <1>4
<1> QED
  BY <1>1, <1>2, <1>3, <1>4, <1>5

\* The innermost activation moves to frame k, now the last one.
LEMMA GroupsMove ==
  ASSUME NEW gs \in Seq(Group), gs # <<>>, NEW n \in Nat, GroupsNest(gs, n),
         NEW k \in Nat, gs[Len(gs)].frameBase < k
  PROVE  /\ [gs EXCEPT ![Len(gs)].cur = k] \in Seq(Group)
         /\ GroupsNest([gs EXCEPT ![Len(gs)].cur = k], k)
         /\ [gs EXCEPT ![Len(gs)].cur = k] # <<>>
         /\ GroupsCover(gs, n) => GroupsCover([gs EXCEPT ![Len(gs)].cur = k], k)
<1> DEFINE m == Len(gs)
           e == [gs[m] EXCEPT !.cur = k]
           hs == [gs EXCEPT ![m] = e]
<1>1. /\ m \in Nat /\ m >= 1 /\ m \in 1..m /\ 1 \in 1..m
      /\ gs[m] \in Group /\ gs[m].frameBase \in Nat /\ gs[m].frameBase < k
  BY TopGroupFacts
<1>2. e \in Group /\ e.cur = k /\ e.frameBase = gs[m].frameBase
  BY <1>1 DEF Group
<1>3. [gs EXCEPT ![m].cur = k] = hs
  OBVIOUS
<1>4. /\ hs \in Seq(Group) /\ Len(hs) = m
      /\ \A g \in 1..m : g # m => hs[g] = gs[g]
      /\ hs[m] = e
      /\ \A g \in 1..m : hs[g].frameBase = gs[g].frameBase
  BY <1>1, <1>2, ExceptSeq
<1>5. \A g \in 1..m : g # m => g < m /\ g + 1 \in 1..m
  BY <1>1
<1>6. \A g \in 1..m : gs[g].frameBase \in Nat /\ gs[g].cur \in Nat
  BY ElementOfSeq, GroupFields
<1>7. \A g \in 1..m : g # m => gs[g].cur <= gs[m].frameBase /\ gs[g].frameBase < gs[g].cur
  BY <1>1, <1>5 DEF GroupsNest
<1>8. \A g, h \in 1..m : g < h => gs[g].cur <= gs[h].frameBase
  BY DEF GroupsNest
<1> HIDE DEF hs, e, m
<1>9. \A g \in 1..m : hs[g].frameBase < hs[g].cur /\ hs[g].cur <= k
  <2> TAKE g \in 1..m
  <2>1. CASE g = m
    BY <1>1, <1>2, <1>4, <2>1
  <2>2. CASE g # m
    BY <1>1, <1>4, <1>6, <1>7, <2>2
  <2> QED
    BY <2>1, <2>2
<1>10. \A g, h \in 1..m : g < h => hs[g].cur <= hs[h].frameBase
  <2> TAKE g, h \in 1..m
  <2> HAVE g < h
  <2>1. g # m
    BY <1>1
  <2> QED
    BY <1>4, <1>8, <2>1
<1>11. GroupsNest(hs, k)
  BY <1>4, <1>9, <1>10 DEF GroupsNest
<1>12. hs # <<>>
  BY <1>1, <1>4
<1>13. ASSUME GroupsCover(gs, n)
       PROVE  GroupsCover(hs, k)
  <2>1. hs[1].frameBase = 0
    BY <1>1, <1>4, <1>13 DEF GroupsCover
  <2>2. \A g \in 1..m : g # m => gs[g].cur = gs[g + 1].frameBase
    BY <1>13 DEF GroupsCover, m
  <2>3. \A g \in 1..m : g # m => hs[g].cur = hs[g + 1].frameBase
    BY <1>4, <1>5, <2>2
  <2>4. hs[m].cur = k
    BY <1>2, <1>4
  <2> QED
    BY <1>4, <1>12, <2>1, <2>3, <2>4 DEF GroupsCover
<1> QED
  BY <1>3, <1>4, <1>11, <1>12, <1>13 DEF m

\* The innermost activation ends; k frames are left.
LEMMA GroupsEnd ==
  ASSUME NEW gs \in Seq(Group), gs # <<>>, NEW n \in Nat, GroupsNest(gs, n),
         NEW k \in Nat, gs[Len(gs)].frameBase <= k
  PROVE  /\ Popped(gs) \in Seq(Group)
         /\ GroupsNest(Popped(gs), k)
         /\ GroupsCover(gs, n) /\ k = gs[Len(gs)].frameBase => GroupsCover(Popped(gs), k)
<1> DEFINE m == Len(gs)
           hs == Popped(gs)
<1>1. /\ m \in Nat /\ m >= 1 /\ m \in 1..m /\ 1 \in 1..m
      /\ gs[m] \in Group /\ gs[m].frameBase \in Nat
  BY TopGroupFacts
<1>2. hs \in Seq(Group) /\ Len(hs) = m - 1 /\ (\A g \in 1..(m - 1) : hs[g] = gs[g])
  <2>1. \A g \in 1..(m - 1) : gs[g] \in Group
    BY <1>1, ElementOfSeq
  <2>2. m - 1 \in Int /\ 1 \in Int
    BY <1>1
  <2>3. /\ SubSeq(gs, 1, m - 1) \in Seq(Group)
        /\ Len(SubSeq(gs, 1, m - 1)) = IF 1 <= m - 1 THEN m - 1 - 1 + 1 ELSE 0
        /\ \A g \in 1..(m - 1 - 1 + 1) : SubSeq(gs, 1, m - 1)[g] = gs[1 + g - 1]
    BY <2>1, <2>2, SubSeqProperties
  <2>4. hs \in Seq(Group) /\ Len(hs) = m - 1
    BY <1>1, <2>3, FrontLength DEF Popped
  <2>5. ASSUME NEW g \in 1..(m - 1)
        PROVE  hs[g] = gs[g]
    BY <1>1, <2>3, FrontLength DEF Popped
  <2> QED
    BY <2>4, <2>5
<1>3. \A g \in 1..(m - 1) : g \in 1..m /\ g < m /\ (g # m - 1 => g + 1 \in 1..(m - 1))
  BY <1>1
<1>4. \A g \in 1..m : gs[g].frameBase \in Nat /\ gs[g].cur \in Nat
  BY ElementOfSeq, GroupFields
<1>5. \A g \in 1..(m - 1) : gs[g].cur <= gs[m].frameBase /\ gs[g].frameBase < gs[g].cur
  BY <1>1, <1>3 DEF GroupsNest
<1>6. \A g, h \in 1..m : g < h => gs[g].cur <= gs[h].frameBase
  BY DEF GroupsNest
<1>7. hs = <<>> <=> m = 1
  BY <1>1, <1>2, EmptySeq, LenProperties
<1> HIDE DEF hs, m
<1>8. \A g \in 1..(m - 1) : hs[g].frameBase < hs[g].cur /\ hs[g].cur <= k
  BY <1>1, <1>2, <1>3, <1>4, <1>5 DEF m
<1>9. \A g, h \in 1..(m - 1) : g < h => hs[g].cur <= hs[h].frameBase
  BY <1>2, <1>3, <1>6
<1>10. GroupsNest(hs, k)
  BY <1>2, <1>8, <1>9 DEF GroupsNest
<1>11. ASSUME GroupsCover(gs, n), k = gs[m].frameBase
       PROVE  GroupsCover(hs, k)
  <2>1. gs[1].frameBase = 0
    BY <1>11 DEF GroupsCover
  <2>2. \A g \in 1..m : gs[g].cur = IF g = m THEN n ELSE gs[g + 1].frameBase
    BY <1>11 DEF GroupsCover, m
  <2>3. hs = <<>> => k = 0
    BY <1>7, <1>11, <2>1
  <2>4. hs # <<>> => 1 \in 1..(m - 1)
    BY <1>1, <1>7
  <2>5. hs # <<>> => hs[1].frameBase = 0
    BY <1>2, <2>1, <2>4
  <2>6. ASSUME NEW g \in 1..(m - 1)
        PROVE  hs[g].cur = IF g = m - 1 THEN k ELSE hs[g + 1].frameBase
    <3>1. hs[g].cur = gs[g + 1].frameBase
      BY <1>2, <1>3, <2>2
    <3>2. CASE g = m - 1
      <4>1. g + 1 = m
        BY <1>1, <3>2
      <4> QED
        BY <1>11, <3>1, <3>2, <4>1
    <3>3. CASE g # m - 1
      BY <1>2, <1>3, <3>1, <3>3
    <3> QED
      BY <3>2, <3>3
  <2> QED
    BY <1>2, <2>3, <2>5, <2>6 DEF GroupsCover
<1> QED
  BY <1>2, <1>10, <1>11 DEF hs, m

\* A native caller starts an activation on top of n frames.
LEMMA GroupsStart ==
  ASSUME NEW gs \in Seq(Group), NEW n \in Nat, GroupsNest(gs, n)
  PROVE  LET hs == Append(gs, [frameBase |-> n, cur |-> n + 1])
         IN  /\ hs \in Seq(Group) /\ hs # <<>>
             /\ GroupsNest(hs, n + 1)
             /\ GroupsCover(gs, n) => GroupsCover(hs, n + 1)
<1> DEFINE e == [frameBase |-> n, cur |-> n + 1]
           hs == Append(gs, e)
           m == Len(gs)
<1>1. m \in Nat
  BY LenProperties
<1>2. e \in Group /\ e.frameBase = n /\ e.cur = n + 1
  BY DEF Group
<1> HIDE DEF e
<1>3. /\ hs \in Seq(Group) /\ hs # <<>> /\ Len(hs) = m + 1
      /\ \A g \in 1..m : hs[g] = gs[g]
      /\ hs[m + 1] = e
  BY <1>2, AppendProperties
<1>4. /\ \A g \in 1..(m + 1) : (g \in 1..m /\ g < m + 1) \/ g = m + 1
      /\ m + 1 \in 1..(m + 1)
      /\ \A g \in 1..m : g # m => g + 1 \in 1..m /\ g + 1 # m + 1
      /\ m = 0 <=> gs = <<>>
      /\ m # 0 => 1 \in 1..m
  <2>1. \A g \in 1..(m + 1) : (g \in 1..m /\ g < m + 1) \/ g = m + 1
    BY <1>1
  <2>2. m + 1 \in 1..(m + 1)
    BY <1>1
  <2>3. \A g \in 1..m : g # m => g + 1 \in 1..m /\ g + 1 # m + 1
    BY <1>1
  <2>4. m = 0 <=> gs = <<>>
    BY EmptySeq, LenProperties
  <2>5. m # 0 => 1 \in 1..m
    BY <1>1
  <2> QED
    BY <2>1, <2>2, <2>3, <2>4, <2>5
<1>5. \A g \in 1..m : gs[g].frameBase < gs[g].cur /\ gs[g].cur <= n
  BY DEF GroupsNest
<1>6. \A g, h \in 1..m : g < h => gs[g].cur <= gs[h].frameBase
  BY DEF GroupsNest
<1>7. \A g \in 1..m : gs[g].frameBase \in Nat /\ gs[g].cur \in Nat
  BY ElementOfSeq, GroupFields
<1> HIDE DEF hs, m
<1>8. \A g \in 1..(m + 1) : hs[g].frameBase < hs[g].cur /\ hs[g].cur <= n + 1
  <2> TAKE g \in 1..(m + 1)
  <2>1. CASE g \in 1..m
    <3>1. gs[g].frameBase < gs[g].cur /\ gs[g].cur <= n + 1
      BY <1>5, <1>7, <2>1
    <3> QED
      BY <1>3, <2>1, <3>1
  <2>2. CASE g = m + 1
    <3>1. hs[g].frameBase = n /\ hs[g].cur = n + 1
      BY <1>2, <1>3, <2>2
    <3> QED
      BY <3>1
  <2> QED
    BY <1>4, <2>1, <2>2
<1>9. \A g, h \in 1..(m + 1) : g < h => hs[g].cur <= hs[h].frameBase
  <2> TAKE g, h \in 1..(m + 1)
  <2> HAVE g < h
  <2>1. g \in 1..m
    BY <1>1, <1>4
  <2>2. CASE h \in 1..m
    BY <1>3, <1>6, <2>1, <2>2
  <2>3. CASE h = m + 1
    BY <1>2, <1>3, <1>5, <2>1, <2>3
  <2> QED
    BY <1>4, <2>2, <2>3
<1>10. GroupsNest(hs, n + 1)
  BY <1>3, <1>8, <1>9 DEF GroupsNest
<1>11. ASSUME GroupsCover(gs, n)
       PROVE  GroupsCover(hs, n + 1)
  <2>1. hs[1].frameBase = 0
    <3>1. CASE m = 0
      <4>1. n = 0
        BY <1>4, <1>11, <3>1 DEF GroupsCover
      <4>2. m + 1 = 1
        BY <3>1
      <4> QED
        BY <1>2, <1>3, <4>1, <4>2
    <3>2. CASE m # 0
      BY <1>3, <1>4, <1>11, <3>2 DEF GroupsCover
    <3> QED
      BY <3>1, <3>2
  <2>2. \A g \in 1..m : gs[g].cur = IF g = m THEN n ELSE gs[g + 1].frameBase
    BY <1>11 DEF GroupsCover, m
  <2>3. ASSUME NEW g \in 1..(m + 1)
        PROVE  hs[g].cur = IF g = m + 1 THEN n + 1 ELSE hs[g + 1].frameBase
    <3>1. CASE g = m + 1
      BY <1>2, <1>3, <3>1
    <3>2. CASE g \in 1..m /\ g = m
      <4>1. hs[g].cur = n /\ hs[g + 1].frameBase = n
        BY <1>2, <1>3, <2>2, <3>2
      <4>2. g # m + 1
        BY <1>1, <3>2
      <4> QED
        BY <4>1, <4>2
    <3>3. CASE g \in 1..m /\ g # m
      <4>1. hs[g].cur = gs[g + 1].frameBase /\ hs[g + 1].frameBase = gs[g + 1].frameBase
        BY <1>3, <1>4, <2>2, <3>3
      <4>2. g # m + 1
        BY <1>1, <3>3
      <4> QED
        BY <4>1, <4>2
    <3> QED
      BY <1>4, <3>1, <3>2, <3>3
  <2> QED
    BY <1>3, <2>1, <2>3 DEF GroupsCover
<1> QED
  BY <1>3, <1>10, <1>11 DEF hs, e

-----------------------------------------------------------------------------
(* Every action preserves the invariant *)

\* While an Execute runs, its current frame is the last frame of the machine.
LEMMA ActiveFacts ==
  ASSUME IInv, groups # <<>>
  PROVE  /\ Len(frames) \in Nat /\ frames # <<>> /\ Len(frames) >= 1
         /\ TopGroup \in Group /\ TopGroup.frameBase \in Nat
         /\ TopGroup.frameBase < Len(frames)
         /\ Cur \in 1..Len(frames) /\ Len(frames) \in 1..Len(frames)
         /\ ~escaped => Cur = Len(frames)
         /\ Leaving \in Frame
<1>1. /\ frames \in Seq(Frame) /\ groups \in Seq(Group)
      /\ GroupsNest(groups, Len(frames))
  BY DEF IInv, TypeOK
<1>2. Len(frames) \in Nat
  BY <1>1, LenProperties
<1>3. /\ TopGroup \in Group /\ TopGroup.frameBase \in Nat
      /\ TopGroup.frameBase < TopGroup.cur /\ TopGroup.cur <= Len(frames)
      /\ TopGroup.cur \in 1..Len(frames) /\ TopGroup.cur \in Nat
      /\ Len(groups) \in 1..Len(groups)
  BY <1>1, <1>2, TopGroupFacts DEF TopGroup
<1>4. TopGroup.frameBase < Len(frames) /\ Len(frames) >= 1 /\ Len(frames) \in 1..Len(frames)
  BY <1>2, <1>3
<1>5. frames # <<>>
  BY <1>1, <1>4, EmptySeq
<1>6. ~escaped => Cur = Len(frames)
  BY <1>3 DEF IInv, Layout, GroupsCover, Cur, TopGroup
<1>7. Leaving \in Frame
  BY <1>1, <1>4, ElementOfSeq DEF Leaving
<1> QED
  BY <1>2, <1>3, <1>4, <1>5, <1>6, <1>7 DEF Cur

\* A new thread satisfies the invariant.
LEMMA InitIInv == Init => IInv
<1> SUFFICES ASSUME Init PROVE IInv
  OBVIOUS
<1>1. Len(frames) = 0 /\ Len(groups) = 0 /\ frames = <<>> /\ groups = <<>>
  BY DEF Init
<1>2. TypeOK
  BY <1>1, EmptySeq DEF Init, TypeOK, Phases
<1>3. GroupsNest(groups, Len(frames)) /\ GroupsCover(groups, Len(frames))
  BY <1>1 DEF GroupsNest, GroupsCover
<1>4. StackLayout(frames, stackTop) /\ PoolLayout(frames, poolBottom)
  BY <1>1 DEF Init, StackLayout, PoolLayout
<1>5. FlowLayout(frames, flowTop)
  BY <1>1, SizeAssumption DEF Init, FlowLayout
<1> QED
  BY <1>2, <1>3, <1>4, <1>5 DEF Init, IInv, Layout

\* A C++ exception flies, is stopped or resumes: the memory stays.
LEMMA PhaseStep ==
  ASSUME IInv, groups # <<>>, phase' \in Phases,
         UNCHANGED <<stackTop, poolBottom, frames, flowTop, flowCount, groups, escaped>>
  PROVE  IInv'
  BY DEF IInv, TypeOK, Layout

\* PopPrevExceptionFlowInfo preserves the invariant.
LEMMA PopFlowStep == ASSUME IInv, PopFlow PROVE IInv'
<1>1. /\ groups # <<>> /\ frames \in Seq(Frame) /\ Cur \in 1..Len(frames)
      /\ frames[Cur].exCount \in Nat
  BY ActiveFacts, ElementOfSeq, FrameFields DEF PopFlow, IInv, TypeOK
<1>2. frames[Cur].exCount > 0
  BY <1>1 DEF PopFlow
<1>3. PICK e \in Frame :
        /\ [frames EXCEPT ![Cur].exCount = @ - 1] = [frames EXCEPT ![Cur] = e]
        /\ e.exCount = frames[Cur].exCount - 1
        /\ e.base = frames[Cur].base /\ e.size = frames[Cur].size
        /\ e.oldStackTop = frames[Cur].oldStackTop /\ e.oldPool = frames[Cur].oldPool
        /\ e.flowMark = frames[Cur].flowMark /\ e.exBase = frames[Cur].exBase
        /\ e.locs = frames[Cur].locs /\ e.exCap = frames[Cur].exCap
  BY <1>1, <1>2, PoppedFlowFrames
<1>4. frames' = [frames EXCEPT ![Cur] = e]
  BY <1>3 DEF PopFlow
<1>5. frames' \in Seq(Frame) /\ Len(frames') = Len(frames)
  BY <1>1, <1>4, ReplacedFrames
<1>6. TypeOK'
  BY <1>5 DEF IInv, TypeOK, PopFlow
<1>7. ASSUME ~escaped'
      PROVE  Layout'
  <2>1. ~escaped /\ Layout
    BY <1>7 DEF IInv, PopFlow
  <2>2. e.exCount <= frames[Cur].exCount
    BY <1>1, <1>3
  <2>3. /\ StackLayout(frames', stackTop) /\ PoolLayout(frames', poolBottom)
        /\ FlowLayout(frames', flowTop)
    BY <1>1, <1>3, <1>4, <2>1, <2>2, ReplacedStack, ReplacedPool, ReplacedFlow DEF Layout
  <2> QED
    BY <1>5, <2>1, <2>3 DEF Layout, PopFlow
<1> QED
  BY <1>5, <1>6, <1>7 DEF IInv, PopFlow

\* AllocLoc preserves the invariant, whether the pool has room or not.
LEMMA LocallocStep ==
  ASSUME IInv, NEW n \in 1..MaxLocalloc, Localloc(n)
  PROVE  IInv'
<1>1. /\ groups # <<>> /\ frames \in Seq(Frame) /\ Cur \in 1..Len(frames)
      /\ frames # <<>> /\ Len(frames) \in 1..Len(frames)
      /\ ~escaped => Cur = Len(frames)
  BY ActiveFacts DEF Localloc, IInv, TypeOK
<1>2. /\ stackTop \in Nat /\ poolBottom \in Nat \cup {-1} /\ n \in Nat
      /\ StackSize \in Nat /\ MaxLocalloc \in Nat
  BY SizeAssumption DEF IInv, TypeOK
<1>3. CASE ~StackFits(n)
  BY <1>1, <1>3, PhaseStep DEF Localloc, Phases
<1>4. CASE StackFits(n)
  <2> DEFINE new == ReadyPool - n
             L == new .. (ReadyPool - 1)
  <2>1. ReadyPool \in Nat /\ new \in Nat /\ new <= ReadyPool /\ stackTop <= new
    BY <1>2, <1>4 DEF ReadyPool, StackFits
  <2>2. /\ poolBottom' = new /\ frames' = [frames EXCEPT ![Cur].locs = @ \cup L]
        /\ UNCHANGED <<phase, stackTop, flowTop, flowCount, groups, escaped>>
    BY <1>4 DEF Localloc
  <2>3. L \in SUBSET Int
    BY <2>1
  <2> HIDE DEF new, L
  <2> DEFINE e == [frames[Cur] EXCEPT !.locs = @ \cup L]
  <2>4. /\ e \in Frame
        /\ e.locs = frames[Cur].locs \cup L
        /\ e.base = frames[Cur].base /\ e.size = frames[Cur].size
        /\ e.oldStackTop = frames[Cur].oldStackTop /\ e.oldPool = frames[Cur].oldPool
        /\ e.flowMark = frames[Cur].flowMark /\ e.exBase = frames[Cur].exBase
        /\ e.exCount = frames[Cur].exCount /\ e.exCap = frames[Cur].exCap
    BY <1>1, <2>3, ElementOfSeq, LocallocFrame
  <2>5. frames' = [frames EXCEPT ![Cur] = e]
    BY <2>2
  <2> HIDE DEF e
  <2>6. frames' \in Seq(Frame) /\ Len(frames') = Len(frames)
    BY <1>1, <2>4, <2>5, ReplacedFrames
  <2>7. TypeOK'
    BY <2>1, <2>2, <2>6 DEF IInv, TypeOK
  <2>8. ASSUME ~escaped'
        PROVE  Layout'
    <3>1. ~escaped /\ Layout /\ Cur = Len(frames)
      BY <1>1, <2>2, <2>8 DEF IInv
    <3>2. ReadyPool = poolBottom
      BY <1>1, <3>1 DEF Layout, PoolLayout, ReadyPool
    <3>3. e.exCount <= frames[Cur].exCount
      BY <1>1, <2>4, ElementOfSeq, FrameFields
    <3>4. StackLayout(frames', stackTop) /\ FlowLayout(frames', flowTop)
      BY <1>1, <2>4, <2>5, <3>1, <3>3, ReplacedStack, ReplacedFlow DEF Layout
    <3>5. PoolLayout(frames', new)
      <4>1. poolBottom \in Nat
        BY <2>1, <3>2
      <4>2. e.locs = frames[Len(frames)].locs \cup new..(poolBottom - 1)
        BY <2>4, <3>1, <3>2 DEF L
      <4>3. PoolLayout([frames EXCEPT ![Len(frames)] = e], new)
        BY <1>1, <2>1, <2>4, <3>1, <3>2, <4>1, <4>2, LocallocPool DEF Layout
      <4> QED
        BY <2>5, <3>1, <4>3
    <3> QED
      BY <2>1, <2>2, <2>6, <3>1, <3>4, <3>5 DEF Layout
  <2> QED
    BY <2>2, <2>6, <2>7, <2>8 DEF IInv
<1> QED
  BY <1>3, <1>4

\* What a push does when it fits: the halves shared by ThrowEx, LeaveEx and
\* CatchBlock.
LEMMA PushStep ==
  ASSUME IInv, groups # <<>>,
         PushFits(frames, Cur, flowTop),
         flowCount' = FlowCountAfterPush(frames, Cur),
         frames' = Pushed(frames, Cur, flowTop),
         flowTop' = TopAfterPush(frames, Cur, flowTop),
         phase' \in Phases,
         UNCHANGED <<stackTop, poolBottom, groups, escaped>>
  PROVE  IInv'
<1>1. /\ frames \in Seq(Frame) /\ frames # <<>> /\ Cur \in 1..Len(frames)
      /\ flowTop \in Nat
      /\ ~escaped => Cur = Len(frames)
  BY ActiveFacts DEF IInv, TypeOK
<1>2. /\ frames' \in Seq(Frame) /\ Len(frames') = Len(frames) /\ flowTop' \in Nat
  BY <1>1, PushedFrames
<1>3. flowCount' \in {-1, FlowCap}
  BY DEF IInv, TypeOK, FlowCountAfterPush, ReadyFlowCount
<1>4. TypeOK'
  BY <1>2, <1>3 DEF IInv, TypeOK
<1>5. ASSUME ~escaped'
      PROVE  Layout'
  <2>1. Layout /\ Cur = Len(frames)
    BY <1>1, <1>5 DEF IInv
  <2>2. StackLayout(frames', stackTop) /\ PoolLayout(frames', poolBottom)
    BY <1>1, <2>1, PushedStack, PushedPool DEF Layout
  <2>3. NeedsFlow(frames, Len(frames)) => flowTop + 3 < FlowCap
    BY <2>1 DEF PushFits, EXCEPTION_FLOW_INFO_ALLOC_BATCH_NUM, ReadyFlowCount, IInv, TypeOK
  <2>4. FlowLayout(frames', flowTop')
    BY <1>1, <2>1, <2>3, PushedFlow DEF Layout
  <2> QED
    BY <1>2, <2>1, <2>2, <2>4 DEF Layout
<1> QED
  BY <1>2, <1>4, <1>5 DEF IInv

\* A push that finds the table full has created it if there was none.
LEMMA FailedPushStep ==
  ASSUME IInv, groups # <<>>, phase' \in Phases,
         flowCount' = FlowCountAfterPush(frames, Cur),
         UNCHANGED <<stackTop, poolBottom, frames, flowTop, groups, escaped>>
  PROVE  IInv'
<1>1. flowCount' \in {-1, FlowCap}
  BY DEF IInv, TypeOK, FlowCountAfterPush, ReadyFlowCount
<1> QED
  BY <1>1 DEF IInv, TypeOK, Layout

\* THROW_EX preserves the invariant.
LEMMA ThrowExStep == ASSUME IInv, ThrowEx PROVE IInv'
<1>1. CASE PushFits(frames, Cur, flowTop)
  BY <1>1, PushStep DEF ThrowEx, Phases
<1>2. CASE ~PushFits(frames, Cur, flowTop)
  BY <1>2, FailedPushStep DEF ThrowEx, Phases
<1> QED
  BY <1>1, <1>2

\* LEAVE_EX preserves the invariant.
LEMMA LeaveExStep == ASSUME IInv, LeaveEx PROVE IInv'
<1>1. CASE PushFits(frames, Cur, flowTop)
  BY <1>1, PushStep DEF LeaveEx, Phases
<1>2. CASE ~PushFits(frames, Cur, flowTop)
  BY <1>2, FailedPushStep DEF LeaveEx, Phases
<1> QED
  BY <1>1, <1>2

\* The innermost activation is gone with its frames still on the machine.
LEMMA EscapeStep ==
  ASSUME IInv, groups # <<>>,
         frames' \in Seq(Frame), Len(frames') \in Nat,
         TopGroup.frameBase <= Len(frames'),
         stackTop' \in Nat, poolBottom' \in Nat \cup {-1}, flowTop' \in Nat,
         flowCount' \in {-1, FlowCap},
         groups' = Popped(groups), phase' = PhaseAfterEscape(groups'), escaped' = TRUE
  PROVE  IInv'
<1>1. groups \in Seq(Group) /\ Len(frames) \in Nat /\ GroupsNest(groups, Len(frames))
  BY ActiveFacts DEF IInv, TypeOK
<1>2. groups' \in Seq(Group) /\ GroupsNest(groups', Len(frames'))
  BY <1>1, GroupsEnd DEF TopGroup
<1>3. phase' \in Phases /\ (phase' # "run" => groups' # <<>>)
  BY DEF PhaseAfterEscape, Phases
<1>4. TypeOK'
  BY <1>2, <1>3 DEF TypeOK
<1> QED
  BY <1>2, <1>3, <1>4 DEF IInv

\* Execute's catch block preserves the invariant, even when its own push fails.
LEMMA CatchBlockStep == ASSUME IInv, CatchBlock PROVE IInv'
<1>1. groups # <<>>
  BY DEF CatchBlock, IInv
<1>2. CASE PushFits(frames, Cur, flowTop)
  BY <1>1, <1>2, PushStep DEF CatchBlock, Phases
<1>3. CASE ~PushFits(frames, Cur, flowTop)
  <2>1. flowCount' \in {-1, FlowCap}
    BY DEF CatchBlock, IInv, TypeOK, FlowCountAfterPush, ReadyFlowCount
  <2>2. /\ UNCHANGED <<frames, flowTop, stackTop, poolBottom>>
        /\ groups' = Popped(groups) /\ phase' = PhaseAfterEscape(groups') /\ escaped' = TRUE
    BY <1>3 DEF CatchBlock
  <2>3. TopGroup.frameBase <= Len(frames) /\ Len(frames) \in Nat
    BY <1>1, ActiveFacts
  <2> QED
    BY <1>1, <2>1, <2>2, <2>3, EscapeStep DEF IInv, TypeOK
<1> QED
  BY <1>2, <1>3

-----------------------------------------------------------------------------
\* EnterFrame preserves the layout: the slots are taken before the frame is pushed.
LEMMA EnterFrameStep ==
  ASSUME IInv, NEW m \in Methods, NEW base \in Int, NEW slots \in Nat, NEW gs, NEW failed,
         EnterFrame(m, base, slots, gs, failed),
         failed \in Phases, failed # "run" => groups # <<>>,
         ~escaped => 0 <= base /\ base + maxStackSize[m] <= stackTop + slots,
         gs \in Seq(Group), gs # <<>>,
         GroupsNest(gs, Len(frames) + 1),
         ~escaped => GroupsCover(gs, Len(frames) + 1)
  PROVE  IInv'
<1>1. /\ frames \in Seq(Frame) /\ groups \in Seq(Group) /\ Len(frames) \in Nat
      /\ stackTop \in Nat /\ flowTop \in Nat /\ poolBottom \in Nat \cup {-1}
      /\ StackSize \in Nat /\ FrameCap \in Nat \ {0} /\ maxStackSize[m] \in Nat
  BY SizeAssumption, MethodAssumption, LenProperties DEF IInv, TypeOK
<1>2. ReadyPool \in Nat /\ poolBottom' = ReadyPool
  BY <1>1 DEF ReadyPool, EnterFrame
<1>3. UNCHANGED <<flowTop, flowCount, escaped>>
  BY DEF EnterFrame
<1>4. ~escaped => PoolLayout(frames, ReadyPool)
  BY <1>1, ReadiedPool DEF IInv, Layout, ReadyPool
<1>5. ~escaped /\ frames # <<>> => ReadyPool = poolBottom /\ stackTop <= ReadyPool
  BY DEF IInv, Layout, PoolLayout, ReadyPool
<1>6. ~escaped /\ frames = <<>> => stackTop = 0
  BY DEF IInv, Layout, StackLayout
<1>7. ~escaped => stackTop <= ReadyPool
  BY <1>1, <1>2, <1>5, <1>6
<1>8. CASE ~StackFits(slots)
  <2>1. UNCHANGED <<stackTop, frames, groups>> /\ phase' = failed
    BY <1>8 DEF EnterFrame
  <2>2. TypeOK'
    BY <1>1, <1>2, <1>3, <2>1 DEF IInv, TypeOK
  <2>3. ~escaped => Layout'
    BY <1>2, <1>3, <1>4, <1>7, <2>1 DEF IInv, Layout
  <2> QED
    BY <1>3, <2>1, <2>2, <2>3 DEF IInv
<1>9. CASE StackFits(slots) /\ ~FramesFit
  <2>1. UNCHANGED <<frames, groups>> /\ phase' = failed /\ stackTop' = stackTop + slots
    BY <1>9 DEF EnterFrame
  <2>2. stackTop' \in Nat /\ stackTop <= stackTop' /\ stackTop' <= ReadyPool
    BY <1>1, <1>2, <1>9, <2>1 DEF StackFits
  <2>3. frames # <<>>
    BY <1>1, <1>9, EmptySeq DEF FramesFit
  <2>4. TypeOK'
    BY <1>1, <1>2, <1>3, <2>1, <2>2 DEF IInv, TypeOK
  <2>5. ~escaped => StackLayout(frames, stackTop')
    BY <1>1, <2>2, <2>3, RaisedStack DEF IInv, Layout
  <2>6. ~escaped => Layout'
    BY <1>2, <1>3, <1>4, <2>1, <2>2, <2>5 DEF IInv, Layout
  <2> QED
    BY <1>3, <2>1, <2>4, <2>6 DEF IInv
<1>10. CASE StackFits(slots) /\ FramesFit
  <2> DEFINE f == NewFrame(m, base)
  <2>1. /\ frames' = Append(frames, f) /\ groups' = gs
        /\ stackTop' = stackTop + slots /\ UNCHANGED phase
    BY <1>10 DEF EnterFrame
  <2>2. stackTop' \in Nat /\ stackTop <= stackTop' /\ stackTop' <= ReadyPool
    BY <1>1, <1>2, <1>10, <2>1 DEF StackFits
  <2>3. /\ f \in Frame /\ f.base = base /\ f.size = maxStackSize[m]
        /\ f.oldStackTop = stackTop /\ f.oldPool = ReadyPool /\ f.locs = {}
        /\ f.exBase = NoFlow /\ f.exCap = 0 /\ f.exCount = 0 /\ f.flowMark = flowTop
    BY <1>1, <1>2 DEF NewFrame, Frame
  <2> HIDE DEF f
  <2>4. frames' \in Seq(Frame) /\ Len(frames') = Len(frames) + 1
    BY <1>1, <2>1, <2>3, AppendedFrames
  <2>5. TypeOK'
    BY <1>2, <1>3, <2>1, <2>2, <2>4 DEF IInv, TypeOK
  <2>6. ~escaped => f.base + f.size <= stackTop' /\ 0 <= f.base
    BY <2>1, <2>3
  <2>7. ASSUME ~escaped
        PROVE  Layout'
    <3>1. Layout
      BY <2>7 DEF IInv
    <3>2. StackLayout(frames', stackTop')
      BY <1>1, <2>1, <2>2, <2>3, <2>6, <2>7, <3>1, AppendedStack DEF Layout
    <3>3. PoolLayout(frames', poolBottom')
      BY <1>1, <1>2, <1>4, <2>1, <2>3, <2>7, AppendedPool
    <3>4. FlowLayout(frames', flowTop')
      BY <1>1, <1>3, <2>1, <2>3, <3>1, AppendedFlow DEF Layout
    <3> QED
      BY <1>2, <2>1, <2>2, <2>4, <2>7, <3>2, <3>3, <3>4 DEF Layout
  <2>8. GroupsNest(groups', Len(frames'))
    BY <2>1, <2>4
  <2>9. groups' # <<>>
    BY <2>1
  <2> QED
    BY <1>3, <2>5, <2>7, <2>8, <2>9 DEF IInv
<1> QED
  BY <1>8, <1>9, <1>10 DEF EnterFrame

\* A native caller entering Execute preserves the invariant.
LEMMA ExecuteFromNativeStep ==
  ASSUME IInv, NEW m \in Methods, ExecuteFromNative(m)
  PROVE  IInv'
<1> DEFINE gs == Append(groups, [frameBase |-> Len(frames), cur |-> Len(frames) + 1])
<1>1. /\ groups \in Seq(Group) /\ Len(frames) \in Nat /\ stackTop \in Nat
      /\ maxStackSize[m] \in Nat
      /\ GroupsNest(groups, Len(frames))
  BY MethodAssumption, LenProperties DEF IInv, TypeOK
<1>2. /\ gs \in Seq(Group) /\ gs # <<>> /\ GroupsNest(gs, Len(frames) + 1)
      /\ GroupsCover(groups, Len(frames)) => GroupsCover(gs, Len(frames) + 1)
  BY <1>1, GroupsStart
<1>3. ~escaped => GroupsCover(gs, Len(frames) + 1)
  BY <1>2 DEF IInv, Layout
<1>4. /\ PhaseAfterEscape(groups) \in Phases
      /\ PhaseAfterEscape(groups) # "run" => groups # <<>>
  BY DEF PhaseAfterEscape, Phases
<1>5. EnterFrame(m, stackTop, maxStackSize[m], gs, PhaseAfterEscape(groups))
  BY DEF ExecuteFromNative
<1>6. stackTop \in Int /\ 0 <= stackTop /\ stackTop + maxStackSize[m] <= stackTop + maxStackSize[m]
  BY <1>1
<1> HIDE DEF gs
<1> QED
  BY <1>1, <1>2, <1>3, <1>4, <1>5, <1>6, EnterFrameStep

\* Frames above the current one only ever start above its window, so a
\* callee's window ends below the raised stack top.
LEMMA CurWindow ==
  ASSUME IInv, groups # <<>>, ~escaped
  PROVE  /\ frames[Cur].base \in Int /\ frames[Cur].size \in Nat
         /\ 0 <= frames[Cur].base /\ frames[Cur].base + frames[Cur].size <= stackTop
  BY ActiveFacts, ElementOfSeq, FrameFields DEF IInv, TypeOK, Layout, StackLayout

\* A call from interpreted code preserves the invariant, at every point it can fail.
LEMMA CallInterpStep ==
  ASSUME IInv, NEW m \in Methods, NEW argBase \in 0..StackSize, CallInterp(m, argBase)
  PROVE  IInv'
<1> DEFINE slots == maxStackSize[m] - argSize[m]
           gs == WithCur(Len(frames) + 1)
<1>1. groups # <<>>
  BY DEF CallInterp
<1>2. /\ groups \in Seq(Group) /\ stackTop \in Nat
      /\ GroupsNest(groups, Len(frames))
  BY DEF IInv, TypeOK
<1>3. Len(frames) \in Nat /\ TopGroup.frameBase < Len(frames) /\ TopGroup.frameBase \in Nat
  BY <1>1, ActiveFacts
<1>4. Len(frames) + 1 \in Nat /\ TopGroup.frameBase < Len(frames) + 1
  BY <1>3
<1>5. /\ gs \in Seq(Group) /\ gs # <<>> /\ GroupsNest(gs, Len(frames) + 1)
      /\ GroupsCover(groups, Len(frames)) => GroupsCover(gs, Len(frames) + 1)
  BY <1>1, <1>2, <1>3, <1>4, GroupsMove DEF TopGroup, WithCur
<1>6. ~escaped => GroupsCover(gs, Len(frames) + 1)
  BY <1>5 DEF IInv, Layout
<1>7. maxStackSize[m] \in Nat /\ argSize[m] \in Nat /\ argSize[m] <= maxStackSize[m]
  BY MethodAssumption
<1>8. argBase \in Int /\ 0 <= argBase
  BY SizeAssumption
<1>9. slots \in Nat
  BY <1>7
<1>10. ~escaped => argBase + maxStackSize[m] <= stackTop + slots
  <2> SUFFICES ASSUME ~escaped PROVE argBase + maxStackSize[m] <= stackTop + slots
    OBVIOUS
  <2>1. /\ frames[Cur].base \in Int /\ frames[Cur].size \in Nat
        /\ frames[Cur].base + frames[Cur].size <= stackTop
    BY <1>1, CurWindow
  <2>2. argBase + argSize[m] <= frames[Cur].base + frames[Cur].size
    BY DEF CallInterp
  <2> QED
    BY <1>2, <1>7, <1>8, <2>1, <2>2
<1>11. EnterFrame(m, argBase, slots, gs, "raise")
  BY DEF CallInterp
<1>12. "raise" \in Phases
  BY DEF Phases
<1> HIDE DEF gs, slots
<1> QED
  BY <1>1, <1>5, <1>6, <1>8, <1>9, <1>10, <1>11, <1>12, EnterFrameStep

-----------------------------------------------------------------------------
(* Leaving frames *)

\* LeaveFrame on the machine's last frame: what every leaving step gets.
LEMMA LeaveFacts ==
  ASSUME IInv, groups # <<>>
  PROVE  /\ Popped(frames) \in Seq(Frame) /\ Len(Popped(frames)) = Len(frames) - 1
         /\ Len(frames) - 1 \in Nat
         /\ Leaving.oldStackTop \in Nat /\ Leaving.oldPool \in Nat
         /\ FlowTopAfterLeave \in Nat
         /\ ~escaped => /\ StackLayout(Popped(frames), Leaving.oldStackTop)
                        /\ PoolLayout(Popped(frames), Leaving.oldPool)
                        /\ Leaving.oldStackTop <= Leaving.oldPool
                        /\ FlowLayout(Popped(frames), FlowTopAfterLeave)
<1>1. /\ frames \in Seq(Frame) /\ frames # <<>> /\ Len(frames) \in Nat /\ Len(frames) >= 1
      /\ Len(frames) \in 1..Len(frames) /\ Leaving \in Frame
      /\ flowTop \in Nat /\ stackTop \in Nat /\ poolBottom \in Nat \cup {-1}
  BY ActiveFacts DEF IInv, TypeOK
<1>2. /\ Leaving.oldStackTop \in Nat /\ Leaving.oldPool \in Nat
      /\ Leaving.exBase \in Nat \cup {NoFlow}
  BY <1>1, FrameFields
<1>3. FlowTopAfterLeave \in Nat
  BY <1>1, <1>2 DEF FlowTopAfterLeave
<1>4. /\ Popped(frames) \in Seq(Frame) /\ Len(Popped(frames)) = Len(frames) - 1
      /\ Len(frames) - 1 \in Nat
  BY <1>1, PoppedFrames
<1>5. ASSUME ~escaped
      PROVE  /\ StackLayout(Popped(frames), Leaving.oldStackTop)
             /\ PoolLayout(Popped(frames), Leaving.oldPool)
             /\ Leaving.oldStackTop <= Leaving.oldPool
             /\ FlowLayout(Popped(frames), FlowTopAfterLeave)
  <2>1. Layout
    BY <1>5 DEF IInv
  <2>2. StackLayout(Popped(frames), Leaving.oldStackTop)
    BY <1>1, <2>1, PoppedStack DEF Layout, Leaving
  <2>3. PoolLayout(Popped(frames), Leaving.oldPool)
    BY <1>1, <2>1, PoppedPool DEF Layout, Leaving
  <2>4. FlowLayout(Popped(frames), FlowTopAfterLeave)
    BY <1>1, <2>1, PoppedFlow DEF Layout, Leaving, FlowTopAfterLeave
  <2>5. /\ Leaving.oldStackTop <= stackTop /\ poolBottom <= Leaving.oldPool
        /\ stackTop <= poolBottom
    BY <1>1, <2>1 DEF Layout, Leaving, StackLayout, PoolLayout
  <2>6. Leaving.oldStackTop <= Leaving.oldPool
    BY <1>1, <1>2, <2>5
  <2> QED
    BY <2>2, <2>3, <2>4, <2>6
<1> QED
  BY <1>2, <1>3, <1>4, <1>5

\* The group's last frame leaves: the activation ends.
LEMMA EndStep ==
  ASSUME IInv, groups # <<>>, LeaveFrame, GroupEmpties,
         groups' = Popped(groups), UNCHANGED <<flowCount, escaped>>,
         phase' \in Phases, phase' # "run" => groups' # <<>>
  PROVE  IInv'
<1>1. /\ groups \in Seq(Group) /\ GroupsNest(groups, Len(frames)) /\ Len(frames) \in Nat
      /\ TopGroup.frameBase \in Nat /\ TopGroup.frameBase < Len(frames)
  BY ActiveFacts DEF IInv, TypeOK
<1>2. Len(frames) - 1 = TopGroup.frameBase /\ Len(frames) - 1 \in Nat
  BY <1>1 DEF GroupEmpties
<1>3. /\ groups' \in Seq(Group) /\ GroupsNest(groups', Len(frames) - 1)
      /\ GroupsCover(groups, Len(frames)) => GroupsCover(groups', Len(frames) - 1)
  BY <1>1, <1>2, GroupsEnd DEF TopGroup
<1>4. /\ frames' \in Seq(Frame) /\ Len(frames') = Len(frames) - 1
      /\ stackTop' \in Nat /\ poolBottom' \in Nat /\ flowTop' \in Nat
  BY LeaveFacts DEF LeaveFrame
<1>5. TypeOK'
  BY <1>3, <1>4 DEF IInv, TypeOK
<1>6. ASSUME ~escaped PROVE Layout'
  BY <1>3, <1>4, <1>6, LeaveFacts DEF LeaveFrame, Layout, IInv
<1> QED
  BY <1>3, <1>4, <1>5, <1>6 DEF IInv

\* A frame leaves and the activation goes on in the one before it.
LEMMA ContinueStep ==
  ASSUME IInv, groups # <<>>, LeaveFrame, ~GroupEmpties,
         groups' = WithCur(Len(frames) - 1), UNCHANGED escaped,
         flowCount' \in {-1, FlowCap}, phase' \in Phases
  PROVE  IInv'
<1>1. /\ groups \in Seq(Group) /\ GroupsNest(groups, Len(frames)) /\ Len(frames) \in Nat
      /\ TopGroup.frameBase \in Nat /\ TopGroup.frameBase < Len(frames)
  BY ActiveFacts DEF IInv, TypeOK
<1>2. TopGroup.frameBase < Len(frames) - 1 /\ Len(frames) - 1 \in Nat
  BY <1>1 DEF GroupEmpties
<1>3. /\ groups' \in Seq(Group) /\ GroupsNest(groups', Len(frames) - 1) /\ groups' # <<>>
      /\ GroupsCover(groups, Len(frames)) => GroupsCover(groups', Len(frames) - 1)
  BY <1>1, <1>2, GroupsMove DEF TopGroup, WithCur
<1>4. /\ frames' \in Seq(Frame) /\ Len(frames') = Len(frames) - 1
      /\ stackTop' \in Nat /\ poolBottom' \in Nat /\ flowTop' \in Nat
  BY LeaveFacts DEF LeaveFrame
<1>5. TypeOK'
  BY <1>3, <1>4 DEF IInv, TypeOK
<1>6. ASSUME ~escaped PROVE Layout'
  BY <1>3, <1>4, <1>6, LeaveFacts DEF LeaveFrame, Layout, IInv
<1> QED
  BY <1>3, <1>4, <1>5, <1>6 DEF IInv

\* LEAVE_FRAME preserves the invariant.
LEMMA ReturnStep == ASSUME IInv, Return PROVE IInv'
<1>1. groups # <<>> /\ LeaveFrame /\ UNCHANGED <<flowCount, phase, escaped>>
  BY DEF Return
<1>2. phase = "run" /\ phase' \in Phases /\ flowCount' \in {-1, FlowCap}
  BY DEF Return, IInv, TypeOK, Phases
<1>3. CASE GroupEmpties
  BY <1>1, <1>2, <1>3, EndStep DEF Return
<1>4. CASE ~GroupEmpties
  BY <1>1, <1>2, <1>4, ContinueStep DEF Return
<1> QED
  BY <1>3, <1>4

\* Unwinding out of Execute preserves the invariant.
LEMMA UnwindFailStep == ASSUME IInv, UnwindFail PROVE IInv'
<1>1. groups # <<>>
  BY DEF UnwindFail, IInv
<1>2. /\ LeaveFrame /\ GroupEmpties /\ groups' = Popped(groups)
      /\ UNCHANGED <<flowCount, escaped>>
      /\ phase' = PhaseAfterEscape(groups')
  BY DEF UnwindFail
<1>3. phase' \in Phases /\ (phase' # "run" => groups' # <<>>)
  BY <1>2 DEF PhaseAfterEscape, Phases
<1> QED
  BY <1>1, <1>2, <1>3, EndStep

\* Unwinding into the caller preserves the invariant.
LEMMA UnwindFrameStep == ASSUME IInv, UnwindFrame PROVE IInv'
<1> DEFINE ps == Popped(frames)
           k == Len(frames) - 1
           top == FlowTopAfterLeave
<1>1. groups # <<>> /\ ~GroupEmpties /\ phase \in {"throw", "catch"}
  BY DEF UnwindFrame, IInv
<1>2. /\ groups \in Seq(Group) /\ GroupsNest(groups, Len(frames)) /\ Len(frames) \in Nat
      /\ frames \in Seq(Frame) /\ frames # <<>>
      /\ TopGroup.frameBase \in Nat /\ TopGroup.frameBase < Len(frames)
  BY <1>1, ActiveFacts DEF IInv, TypeOK
<1>3. TopGroup.frameBase < k /\ k \in Nat /\ k >= 1 /\ k \in 1..k
  BY <1>1, <1>2 DEF GroupEmpties
<1>4. /\ ps \in Seq(Frame) /\ Len(ps) = k /\ top \in Nat
      /\ Leaving.oldStackTop \in Nat /\ Leaving.oldPool \in Nat
  BY <1>1, LeaveFacts
<1>5. ps[k] = frames[k]
  BY <1>2, <1>3, PoppedFrames
<1>6. NeedsFlow(frames, k) <=> NeedsFlow(ps, k)
  BY <1>5 DEF NeedsFlow
<1>7. /\ flowCount' \in {-1, FlowCap}
      /\ stackTop' = Leaving.oldStackTop /\ poolBottom' = Leaving.oldPool
  BY DEF UnwindFrame, IInv, TypeOK, FlowCountAfterPush, ReadyFlowCount
<1>8. ps # <<>>
  BY <1>3, <1>4, EmptySeq
<1> HIDE DEF ps, k, top
<1>9. CASE PushFits(frames, k, top)
  <2>1. /\ frames' = Pushed(ps, k, top) /\ flowTop' = TopAfterPush(frames, k, top)
        /\ groups' = WithCur(k) /\ UNCHANGED <<phase, escaped>>
    BY <1>9 DEF UnwindFrame, ps, k, top
  <2>2. flowTop' = TopAfterPush(ps, k, top)
    BY <1>6, <2>1 DEF TopAfterPush
  <2>3. frames' \in Seq(Frame) /\ Len(frames') = k /\ flowTop' \in Nat
    BY <1>3, <1>4, <2>1, <2>2, PushedFrames
  <2>4. /\ groups' \in Seq(Group) /\ GroupsNest(groups', k) /\ groups' # <<>>
        /\ GroupsCover(groups, Len(frames)) => GroupsCover(groups', k)
    BY <1>1, <1>2, <1>3, <2>1, GroupsMove DEF TopGroup, WithCur
  <2>5. TypeOK'
    BY <1>4, <1>7, <2>1, <2>3, <2>4 DEF IInv, TypeOK
  <2>6. ASSUME ~escaped PROVE Layout'
    <3>1. /\ StackLayout(ps, Leaving.oldStackTop) /\ PoolLayout(ps, Leaving.oldPool)
          /\ Leaving.oldStackTop <= Leaving.oldPool
          /\ FlowLayout(ps, top)
      BY <1>1, <2>6, LeaveFacts DEF ps, top
    <3>2. StackLayout(frames', stackTop') /\ PoolLayout(frames', poolBottom')
      BY <1>3, <1>4, <1>7, <2>1, <3>1, PushedStack, PushedPool
    <3>3. NeedsFlow(ps, k) => top + 3 < FlowCap
      BY <1>6, <1>9 DEF PushFits, EXCEPTION_FLOW_INFO_ALLOC_BATCH_NUM, ReadyFlowCount, IInv, TypeOK
    <3>4. FlowLayout(frames', flowTop')
      BY <1>4, <1>8, <2>1, <2>2, <3>1, <3>3, PushedFlow
    <3>5. GroupsCover(groups', k)
      BY <2>4, <2>6 DEF IInv, Layout
    <3> QED
      BY <1>7, <2>3, <3>1, <3>2, <3>4, <3>5 DEF Layout
  <2> QED
    BY <2>1, <2>3, <2>4, <2>5, <2>6 DEF IInv
<1>10. CASE ~PushFits(frames, k, top)
  <2>1. frames' = ps /\ flowTop' = top
    BY <1>10 DEF UnwindFrame, ps, k, top
  <2>2. CASE phase = "throw" /\ groups' = WithCur(k) /\ phase' = "raise" /\ UNCHANGED escaped
    <3>1. LeaveFrame
      BY <1>7, <2>1 DEF LeaveFrame, ps, top
    <3> QED
      BY <1>1, <1>7, <2>2, <3>1, ContinueStep DEF Phases, k
  <2>3. CASE groups' = Popped(groups) /\ phase' = PhaseAfterEscape(groups') /\ escaped' = TRUE
    <3>1. frames' \in Seq(Frame) /\ Len(frames') \in Nat /\ TopGroup.frameBase <= Len(frames')
      BY <1>2, <1>3, <1>4, <2>1
    <3> QED
      BY <1>1, <1>4, <1>7, <2>1, <2>3, <3>1, EscapeStep
  <2> QED
    BY <1>10, <2>2, <2>3 DEF UnwindFrame, k, top
<1> QED
  BY <1>9, <1>10

\* The strengthened invariant IInv is inductive: no operation of MachineState,
\* InterpFrameGroup or Execute breaks the layout of the three arrays.
THEOREM NextIInv == IInv /\ [Next]_vars => IInv'
<1> SUFFICES ASSUME IInv, [Next]_vars PROVE IInv'
  OBVIOUS
<1>1. ASSUME NEW m \in Methods, ExecuteFromNative(m) PROVE IInv'
  BY <1>1, ExecuteFromNativeStep
<1>2. ASSUME NEW m \in Methods, NEW argBase \in 0..StackSize, CallInterp(m, argBase) PROVE IInv'
  BY <1>2, CallInterpStep
<1>3. ASSUME NEW n \in 1..MaxLocalloc, Localloc(n) PROVE IInv'
  BY <1>3, LocallocStep
<1>4. CASE Raise
  BY <1>4, PhaseStep DEF Raise, Phases
<1>5. CASE ThrowEx
  BY <1>5, ThrowExStep
<1>6. CASE LeaveEx
  BY <1>6, LeaveExStep
<1>7. CASE PopFlow
  BY <1>7, PopFlowStep
<1>8. CASE ResumeSearch
  BY <1>8, PhaseStep DEF ResumeSearch, Phases
<1>9. CASE CatchBlock
  BY <1>9, CatchBlockStep
<1>10. CASE EnterHandler
  <2>1. groups # <<>>
    BY <1>10 DEF EnterHandler, IInv
  <2> QED
    BY <1>10, <2>1, PhaseStep DEF EnterHandler, Phases
<1>11. CASE Return
  BY <1>11, ReturnStep
<1>12. CASE UnwindFrame
  BY <1>12, UnwindFrameStep
<1>13. CASE UnwindFail
  BY <1>13, UnwindFailStep
<1>14. CASE UNCHANGED vars
  BY <1>14 DEF vars, IInv, TypeOK, Layout
<1> QED
  BY <1>1, <1>2, <1>3, <1>4, <1>5, <1>6, <1>7, <1>8, <1>9, <1>10, <1>11, <1>12, <1>13, <1>14
     DEF Next

-----------------------------------------------------------------------------
(* What the invariant means *)

\* In every reachable state the frames partition the stack, the pool and the
\* flow table, and belong to the activations in order.
THEOREM SpecIInv == Spec => []IInv
  BY InitIInv, NextIInv, PTL DEF Spec

\* Every variable keeps its type: no step takes a top below zero or uses a
\* frame that is not there, even after an exception escaped.
THEOREM SpecTypeOK == Spec => []TypeOK
<1>1. IInv => TypeOK
  BY DEF IInv
<1> QED
  BY <1>1, SpecIInv, PTL

\* Localloc blocks of different frames never overlap, and no frame's stack
\* window reaches into one (AllocStackSlot / AllocLocalloc / LeaveFrame).
THEOREM SpecLocallocIsPrivate == Spec => []LocallocIsPrivate
<1>1. IInv => LocallocIsPrivate
  <2> SUFFICES ASSUME IInv, ~escaped, NEW i \in 1..Len(frames), NEW j \in 1..Len(frames)
               PROVE  /\ i # j => frames[i].locs \cap frames[j].locs = {}
                      /\ Window(frames[i]) \cap frames[j].locs = {}
    BY DEF LocallocIsPrivate
  <2>1. StackLayout(frames, stackTop) /\ PoolLayout(frames, poolBottom)
        /\ (poolBottom # -1 => stackTop <= poolBottom)
    BY DEF IInv, Layout
  <2>2. /\ frames \in Seq(Frame) /\ stackTop \in Nat /\ poolBottom \in Nat \cup {-1}
        /\ frames # <<>>
    BY EmptySeq DEF IInv, TypeOK
  <2>3. \A x \in 1..Len(frames) :
          /\ frames[x].oldPool \in Nat
          /\ frames[x].base \in Int /\ frames[x].size \in Nat
    BY <2>2, ElementOfSeq, FrameFields
  <2>4. ASSUME NEW x \in 1..Len(frames), NEW y \in 1..Len(frames), x < y
        PROVE  frames[x].locs \cap frames[y].locs = {}
    <3>1. /\ frames[x].locs \subseteq frames[y].oldPool .. (frames[x].oldPool - 1)
          /\ frames[y].locs \subseteq poolBottom .. (frames[y].oldPool - 1)
      BY <2>1, <2>4 DEF PoolLayout
    <3>2. \A a \in frames[x].locs : a \in Int /\ frames[y].oldPool <= a
      BY <2>3, <3>1
    <3>3. \A a \in frames[y].locs : a \in Int /\ a <= frames[y].oldPool - 1
      BY <2>2, <2>3, <3>1
    <3>4. \A a : a \in frames[x].locs => a \notin frames[y].locs
      BY <2>3, <3>2, <3>3
    <3> QED
      BY <3>4
  <2>5. i # j => frames[i].locs \cap frames[j].locs = {}
    <3>1. i < j \/ j < i \/ i = j
      OBVIOUS
    <3> QED
      BY <2>4, <3>1
  <2>6. Window(frames[i]) \cap frames[j].locs = {}
    <3>1. /\ frames[i].base + frames[i].size <= stackTop /\ stackTop <= poolBottom
          /\ frames[j].locs \subseteq poolBottom .. (frames[j].oldPool - 1)
      BY <2>1, <2>2 DEF StackLayout, PoolLayout
    <3>2. \A a \in Window(frames[i]) : a \in Int /\ a < stackTop
      BY <2>2, <2>3, <3>1 DEF Window
    <3>3. \A a \in frames[j].locs : a \in Int /\ poolBottom <= a
      BY <2>2, <2>3, <3>1
    <3>4. \A a : a \in Window(frames[i]) => a \notin frames[j].locs
      BY <2>2, <3>1, <3>2, <3>3
    <3> QED
      BY <3>4
  <2> QED
    BY <2>5, <2>6
<1> QED
  BY <1>1, SpecIInv, PTL

\* Every slot of every live frame is in the range the collector scans.
THEOREM SpecFramesAreScanned == Spec => []FramesAreScanned
<1>1. IInv => FramesAreScanned
  BY DEF IInv, Layout, StackLayout, FramesAreScanned
<1> QED
  BY <1>1, SpecIInv, PTL

\* The flow entries of different frames never share a slot of the table,
\* although a frame's second batch is only assumed to continue its first.
THEOREM SpecFlowRegionsAreDisjoint == Spec => []FlowRegionsAreDisjoint
<1>1. IInv => FlowRegionsAreDisjoint
  <2> SUFFICES ASSUME IInv, ~escaped, NEW i \in 1..Len(frames)
               PROVE  /\ frames[i].exCount <= frames[i].exCap
                      /\ \A s \in FlowRegion(frames[i]) : s < flowTop /\ s < FlowCap
                      /\ \A j \in 1..Len(frames) :
                           i # j => FlowRegion(frames[i]) \cap FlowRegion(frames[j]) = {}
    BY DEF FlowRegionsAreDisjoint
  <2>1. FlowLayout(frames, flowTop)
    BY DEF IInv, Layout
  <2>2. frames \in Seq(Frame) /\ flowTop \in Nat /\ FlowCap \in Nat
    BY SizeAssumption DEF IInv, TypeOK
  <2>3. \A x \in 1..Len(frames) :
          frames[x].flowMark \in Nat /\ frames[x].exCap \in Nat /\ FlowEnd(frames[x]) \in Nat
    BY <2>2, ElementOfSeq, FrameFields
  <2>4. \A x \in 1..Len(frames) : \A s \in FlowRegion(frames[x]) :
          s \in Int /\ frames[x].flowMark <= s /\ s < FlowEnd(frames[x])
    <3> TAKE x \in 1..Len(frames)
    <3> TAKE s \in FlowRegion(frames[x])
    <3>1. frames[x].exBase # NoFlow
      BY DEF FlowRegion
    <3>2. frames[x].exBase = frames[x].flowMark
      BY <2>1, <3>1 DEF FlowLayout
    <3>3. s \in frames[x].flowMark .. (frames[x].flowMark + frames[x].exCap - 1)
      BY <3>1, <3>2 DEF FlowRegion
    <3> QED
      BY <2>3, <3>3 DEF FlowEnd
  <2>5. \A x, y \in 1..Len(frames) : x < y => FlowEnd(frames[x]) <= frames[y].flowMark
    BY <2>1 DEF FlowLayout
  <2>6. ASSUME NEW x \in 1..Len(frames), NEW y \in 1..Len(frames), x < y
        PROVE  FlowRegion(frames[x]) \cap FlowRegion(frames[y]) = {}
    <3>1. FlowEnd(frames[x]) <= frames[y].flowMark
      BY <2>5, <2>6
    <3>2. ASSUME NEW s \in FlowRegion(frames[x]), s \in FlowRegion(frames[y])
          PROVE  FALSE
      <4>1. s \in Int /\ s < FlowEnd(frames[x]) /\ frames[y].flowMark <= s
        BY <2>4, <3>2
      <4>2. FlowEnd(frames[x]) \in Nat /\ frames[y].flowMark \in Nat
        BY <2>3
      <4> QED
        BY <3>1, <4>1, <4>2
    <3> QED
      BY <3>2
  <2>7. \A j \in 1..Len(frames) :
          i # j => FlowRegion(frames[i]) \cap FlowRegion(frames[j]) = {}
    <3> TAKE j \in 1..Len(frames)
    <3>1. i < j \/ j < i \/ i = j
      OBVIOUS
    <3> QED
      BY <2>6, <3>1
  <2>8. /\ frames[i].exCount <= frames[i].exCap
        /\ FlowEnd(frames[i]) <= flowTop /\ flowTop <= FlowCap
    BY <2>1 DEF FlowLayout
  <2>9. \A s \in FlowRegion(frames[i]) : s < flowTop /\ s < FlowCap
    BY <2>2, <2>3, <2>4, <2>8
  <2> QED
    BY <2>7, <2>8, <2>9
<1> QED
  BY <1>1, SpecIInv, PTL

\* The frame an Execute works on is the one its next LeaveFrame pops.
THEOREM SpecExecuteOwnsTopFrame == Spec => []ExecuteOwnsTopFrame
<1>1. IInv => ExecuteOwnsTopFrame
  BY DEF IInv, Layout, GroupsNest, GroupsCover, ExecuteOwnsTopFrame
<1> QED
  BY <1>1, SpecIInv, PTL

\* A thread that is not in Execute has given all of its memory back.
THEOREM SpecIdleThreadHoldsNothing == Spec => []IdleThreadHoldsNothing
<1>1. IInv => IdleThreadHoldsNothing
  <2> SUFFICES ASSUME IInv, ~escaped, groups = <<>>
               PROVE  /\ frames = <<>> /\ stackTop = 0 /\ flowTop = 0
                      /\ poolBottom \in {-1, StackSize}
    BY DEF IdleThreadHoldsNothing
  <2>1. Layout /\ Len(frames) = 0 /\ frames \in Seq(Frame)
    BY DEF IInv, TypeOK, Layout, GroupsCover
  <2>2. frames = <<>>
    BY <2>1, EmptySeq
  <2> QED
    BY <2>1, <2>2 DEF Layout, StackLayout, PoolLayout, FlowLayout
<1> QED
  BY <1>1, SpecIInv, PTL
=============================================================================
