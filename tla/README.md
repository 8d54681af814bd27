# A TLA+ model of the hotc233 runtime

hotc233-unity lets a Unity player load and replace C# assemblies at run time.
The player is compiled ahead of time (il2cpp); the assemblies that arrive later
are run by an interpreter inside libil2cpp. This directory models the parts of
that runtime in which order, nesting, failure and sharing matter, checks them
with TLC on small instances, and proves with TLAPS, for all sizes, the memory
discipline of the interpreter, the lazy transform and its cache, the C# loader,
the references between assemblies, the monitors with the lock they implement,
the waitable objects and the pool of reverse P/Invoke wrappers.

`PROJECT.json` lists every component, run, mutant, finding, hazard and theorem,
and maps each definition to the source lines it stands for. In what follows
`H` is `src/Data~/Libil2cpp/2022-tuanjie/hotc233`.

## 1. The system

### Components

| Component | Source | State | Operations | What makes it correct |
|---|---|---|---|---|
| Interpreter machine state | `H/interpreter/Engine.{h,cpp}`, frame macros of `Interpreter_Execute.cpp` | per thread: evaluation stack (grows up), localloc pool (grows down from its end), frame table, exception-flow table | enter/leave a frame, localloc, push/pop a flow entry | memory of live frames never overlaps, is scanned by the collector, and is all given back |
| Exception delivery | macros at `Interpreter_Execute.cpp:4660-4892`, catch block at 20084; lowering in `H/transform/TransformContext.cpp:7338-7409` | flow entries of each frame, Execute's locals `imi`, `ipBase`, `ip` | throw, rethrow, leave, endfinally, endfilter, search, unwind | finallys run, handlers catch what their try raised, the search ends |
| Lazy transform and body cache | `H/interpreter/InterpreterModule.cpp:2638`, `H/transform/Transform.cpp`, `H/metadata/MethodBodyCache.cpp` | `interpData` per method, metadata lock, nested contexts, body cache with versions and counts | lookup, transform, inline, judge, evict, publish | one transform per method, no body freed in use, failures are remembered, requests end |
| Hot-update loader | `src/Runtime/HotUpdateBinaryLoader.cs` | assembly list, type/method/delegate caches, table name -> (assembly, hash) | Load, Reload, Replace, InvokeStatic, CreateStaticDelegate | cached answers are current, a hotfix stays in effect, list and runtime agree |
| Runtime assembly loading | `H/metadata/Assembly.cpp`, `vm/MetadataCache.cpp`, `vm/Assembly.cpp` | placeholders, registered assemblies, snapshot of the list | LoadFromBytes (Create, register, module initializer), lookup by name | nothing half-built is found by name |
| Assembly references | `H/metadata/Image.h:133-174`, `vm/Assembly.cpp:29-67` | each image's table name -> assembly | bind at construction, scan on a miss | references are stable and current at load time |
| Image indices | `H/metadata/InterpreterImage.cpp:41-90`, `MetadataUtil.h:98-190` | next index per size class | allocate, encode, decode | encodings never collide, nothing is refused while there is room |
| Reverse P/Invoke wrappers | `H/interpreter/InterpreterModule.cpp:60-153` | next free wrapper per signature | GetReversePInvokeWrapper | a wrapper serves one method with its own signature |
| Basic blocks and flow discovery | `H/transform/BasicBlockSpliter.cpp`, `TransformContext.cpp:1744-1791, 6600-6700, 11100-11400` | split offsets, pending flows with entry stacks, emitted blocks | split, visit, push a branch, find the next flow, relocate | the IR visits what the IL visits, with its values, under its handlers |
| Superinstruction fusion | `TransformContext.cpp:1900-5300`, 89 handlers in `Interpreter_Execute.cpp` | one block of IR | seven passes of peephole rules | same writes, same stack, same checks in the same order |
| Object monitors | `vm/Monitor.cpp`, `utils/ThreadSafeFreeList.h` | `obj->monitor`, owner, counts, pulse list, free list | Enter, TryEnter, Exit, Wait, TryWait, Pulse, PulseAll | mutual exclusion; nobody sleeps on a free lock; Wait gives up and regains everything |
| Waitable objects | `os/Generic/{WaitObject,MutexImpl,SemaphoreImpl,EventImpl}`, `os/Posix/ThreadImpl.cpp` | count and waiter list of an object; semaphore and queued calls of a thread | Wait, Lock, Unlock, Post, Set, Reset, QueueUserAPC | no wake-up is lost, queued calls are handled |
| Homologous AOT metadata | `H/metadata/AOTHomologousImage.cpp` and its two subclasses | one image per AOT assembly | LoadMetadataForAOTAssembly | registered at most once |
| Call caches | `H/interpreter/Interpreter_Execute.cpp:4408-4520` | thread-local and static cache entries | lookup, store | an entry answers only for its own key |
| Opcode semantics, instruction selection | rest of `Interpreter_Execute.cpp`, `TransformContext*.cpp` | stack slots | about 1,000 opcodes | same result as CIL |
| Metadata, layout, vtables, PDB | `H/metadata/*` | tables read from a DLL | parse, lay out, resolve | ECMA-335 |
| Load policy | `src/Runtime/Hotc233LoadPolicy.cs` | keys, hashes, allowed names | Apply | a binary is checked before it is loaded |
| Editor pipeline | `src/Editor/**` | files | generate bridges, strip, sort, build | load order respects references |
| il2cpp base, vendored | rest of `src/Data~/Libil2cpp` | - | - | Unity's code |

The last seven rows are not modelled; section 8 says why.

### How they interact

The host calls the C# loader. `Assembly.Load(bytes)` enters the runtime, which
builds an image under `g_MetadataLock`, binds its references, registers it and,
after releasing the lock, runs its module initializer: hot-update code, in the
interpreter, that may call the same loader. The first call of a method looks up
`interpData`; a miss takes the lock and transforms IL to IR, transforming small
callees inline. `Interpreter::Execute` runs the IR in frames of the thread's
`MachineState`; a native callee can call back into a nested `Execute` on the
same machine. Exceptions travel as flow entries inside one `Execute` and as C++
exceptions between nested ones. The host may change runtime options at any
time.

A transform splits the IL into blocks, visits them along the control flow,
emits IR, fuses neighbouring instructions of each block and relocates branches
and clauses. Native code enters interpreted methods through the wrappers of
`InterpreterModule`. Hot-update threads lock objects with `Monitor`, whose
semaphores, like every handle of the class library, are waitable objects; the
interpreter runs `lock` statements and `Thread.Interrupt` on top of both.

### What is hard here

Two structures growing towards each other in one array; entries allocated in
batches and returned in bulk; four kinds of handlers found by one single-pass
search that is suspended and resumed; exceptions raised while an exception is
being prepared; a double-checked lookup; a cache evicting what a caller holds a
reference to; a 16-bit counter; user code running in the middle of a load; an
assembly that stays registered after its load has failed; a monitor recycled to
another object while threads still refer to it; a wake-up given to a thread
that has just timed out; code merged or moved across a write of a slot it reads;
and tables that hand out and never take back. Each is a hazard in `PROJECT.json`
with its line and the properties that watch it.

## 2. Modules

| Module | Models | Proofs |
|---|---|---|
| `MachineState` | the four arrays of one thread and all nested activations of Execute | `MachineState_proofs` |
| `ExceptionFlow` | one activation of Execute: lowering, search, handlers, unwinding | `ExceptionFlow_proofs` |
| `LazyTransform` | all threads, the metadata lock, the body cache | `Transform_proofs` |
| `BlockTransform` | one method body from IL to relocated IR, then both run side by side | `BlockTransform_proofs` |
| `PeepholeFusion` | one block through the seven passes | `Transform_proofs` |
| `HotUpdateLoader` | the C# loader over the runtime's registration and lookup | `HotUpdateLoader_proofs` |
| `AssemblyReferences` | the runtime's list, its snapshot and every image's bindings | `ProcessTables_proofs` |
| `Lists` | a table with an entry added, a list without some of its elements; used by the three above | in `HotUpdateLoader_proofs`, `ProcessTables_proofs` |
| `ImageIndex` | the indices of images and their encoding | `ProcessTables_proofs` |
| `ReversePInvoke` | the pool of wrappers | `ProcessTables_proofs` |
| `ObjectLock` | what `System.Threading.Monitor` promises a C# program | |
| `ObjectMonitor` | how libil2cpp implements it; refines `ObjectLock` | `ObjectMonitor_proofs` |
| `WaitObject` | mutexes, semaphores, events, timeouts, queued calls | `WaitObject_proofs` |
| `MC*` | instances of the above for TLC; `MCProcessTables` takes the two tables together | |

An operator commented `mutant:` is not used by its specification: it is the same
operator with a plausible bug, and `PROJECT.json` says which property notices
when it takes the original's place.

### MachineState

`stackTop`, `poolBottom`, `frames`, `flowTop`, `flowCount` are the fields of
`MachineState`; -1 stands for an array not yet allocated. `groups` are the live
`InterpFrameGroup`s. `phase` says where the innermost Execute is: in its
dispatch loop, with a C++ exception flying to its catch block (`raise`), or in
the handler search inside its try (`throw`) or its catch block (`catch`). The
distinction matters: when the flow table is full, the allocator's exception is
caught by the same Execute in the first case and leaves it in the second.

One action is one frame macro with every allocator call in it, including the
failure after some of them (`EnterFrame` takes its slots before it finds the
frame table full). What the program computes is open: any instruction may
follow any other. History: a frame's `size`, `locs` and `flowMark`, used only by
the properties. `escaped` records that an exception has left a catch block; the
safety properties are stated up to that point, because the code gives up its own
invariant there (section 5).

Left out: the fast paths that run a whole method without a frame, and the stack
of executing images, a C++ scope object.

### ExceptionFlow

Bodies are sequences of instructions of length one, so IL and IR offsets
coincide; `Op` stands for every instruction without control flow. The clause
table is as the compiler emits it: the regions of a clause are apart, they nest,
inner clauses come first, and only catches share a try block
(`ClauseAssumption`, ECMA-335 II.19). The code is verifiable IL
(`CodeAssumption`, III.1.7.5): what is not a leave, endfinally or endfilter stays
in its handler, `ret` is in no try block, endfinally and endfilter end the
innermost handler and filter, control enters a handler only by an exception or
a leave. The runtime checks none of this; it loads what a C# compiler
produced. The actions `Search*` are the turns of the loops in
`FIND_NEXT_EX_HANDLER_OR_UNWIND`; `Leave` includes the choice `Add_leave` makes
at transform time.

The code departs from the CLI in five known ways, and the model records each
when it happens (`departures`), so that a property can hold outside of exactly
those:

| Departure | Where | What happens |
|---|---|---|
| `abandoned` | `Interpreter_Execute.cpp:4713` | a handler is entered outside the handler the entry below belongs to (a finally that throws); the entry stays |
| `leaked` | `TransformContext.cpp:7384` | a leave from a try inside a catch is a plain branch; the Catch entry stays |
| `misplaced` | `Interpreter_Execute.cpp:4767` | the caller is searched at its return address, on the other side of a region's boundary |
| `foreign` | `Interpreter_Execute.cpp:4319` | `imi` is the callee's when entering the callee raises |
| `faultSkipped` | `TransformContext.cpp:7401` | `throw` starts its search behind a fault clause |

Resuming an exception across nested Execute activations is `MachineState`'s part.
`IL2CPP_ASSERT` expands to nothing in the default build (`il2cpp-config.h:133`,
`:626`), so execution goes on where one would fail: after `abandoned` or `leaked`,
a rethrow raises whatever exception the top entry has, an endfinally that finds a
Catch entry continues it like a leave to the method's start, and an endfilter
searches on with a Leave entry. What ends the process (`aborted`) is the null
that follows: an entry that is not there, or the null exception of a Leave entry
(`SearchNull`, `Rethrow`, the last frame of `SearchUnwind`).

### LazyTransform

A thread is idle, waiting for the lock, building, finishing or running a
published transform. `contexts` are the lock holder's `TransformContext`s,
outermost first, each at a call site. The body cache is a function from tokens
to (version, count, verdict); `Touch`, `Judge`, `Shrink` are the operations of
`MethodBodyCache.cpp` in the order the transform calls them. The lock is
reentrant in the code; nothing in this path takes it twice with effect. Small
bodies, barriers by name and whole-method kernels are sets (`Small`, `Barred`,
`Kernels`). Options change at any step. `wrapped` and `refused` are history.

### HotUpdateLoader

`objects` are all `Il2CppAssembly`s ever made, `registered` the runtime's list.
`calls` is the stack of active loader calls, because initializers call the
loader again; `pending` is the assembly whose initializer runs. Every point at
which a call can be left by an exception is an action: `Refuse` (policy, empty
or bad binary), `CreateRaises` (metadata that refers to something missing; a
placeholder is half-built by then), `InitializerRaises`. Equal SHA-256 means
equal binaries. The method and delegate caches are one function. The catch
clause for `reloading placeholder assembly` in `LoadOrReuseHotUpdateAssembly` is
not modelled: this runtime never raises that message.

### AssemblyReferences

The runtime's list seen from inside: `registered`, the copy-on-write
`snapshot` with its version test (`stale`), and the `bindings` of every image.
It shares the notions of placeholder and registration with `HotUpdateLoader`
but neither uses the other: the loader resolves types in its own list and the
runtime's by-name lookup goes newest-first, while an image binds names at
construction and scans oldest-first afterwards.

### BlockTransform

`Programs` are bodies of IL, instructions abstracted to what the transform's
control depends on: whether they push or pop, branch, end a flow, or leave a new
object on top. Byte offsets are positions. The actions follow `phase`:
`SplitBasicBlocks`, then `Header` (the blocks and the prologue), one `Clause`
per exception clause (the flows of its handlers), one action per kind of
instruction the loop meets (`ReachVisited`, `Work`, `Push`, `Skip`, `Branch`,
`Leave`, `CondBranch`, `FoldedBranch`, `Switch`, `Stop`), then one `PlaceBlock`
per block, which gives it its `codeOffset`, and `Relocate`. `Verifiable` says
what a body is (`VerifiableAssumption`): the transform trusts that depths agree
and that control stays in the body, as il2cpp does. `Run` and `Raise` are not
the program: they run the IL and the emitted code together, and that they stay
together is what "translated correctly" means. A `leave` goes straight to its
target there; that finallys run on the way is `ExceptionFlow`'s matter.

`stale` records the one departure: `brtrue`/`brfalse` are folded when the last
instruction emitted into the block makes a new object
(`TransformContext.cpp:6678`), which need not be the value on top of the stack:
`new; pop; brtrue` decides the branch on an object that is gone. The compilers
do not emit this, and the properties exempt the runs in which it happened. Two
harmless oddities are in the model as well: a rethrow is added twice (11158,
11161), and a method that branches to its offset 0 gets its prologue in a block
of its own.

### PeepholeFusion

A slot is an integer, negative for the arguments and locals (`Locals`, and
`Stored` for those the blocks store to), an opcode the sequence of primitive opcodes it is named
after, and a block is executed with symbolic values; so two blocks with the same
outcome agree for all values. `Rules` are the rules of the passes in their
order, with the conditions on operands and the rewrites that move a reader from
a dropped copy to its source. `Unchecked` lists the null checks that fused
handlers leave out (`Ldind`/`Stind` inside fused forms, the `ldlen`-`blt` forms
at `Interpreter_Execute.cpp:5516, 5741, 5867`): a null there is a memory access
the handler does not guard, where the unfused code raises
NullReferenceException. `DoublesElement` is the shape `a[i] + a[i]` by a dup, for
which the fused increment (2696) reads the addend from a slot nothing filled;
the comment at 1937 names the same danger for other rules.

Met on the way: six rules of pass 2 (3719, 3768, 3796, 4097, 4123, 4380) can only
match what passes 3 and 4 produce and those passes repeat them, and 4093, 4817,
4951, 5007 and 5122 were never seen to fire on a block built from IL. The
call-trace folds (5299-6052), the `RegI32` lowering and
`ApplyOioCopyPropagation` (2559, never called) are not modelled.

### ImageIndex and ReversePInvoke

`ImageIndex` is `AllocImageIndex` and the functions of `MetadataUtil.h`, with the
sizes of the fields as constants (`Rows` is `1 << kMetadataIndexBits`); that they
are powers of two is not used beyond each being a multiple of the last. An index is never given back, also when the load
fails (`Assembly.cpp:116`). `MaxRow` keeps the product `dllLength * 4` to the
word: from 1 GiB on it wraps and a class with too few rows is chosen, hence
`Sane`.

`ReversePInvoke` has the two sections under the lock as separate actions of each
thread; the wrappers are a constant sequence of signatures. The map
`s_methodInfo2ReverseInfos` is keyed by the method alone, so a method marshalled
under a second calling convention gets the first one's wrapper: `OneConvention`
is the condition of that half of `WrappersServeTheirMethod`.

### ObjectLock and ObjectMonitor

One action of `ObjectMonitor` is one access of a shared word; `thread[t].pc` is
where the thread is in `TryEnter`, `Exit` or `TryWait`. `Run(t)` are the steps a
thread takes by itself, `Program(t)` the calls, `Disturbance(t)` timeouts,
interrupts and aborts. `program` is chosen at the start and says what the threads
may do, so that one run covers several mixes without their product. `Lock` is
the refinement mapping: an object is held by the thread that *believes* it holds
it, which is what a C# program sees; `ImplementsLock` says that under this view
only the steps of `ObjectLock` happen.

The code departs from it in six places, each the reason of a condition in a
property or of a program that is not in the run:

| Where (`vm/Monitor.cpp`) | What happens |
|---|---|
| 465 | the last attempt of a timed-out TryEnter does not compare obj->monitor again after acquiring: recycled meanwhile, it is another object's monitor (the condition asserted at 469 is false) |
| 361 | a thread that acquired a recycled monitor by mistake backs out without looking whether somebody went to sleep on it |
| 463 | the owner leaves the object inflated for a waiting thread that then times out: it stays inflated until the next use |
| 385 | the same leak when a stale thread is counted in a monitor of another object |
| 291 | an aborted thread calls Exit for a lock it never got: it gives up the owner's lock, or undoes one of the owner's recursive locks |
| 657 | an interrupt while Wait takes the lock again leaves Wait without it |

### WaitObject

Code under an object's lock is one step up to the next access of a word read
without it. A thread is outside, at the checks before the lock, waiting for the
lock, registered, blocked on its own semaphore, or relocking. `timedOut` is set
when the timed wait ends, before the object's lock is taken again: between the
two, `WakeupThreads` (`WaitObject.cpp:123`) may pick the thread, which then
returns kWaitStatusTimeout without passing the signal on, and the other waiters
of a free mutex sleep on. A call that throws at line 138 loses a wake-up in the
same way. The programs of the run keep timeouts and interrupts to events, where
one waiter more or less does not matter.

## 3. Runs

| Run | States | Shows |
|---|---|---|
| `machine_state` | 928,924 | calls, localloc, flow entries, returns and exceptions of nested Execute activations on one thread keep the four stacks apart and give everything back |
| `exception_flow` | 534,615 | nested protected regions deliver each exception to the handler that protects the raise, every finally runs, and the search ends |
| `fault_skipped` | (stops at the counterexample) | a fault clause directly around the throw is skipped (section 5) |
| `lazy_transform` | 747,756 | three methods that inline each other, two threads, evictions and changed options: no body in use is freed, callers agree, a refusal is remembered |
| `lazy_transform_ends` | 147,888 | every request for a method body ends, under the fairness below |
| `hot_update_loader` | 2,326,764 | loads, reloads, hotfixes and rollbacks with module initializers that call the loader again: cached answers are current and list and runtime agree |
| `assembly_references` | 65,298 | what a reference by name is bound to, for every order of loading |
| `object_monitor` | 1,709,006 | two objects, pooled monitors, timeouts, interrupts and aborts: a lock excludes, nobody sleeps on a free one, and the monitors implement `ObjectLock` |
| `wait_object` | 82,250 | mutexes, semaphores and events with queued calls: no wake-up is lost, what is available is taken, queued calls are handled |
| `fusion` | 106,384 | every block the peephole rules were written for: the fused block does what the plain one does |
| `block_transform` | 104,199 | all small method bodies: splitting, visiting and relocating keep the control flow, the values and the protected regions |
| `process_tables` | 85,527 | image indices and reverse P/Invoke wrappers are handed out once, to the right owner, until they are really used up |

### Bounds, and why they are enough

- `machine_state`: 5 stack slots, methods of 1 and 2 slots, 3 frames, 8 flow
  entries, 2 activations, localloc of 1 or 2. Every limit is hit with the others
  still free and together; two batches of three flow entries fit and a third
  does not, so a frame's second batch and a refused one both occur. The theorems
  remove these bounds.
- `exception_flow`: 3 frames, 4 entries per frame, two exceptions of which a
  handler catches one, or both. Filters may raise inside. Two levels suffice for every test the code makes
  (it compares a clause with the entry below), the third gives those tests
  something on both sides. 4 entries are exceeded by a looping `leave`.
- `lazy_transform`: the count wraps at 8 (4 for liveness) instead of 65536 and
  the minimal interval is 2 instead of the code's constant. Both stay parameters
  and the assumption `CountWrap > 3` is what keeps one request from wrapping a
  fresh entry. One transform may fail; two failures of one request add no new
  state of the cache.
- `hot_update_loader`: four assembly objects, three listed, calls nested twice.
  Two versions of a name and a third assembly that defines a type of the same
  name are the least in which every lookup has a wrong answer to give. Deadlock
  is checked: with the bounds used up a call can still be refused or return.
- `assembly_references`: six objects: one AOT assembly, one placeholder and four
  loads.
- `object_monitor`: three threads (the holder, one that waits, one that comes
  late), two objects, three monitors, one per thread: a monitor can be on the
  list, on the other object, or still read by a stale thread, all at once. Two
  recursive locks, also with an aborted thread that exits a lock which its owner
  holds once or twice. Tokens saturate at one: a second token wakes nobody else
  while the first is unused.
- `wait_object`: three threads on one object without timeouts, so that a wake-up
  has a wrong thread to go to; two threads and one queued call where calls and
  timeouts come in.
- `fusion`: every block a rule was written for, the folds with what follows
  them, and pairs of short idioms between which a rule also matches; every
  operand assignment a compiler can give them over two locals, one of them
  stored to, and a stack of up to five values. No rule looks further than six
  instructions.
- `block_transform`: all verifiable bodies of up to four instructions over three
  alphabets and of five over one; two values on the stack; one clause of each
  kind at the start of the method or behind it. Longer bodies repeat what these
  do, because the loop looks at one instruction and one block.
- `process_tables`: 3 + 4 bits instead of 22 + 8, shifts 3, 2, 1, 0 instead of
  6, 4, 2, 0: every class fills up, spills into the next, and the last index of
  the smallest class would encode as kInvalidIndex. Two threads, four methods,
  two conventions, two wrappers of one signature. The tables share no state, so
  runs in which both move are left out.

### Fairness

- `ExceptionFlow`: `WF(Search)`. The search is a loop of the running thread with
  no call into the program; nothing else is assumed to make progress, since the
  program may loop.
- `LazyTransform`: `WF(Transform(t))`, the same argument for a thread inside the
  lock, and `SF(Acquire(t))`: the metadata lock is an OS mutex, which other
  threads may take in between but which lets every waiter in eventually. Weak
  fairness would not do, as the lock is not continuously free.
- `WaitObject`: `WF(Run(t))`, threads inside the code are scheduled;
  `SF(Lock(t))` and `SF(Relock(t))`, an object's lock is an OS mutex; `WF(Unlock(t))`:
  a program does not keep a mutex for ever. The fairness is stated on `state`,
  the variables without the choice of `program`. No fairness of Post, Set or of
  timeouts.
- The other modules state safety only; a thread may stop anywhere.

## 4. Properties

- `LocallocIsPrivate`, `FramesAreScanned`: stack windows and localloc blocks of
  different frames are disjoint, and everything a frame may use is below the top
  the collector scans. A callee's window starts inside its caller's, a failed
  call keeps its slots until the caller leaves: the two are not obvious from any
  one macro.
- `FlowRegionsAreDisjoint`: the code extends a frame's region by a second batch
  without testing that it is adjacent to the first.
- `ExecuteOwnsTopFrame`, `IdleThreadHoldsNothing`: nested activations and
  unwinding pop exactly their own frames.
- `FlowsMatchHandlers`: while the program runs, the entries of each frame are
  the handlers around its instruction. `ClauseIndexInTable`: the unchecked
  subscript at 4715 is in range. `FinallyAlwaysRuns`, `HandlerProtectsRaise`,
  `SearchEnds` are what a C# programmer relies on.
- `BodiesInUseAreCached`: eviction never frees a body some context refers to.
  `CallersAgree`: the second test under the lock. `RefusalIsRemembered`,
  `RequestsEnd`: inlining that raises is not retried, recursion ends.
- `CachesAreCurrent`, `HotfixStays`, `LoaderFollowsRuntime`,
  `RuntimeFindsNoHalfBuilt`: see the comments; the last two name their
  exceptions (names whose initializer raised; placeholders).
- `ReferencesAreBuilt`, `LoadedAfterUsesNewest`, `LoadedAreListed`: what a
  reference by name may mean, and when.
- `InStep`, `SameValues`, `SameProtection`: the emitted code visits the
  instructions of the IL in its order, finds the values of the IL's stack in the
  slots its block was translated for, and lies in the same try blocks.
- `SameWrites`, `SameStack`, `SameChecks`: what a fused block does to the heap and
  the locals, leaves to the next block, and where it raises.
- `RefusedOnlyWhenFull`, `EncodedIndicesAreRecovered`: no index is lost, no two
  images share an encoding. `WrappersServeTheirMethod`, `OneWrapperPerMethod`,
  `TurnedDownOnlyWhenUsedUp`: a wrapper calls its own method, racing threads use
  up one, and the walk over a group stops at its end and not before.
- `MonitorsAreAccountedFor`, `HoldersOwn`, `NoSleepOnFreeLock`, `ImplementsLock`:
  a monitor is free and clean or in use; belief and ownership agree; somebody
  will wake a thread that sleeps on a free lock; and the whole is a lock.
- `FreeMeansNoOwner`, `NoLostWakeup`, `AvailableIsTaken`, `CallsAreHandled`: the
  same for the primitives below.

The type invariant of each module is a conjunct of one of its properties
(`ClauseIndexInTable`, `CallersAgree`, `InStep`, `SameWrites`,
`RuntimeFindsNoHalfBuilt`, `ReferencesAreBuilt`, `RefusedOnlyWhenFull`,
`WrappersServeTheirMethod`, `MonitorsAreAccountedFor`, `FreeMeansNoOwner`);
`MachineState`'s is only proved.

## 5. Findings

`fault_skipped` is a run that TLC ends with a counterexample. README.md:398 of
the repository lists iterators as supported; a `throw` directly inside an
iterator's try/finally, which compiles to a fault clause, skips the handler,
because the transform computes the start of the search without counting fault
clauses (`TransformContext.cpp:7401`) and the search at run time counts them.

Other disagreements between code and documentation were met while modelling.
Each is in the model as the code has it, with the assertions compiled out, and
the property it would break names it as an exception:

1. `Interpreter_Execute.cpp:20094` asserts that an exception leaves Execute with
   no frame in its group. With a full flow table the allocation inside the catch
   block (20088) raises out of it, and the frames stay on the thread's machine
   (`escaped` in `MachineState`).
2. `Interpreter_Execute.cpp:4787` asserts that a rethrow finds a Catch entry.
   After a finally that throws to a handler outside it, it finds the finally's
   abandoned entry (`departures` in `ExceptionFlow`), and without assertions
   raises that entry's exception, or dereferences its null.
3. The comment at `MethodBodyCache.cpp:94` promises reused bodies an extra
   interval; the 16-bit count (79) wraps and takes one away (`wrapped` in
   `LazyTransform`).
4. `HotUpdateBinaryLoader.cs:198` logs that resolution prefers the replacement;
   after a hotfix whose initializer raised, rolling back to the old bytes (204)
   reuses the old assembly, and lookup by name keeps the failed one (`stray` in
   `HotUpdateLoader`).
5. The six places of `vm/Monitor.cpp` and the two of `WaitObject.cpp` listed in
   section 2 (`OneObject` and the conditions on `program`).
6. A reload that is refused midway leaves the loader with a prefix of its list
   (`HotUpdateBinaryLoader.cs:173`); no document says what it should do.

## 6. What is proved

`MachineState_proofs` proves, for every stack size, capacity, method table and
nesting depth, `Spec => []P` for `TypeOK` and for each of the five invariants of
the run `machine_state`. The assumptions are `SizeAssumption` (sizes are natural
numbers, the frame table is not empty) and `MethodAssumption` (a method's
arguments fit its window).

None of the six is inductive: that a frame's window lies below the top after
LeaveFrame depends on what the frame *remembered*. The invariant `IInv`
therefore says how the remembered values of all frames are ordered:

- `StackLayout`: each frame's window ends below the stack top the next one
  remembers, and those tops ascend from 0;
- `PoolLayout`: remembered pool bottoms descend from the end of the array, and a
  frame's localloc slots lie between its own and the next one's;
- `FlowLayout`: each frame's region starts at its `flowMark` and ends where the
  next one starts, the last at `flowTop`: this is why a second batch is adjacent;
- `GroupsNest`, `GroupsCover`: activations own consecutive runs of frames;
- the stack top is at most the pool bottom.

The layouts are stated for an arbitrary frame table and top, so that each
operation is one lemma about them (`Popped*`, `Appended*`, `Pushed*`,
`Replaced*`) and `UnwindFrame`, which pops a frame and pushes an entry, composes
two. Then there is one lemma per action, `NextIInv`, and a few lines of temporal
reasoning per theorem. `GroupsNest` and `TypeOK` survive an escaped exception,
the layouts need not: the invariant has them under `~escaped`.

`ProcessTables_proofs` proves the three properties of the wrapper pool for any
number of threads, methods and conventions and any table of wrappers. It assumes
that the table is a sequence of signatures (`StubsAssumption`) and that the
generator writes the wrappers of one signature next to each other
(`GroupedAssumption`); without the second a walk stops at the neighbour although
a wrapper is free. The invariant has four parts besides the types: an index has
passed only wrappers of its own group (`InGroup`), the wrappers in use are
exactly those (`UsedInOrder`), `methodOf` and `wrapperOf` are inverse to each
other (`Paired`), and what was handed out is what `wrapperOf` says
(`HandedOut`). `Paired` is the reason why two threads in the second section use
up one wrapper; `UsedInOrder` with `InGroup` the reason why nobody is turned down
early. The existence of a group's first wrapper (`FirstOfGroup`) uses the
well-foundedness of < on the naturals.

The same module proves `RefusedOnlyWhenFull` and `EncodedIndicesAreRecovered` for
any sizes (`SizeAssumption`: steps divide the indices of a class and do not grow,
the smallest class has step one) and any lengths. The invariant says that the
indices in use are the multiples of each class's step below its counter
(`Handed`), that counters are such multiples (`Counters`) and that a class that
was full for a refused length is full (`FullFor`). Counting the first gives the
capacity of a full class. Decoding is two divisions: the encoded word is a
multiple of the words per class plus a smaller rest, and also a multiple of the
rows per index plus the row (`Encoding`). The reserved index 255 is why the
largest word is not `kInvalidIndex`. The module also holds the theorems of
`AssemblyReferences`, the third table that only grows (below).

### ExceptionFlow

`ExceptionFlow_proofs` proves `FlowsMatchHandlers`, `ClauseIndexInTable` and the
two action properties, from the two assumptions of section 2, for any methods,
clauses, exceptions, depth of calls and number of entries.

`FlowsMatchHandlers` speaks of running code only. What makes it inductive is what
holds of a frame in the middle of a search, and of one that waits at a call. The
one notion behind all three is `Fits(m, fl, o, n)`: every entry of `fl` stands
for a handler around `o` with a type that handler allows (`Listed`), indices
descend (`Descends`), and no handler around `o` behind clause `n` is without an
entry, except the catches a leave has popped (`Complete`). Then

- `AtRest`: running code's entries fit `ip` with `n = 0`, and each is `Settled`,
  its clause protects its throw offset;
- `InSearch`: the entries below the last fit the last one's throw offset, with
  `n` the clauses the search has passed. That is why the search can go on where
  a finally interrupted it: handlers with a smaller index are inside what it has
  passed;
- `Waiting`: a caller's entries fit its call, the instruction before the one it
  returns to.

An entry must also be `Known`: a Leave entry comes from a leave instruction, and
so continues with the finallys around that instruction and not around others.
The lemmas start with the geometry of clauses (`Apart`, `Inside`, `Outside`: which
regions can hold an offset together), then say what each operation on entries does
to `Fits`, wherever the code is; an action is one or two of these. The invariant
holds until a departure: `Fits`, and that a search is for an Exception entry,
until an entry is abandoned or leaked, the rest until `foreign`, after which
offsets are looked up in another method's tables and mean nothing. `ClauseIndexInTable` is proved in that form, so its conjunct
`TypeOK` after `foreign` is only model-checked.

`HandlerProtectsRaise` needs one more invariant: the throw offset an entry is
searched with lies in the same try blocks as the instruction that raised
(`Placed`); it fails exactly where `misplaced` is recorded. `FinallyAlwaysRuns`
needs `Pending`: during a search, every finally or fault around the last
instruction is still ahead of the search. The proved form, `FinallysRun`, holds
of each step from a state in which nothing was abandoned, leaked, foreign or
skipped; `FinallysAlwaysRun` is the property itself for executions that stay so.
After an abandoned or leaked entry TLC still finds the property true, but an
argument would have to say which entries can be left over.

### LazyTransform

The first part of `Transform_proofs` proves `BodiesInUseAreCached`,
`CallersAgree` and the action property `RefusalIsRemembered` for any threads,
methods, tokens, call sites and options. `SizeAssumption` has the one condition on sizes that matters:
the use count wraps at a number above three, as one call site touches an entry
three times. `FreeAssumption` says that no thread is the value for a free lock.
The invariant is `TypeOK`, `Agree`, `InUse` and `Barring`: a running thread runs
what is published for its method and nothing is published while its transform is
made; a body some context refers to was used in this version, at least once,
unless its count wrapped; a verdict on a body that raised is in the cache for the
rest of the request. `InUse` speaks of version and count because that is what
`Shrink` tests; the lemmas before it say what one touch, one verdict and one
fetch leave of an entry (`Used`, `Judged`).

### HotUpdateLoader and AssemblyReferences

`HotUpdateLoader_proofs` proves all four properties of its run for any binaries,
types, placeholders and batches and any nesting of calls. Besides these and the
types, the invariant says which objects can be a placeholder (`Objects`), that
exactly placeholders and completed loads are registered (`Registry`), that what
the loader refers to is loaded (`References`), and `PendingAreNewest`: until
another load of its name has overtaken it, the assembly whose initializer runs is
the one the runtime finds. Without the last, nothing says what the loader's
record will agree with when the initializer returns. `PlaceholdersAssumption`, no
name has two placeholders, is the check in
`Editor/BuildProcessors/FilterHotFixAssemblies.cs:40`, which fails the build when
an assembly is listed twice.

`ProcessTables_proofs` proves the three properties of `AssemblyReferences` from
the same assumption. That a table refers to the newest assembly compares two orders:
an image is bound to the *last of its name in the list*, the property speaks of
the *order of loads*. The invariant connects them: registered assemblies of one
name became usable in the order of their places (`LoadHistory`), and of two of
them only the first can be a placeholder whose build failed (`Registry`). Both
hold because a load goes either to the end of the list or to the placeholder that
has its name to itself (`Objects`). `Listing` says that the list handed out, as a
snapshot or a fresh copy, is the registered list without some of the assemblies
that are not usable, in the same order.

`Lists` has the two operators the loader and the references share. Both proofs
begin with what `Kept` returns: `Kept(s, S)` is a subsequence of `s` with exactly
the elements in `S` (`Picks` has the order-preserving map). It is defined by
counting and not by recursion, so that its properties can be proved without an
induction over sequences.

### BlockTransform

`BlockTransform_proofs` proves all three properties, `Spec => []InStep`,
`SameValues` and `SameProtection`, for every set of verifiable bodies, of any
length, with any clauses and any choice of branches: a translation-correctness
theorem for the transform's control. The argument has four stages, each an
invariant of one phase.

- *Context.* What verification gives once the splits are known: depths agree on
  every edge, a block ends where control may leave it, every target, handler and
  end of the body begins a block (`ContextHolds`).
- *The loop* (`Loop`). For each block the IR so far is described by the IL behind
  it (`Block`): in the order of the IL, each instruction has its own IR, or emits
  nothing and is `Quiet`, or lies in a `Window`, the stretch from a `new` to the
  branch folded on it, where the object stays on top and is never created.
  `NotGrown` is what makes a fold right: since the `new` the stack has not grown,
  so if the popped value is the object, nothing in between has used it. `stale`
  is the negation of that, which is why the properties are conditioned on it. A
  flow waiting in `pending` has a stack of the depth of its offset (`FlowOk`).
  `Coverage` says that whatever control can reach from what is translated is
  translated, waiting, or the block being entered: a block can be flagged
  `inPending` only for one of these reasons, and when `PopBranch` finds nothing
  every reachable block is visited.
- *Placing* (`Spread`, `Filled`): block by block, the code emitted so far is that
  of the placed blocks in order, and adjacent blocks touch. `Relocated` concludes
  `Result`: every instruction of every block is in the code with its targets
  moved to where the target blocks begin, the visited blocks are closed under
  control flow, and so are the handlers.
- *The run* (`Agree`): the emitted code is at the position of the IL or of what
  follows it in its block (`AtPos`), the slots have the values of the stack,
  except, inside a window, for the object that was not created. There is one lemma
  per kind of instruction (`NormalRuns`, `QuietRuns`, `WindowBegins`,
  `WindowRuns`, `WindowEnds`), one for the prologue and one for exceptions.

`SameProtection` follows from the order of the placed blocks (`Side`): the code
position is behind a split exactly when the IL position is, and the prologue has
a block of its own when offset 0 is a split (`AtPrologue`).

### PeepholeFusion

The second part of `Transform_proofs` proves `SameWrites`, `SameStack` and
`SameChecks` for any blocks of any length, any locals and any depth of the
evaluation stack at entry (`BlocksAreSequences`, `DepthIsNatural`,
`LocalsAreNegative`: a block is a sequence of opcodes, and the slots of locals are
not those of the stack). The run has the blocks the rules were written for; the
theorems have every block, those in which rules compete and those no test has.

Comparing the two outcomes of `Execute` is not inductive: what a pass makes of
the front of a block is executed with the rest of it. So the proof compares
*steps*, not results. `Alike` relates two machines that run side by side: the same
writes so far, the same values in the locals and in the slots still stacked, the
same checks but for those the handlers leave out. `Sim` says that one list of
steps takes such machines to such machines when another does, `Serves` that a
list of steps stands in this way for the lowered steps i to j and takes its own
from among them in their order. `Serves` composes (`ServesConcat`), hence a pass
is right if what it emits for each window serves for the steps it consumes
(`RunPass` is followed window by window, from the end of the block, `Onward`).
For a window there are these cases, and they are where the proof looks at the
handlers:

- a rule that merges keeps the steps and moves none (`Steps`): all of pass 2 to 7
  (`LaterPass`), and most of pass 1;
- `FoldSim`: an operation reads what its two operands are copies of; the copies
  fill slots that are no longer stacked behind it. The second copy must not read
  what the first wrote, which is the condition at 1938;
- `RedirectSim`: the same for the load behind a copy, used for the third of three
  copies and for the field of a copied struct;
- `IncrementSim`: the element increment keeps the loaded value and the sum in
  slot 0, which is nobody's; it needs that the addend is not the loaded element
  itself. `DoublesElement` excludes that for the whole block.

The invariant `FusionInv` is that the steps of the block serve for all of its
source, and that before the first pass it is the source as it was lowered; that is
needed because the rewrites of pass 1 are proved from how lowering assigns
operands (`Stacked`), which no later block has. The folds left over by a rewrite,
a first instruction that is not in the source any more, start no other rewrite of
the same pass (`FoldedNotSpecial`).

Induction over the length of a block is written with the least counterexample
(`Upward`, `Downward`), from the well-foundedness of < on the naturals, as the
induction theorems of the library are out of the provers' reach.

### ObjectMonitor

`ObjectMonitor_proofs` proves, for any threads, objects and monitors and any set
of programs, the types (`TypeCorrect`; the ready count of a monitor lies between
the threads counted in it and the number of threads, which needs
`ThreadAssumption`: threads are finitely many), `HoldersOwn` and from it mutual
exclusion, `NoSleepOnFreeLock`, `MonitorsAreAccountedFor`, and the refinement
`ImplementsLock`.

The inductive invariant is `InOrder`: `Basics` (types, counts, aborts) in every
program, and `Order` in the programs in which monitors keep their object. `Order`
says who owns a monitor at each point of the code and to whom it is installed,
that a monitor is either in use or free, once, and clean when it is free; a
thread that read a monitor earlier is covered because it can act on it only after
`Verify`. `NodesAreWaiting` and `SomebodyComes` are added for
`MonitorsAreAccountedFor`, the second for the programs without timeouts,
interrupts and aborts (`Endless`).

`MonitorImplementsLock` maps each step to a step of `ObjectLock` or a stutter, by
the threads' belief: `LockHolder` and `LockDepth` from the thread that has the
object (`Has`, `DepthOf`), `LockWaiting` from the threads inside Wait. It needs
`Promises` (who is signalled waits, and a Wait ends for a reason the program
allows) and assumes that every program is `Tame`: either it aborts threads, and
then the lock promises nothing (`mayAbort`), or its monitors keep their object
and no thread is interrupted while Wait takes the lock back. The remaining
programs are those of the rows 465 and 657 of the table in section 2, for which
the refinement is false.

### WaitObject

`WaitObject_proofs` proves `FreeMeansNoOwner` for any threads, objects and
programs; `NoLostWakeup` for the programs that are `Patient`; and that nobody
sleeps on a set event, in any program (`NobodySleepsOnSetEvent`). The kinds of
objects are disjoint (`KindAssumption`). The invariant has the types, what each
place in the code says of the object (`Places`), that an object's list has
exactly the threads that are blocked or relocking (`Lists`), the counters of
queued calls (`Calls`), a mutex's three words (`Owners`), and two forms of
"somebody looks": `EventsWakeAll`, because Set wakes the whole list, and `Served` for mutexes and
semaphores. `Served` is an invariant only under `Patient`: waits for mutexes and
semaphores have no timeout and are not interrupted. `WakeupOneThread` gives its
one wake-up to the head of the list even if that thread has given up; this is the
first departure of section 2, and with it the property is false.

## 7. What is only model-checked

- Liveness (`SearchEnds`, `RequestsEnd`, `AvailableIsTaken`, `CallsAreHandled`):
  fairness and ENABLED are beyond the proof system.
- `ExceptionFlow`: `FinallyAlwaysRuns` after an entry was abandoned or leaked, and
  `TypeOK` after `imi` was the callee's.

## 8. Plan and what is not modelled

Next, in this order:

1. **Abstractions.** `OnceCell`, publish-once, implemented by `LazyTransform` and
   by the lazy caches of `InterpreterImage` (738), which test twice around the
   same lock; `CliExceptions`, implemented by `ExceptionFlow` outside its
   departures.
2. **Algorithms** against reference definitions: `AssemblySorter`, field layout,
   the PDB search.

Not modelled: opcode semantics and the choice of opcodes (one-step data semantics
of two large languages); the call caches (each hit compares the whole key, so
what remains is one comparison per opcode); homologous AOT metadata and the
batch over it (`HotUpdateBinaryLoader.cs:123` stops at the first failure, and a
retry fails at the first binary that had succeeded); metadata parsing, layout
and PDBs (sequential functions of a file); the load policy beyond its verdict;
unvalidated sizes in `RuntimeConfig.cpp:43` (the machine's sizes are natural
numbers here); the editor's file pipeline; the diagnostics and acceptance-test
harness; and the vendored il2cpp runtime beyond monitors, waitable objects and
the functions the loader calls.
