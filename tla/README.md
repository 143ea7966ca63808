# A TLA+ model of the Lambdachine virtual machine

Lambdachine runs Haskell programs compiled to a register bytecode. The C++ part
(`vm/`) is an interpreter with a copying garbage collector and a tracing JIT
compiler for x86-64. This directory holds TLA+ modules for the parts of the VM
whose correctness depends on the order of many steps, TLC configurations that
check them on small instances, and TLAPS proofs of the main results for all
instances.

## 1. The system

### Components, their state and operations

| component | sources | state | operations |
|---|---|---|---|
| block allocator | `memorymanager.cc` (`Region`, `grabFreeBlock`, `blockFull`) | regions, `free_`, `region_`, block flags | take a block from the free list or a region, ask the OS for a region |
| heap and collector | `memorymanager.cc` (`performGC`, `evacuate`, `scavenge*`) | `closures_`, `old_heap_`, `nextGC_`, `kScavenged` flags, the mutator's bump pointer | allocate, overflow, collect |
| large objects | `memorymanager.cc` (`allocLarge`, `evacuateLarge`, `scavengeLarge`, `sweepLargeObjects`), `objects.hh` (`LargeObject`) | the regions of large objects, `largeObjects_`, `evacuatedLargeObjects_`, the mark of each object | allocate, evacuate; (scavenge, sweep: unused) |
| info tables | `memorymanager.cc` (`allocInfoTable`, `begin/endAllocInfoTable`) | protection of the info-table blocks | allocate, unprotect, protect |
| interpreter | `capability.cc` | thread stack (`base`, `top`, frames), `pc`, `static_roots_`, dispatch table | one handler per bytecode, `generic_apply`, `interpBranch` |
| JIT driver | `jit.hh`, `jit.cc`, `capability.cc` | hot counters, recorder state, fragments, `JFUNC` patches | count, start, record, abort, finish, enter a fragment |
| trace recorder | `jit.cc` (`recordIns`, `recordGenericApply2`), `ir.hh` (`AbstractStack`, `CallStack`, `BranchTargetBuffer`) | abstract stack, call stack, branch targets, snapshots, IR buffer | record one bytecode, detect loops, take a snapshot |
| IR buffer and optimiser | `ir.cc`, `ir_fold.cc` | instructions, literals, heap entries, chains | emit, fold, CSE, heap-check merging |
| assembler | `assembler.cc`, `machinecode.cc` | register allocation, spill slots, machine-code area | allocate registers backwards, parallel assignment, exit stubs, patch |
| trace exit | `amd64/fragment.cc`, `jit.cc` (`restoreSnapshot`) | exit state, stack, heap pointer | restore the interpreter's state, heap-check failure |
| loader | `loader.cc`, `miscclosures.cc` | modules, symbol tables, info tables, closures | load modules and dependencies, resolve forward references |
| old virtual machine | `experiments/old-vm` | thread, `JitState`, fragments | interpret, record, optimise, interpret a trace, leave it |
| thread | `thread.cc` | one stack of fixed size | create, destroy |

The VM is single-threaded: one `Capability` runs one `Thread`. The difficulty is
in interleaving of a different kind. The collector moves every object under the
interpreter's feet at any allocation; compiled code, the interpreter and the
recorder take turns on the same stack and heap pointer; several handlers are
resumed after a collection with values read before it.

### How components interact

* An allocating bytecode bumps `heap`. When the block is full it calls
  `bumpAllocatorFull`, which takes a block or runs the whole collector
  (`performGC`), which reads and rewrites the stack and the static roots.
* `UPDATE` writes an indirection over a thunk; for a CAF it also links the
  closure into `static_roots_`, the collector's second root set.
* `interpBranch` counts branch targets, starts the recorder, or enters a
  compiled fragment. The recorder sees each bytecode before it is executed. A
  finished trace becomes a `Fragment`; a `FUNC` becomes a `JFUNC`.
* A failing guard leaves the fragment through an exit stub; `restoreSnapshot`
  writes the interpreter's stack from the exit's registers and spill slots. A
  failing heap check first tries to take a block without collecting.

### What is hard

* object movement at every allocation (stale pointers in C++ locals);
* the termination and completeness of the scavenging loop, which allocates
  into the blocks it scans;
* lists threaded through objects that the collector rewrites while walking;
* partial application and over-application, which copy frames in place;
* the recorder's abstract state and the interpreter's stack staying in step;
* counters at their limits, exits at the last stub, negative slots.

### Properties that make each component correct

* Heap and collector: no reference reachable by the program leads to a freed
  block, an unused cell or a forwarding pointer; no closure is duplicated (a
  thunk evaluated once stays evaluated for everybody); no block is on two
  lists; a collection ends; and, above all, the program cannot tell that a
  collection happened.
* Large objects: every live object survives, list links stay consistent, freed
  regions are reusable.
* Interpreter: applying a function to any number of arguments by
  `generic_apply` means what currying means; no live value is lost when a
  handler is interrupted by a collection.
* JIT driver: at most one recording; a fragment is entered only at its own
  start; counters never start a recording at a place that cannot be recorded.
* Assembler: parallel moves equal simultaneous assignment; committed code
  is never overwritten; an exit stub identifies its exit; whatever the
  pressure on registers, an operand is where the code looks for it.
* Recorder and optimiser: an optimised trace does what the recorded instructions
  do, from every state it may be entered in; every snapshot restores the stack.
* Loader: when a load succeeds, every reference leads to what it names.
* Old virtual machine: a program has the same result with traces as without.

## 2. The modules

| module | models | of |
|---|---|---|
| `LazyHeap` | the heap as the program sees it (abstract specification) | - |
| `CopyingGC` | allocation, update and the copying collector | `memorymanager.cc`, `capability.cc` |
| `CopyingGCProofs`, `LazyHeapProofs` | theorems about `CopyingGC`: the invariants, the refinement of `LazyHeap` | - |
| `PartialApp` | an allocation that goes on after a collection | `capability.cc` (`generic_apply`) |
| `EvalApply` | calls, evaluation and returns as an eval/apply machine (abstract specification) | - |
| `GenericApply` | the same on the interpreter's stack of words | `capability.cc`, `miscclosures.cc`, `thread.cc` |
| `GenericApplyProofs` | theorems about `GenericApply`: its invariant, the refinement of `EvalApply` | - |
| `LargeObjects` | allocation and evacuation of large objects | `memorymanager.cc`, `objects.hh` |
| `RuntimeProofs` | theorems about `LargeObjects`, `Instructions`, `Loader` and `MiscClosures` | - |
| `Storage` | regions, blocks, protection of info tables | `memorymanager.cc`, `memorymanager.hh` |
| `StorageProofs` | theorems about `Storage` | - |
| `Loader` | modules and forward references | `loader.cc` |
| `MiscClosures` | closures and pointer maps the machine makes for itself | `miscclosures.cc`, `memorymanager.cc` |
| `Instructions` | instructions as their readers decode them; conditions | `bytecode.hh`, `bytecode.cc`, `capability.cc`, `jit.cc`, `assembler.cc` |
| `TraceJit` | interpreter, recorder and fragments taking turns | `capability.cc`, `jit.cc`, `jit.hh`, `assembler.cc` |
| `TraceJitProofs` | theorems about `TraceJit`, `IRLiterals` and `LoopFilter` | - |
| `LoopFilter` | the recorder's call stack and the search for loops | `ir.cc`, `jit.cc` |
| `TraceRecord` | abstract stack and snapshots | `jit.cc`, `ir.cc`, `ir.hh` |
| `IRLiterals`, `IRFold` | the literals of a trace; folding, CSE, heap checks | `ir.cc`, `ir.hh`, `ir_fold.cc` |
| `RegAlloc` | register allocation and the code of each IR instruction | `assembler.cc`, `assembler.hh` |
| `ParAssign` | the moves at the entry of a side trace | `assembler.cc`, `jit.cc` |
| `ParAssignProofs` | theorems about `ParAssign` | - |
| `MachineCode` | exit stubs, traces and bridges in the code area | `machinecode.cc`, `assembler.cc` |
| `X86Encode` | the encoding of operands | `assembler.cc` |
| `AssemblerProofs` | theorems about `MachineCode`, `X86Encode` and `RegAlloc` | - |
| `TraceFrame` | the assembly around compiled code | `amd64/fragment.cc` |
| `OldInterp`, `OldRecord`, `OldOptimise`, `OldTrace` | the first tracing virtual machine | `experiments/old-vm` |
| `MC...` | instances for TLC | - |

`PartialApp` extends `CopyingGC`; `CopyingGC` instantiates `LazyHeap`
and `GenericApply` instantiates `EvalApply` for the refinements. `IRFold` extends
`IRLiterals`, `TraceRecord` extends `LoopFilter`, and the old virtual machine is the
chain `OldInterp`, `OldRecord`, `OldOptimise`, `OldTrace`.

`MCRecorder`, `MCBackend`, `MCRuntime` and `MCTraceJit` put together modules of one
subsystem: the variable `part` says which of them is at work in a behaviour, and the
others rest. The modules do not share state there; one run checks them all.

### LazyHeap

The graph of closures by identity: `New`, `Follow`, `Assign`, `Enter`,
`UpdateThunk`, `UpdateCaf`, and one step of the storage manager, `Collect`, which
may forget closures nobody refers to. It has no addresses, no blocks, no
indirections.

### CopyingGC

Memory is a function from addresses (block, position) to closures. The
correspondence with the code:

| variable | code |
|---|---|
| `mem`, `free` | block contents, `Block::free_` |
| `closures`, `old_heap`, `free_list` | the lists `closures_` (oldest first), `old_heap_`, `free_` |
| `scavenged` | flag `kScavenged` |
| `heap` | the interpreter's `heap` pointer, relative to the newest block |
| `nextGC`, `num_gcs` | `nextGC_`, `num_gcs_` |
| `root` | live slots and frame nodes of the stack (`Null`: dead by the liveness mask) |
| `caf`, `static_roots` | payload(0) of CAFs, list `static_roots_` |
| `phase`, `todo`, `k`, `pos`, `fld` | where `performGC`, `scavengeStack`, `scavengeStaticRoots` and `scavengeBlock` are |

The mutator's actions are `Alloc`, `LoadField`, `SetSlot`, `FollowInd`, `Update`
and `BumpAllocatorFull`. A collection is `StartGC`, one `EvacRoot` per live slot
(in any order), `StackDone`, one `EvacCaf` per static root, `StaticDone`, and then
the loop over blocks: `PickBlock`, `ScavengeField`, `NextClosure`,
`BlockScavenged`, and `FinishGC`. `evacuate` is `Evacuate`/`EvacMem`: one round of
its loop per step, so following an indirection is a step of its own.

Closures have different sizes. The model counts closures rather than bytes and
lets a non-empty block be too full for the next closure at any time, which
includes every placement the sizes can cause. Blocks are handed out in an
arbitrary but fixed order.

### PartialApp

Every allocating bytecode is executed again from its start after a collection,
with one exception: a call with too few arguments allocates a PAP in the middle
of `generic_apply` and goes on. `PartialApp` adds the C++ local `fnode` to
`CopyingGC`: `Enter` reads it from the frame, `Overflow` is the allocation loop
with any number of new blocks and collections, `InitPap` stores it.

### EvalApply and GenericApply

`EvalApply` has a current function with its locals, a stack of continuations
(`case`, `apk`, `upd`) and the values of updated thunks; application to too
few, enough and too many arguments are three cases of one step. A program is any
sequence of well-typed calls, evaluations and returns.

`GenericApply` has the words of the stack, `base`, `top_`, and the locals
`given_args` and `pointer_mask`. One action per instruction (`Call`, `CallT`,
`EvalHNF`, `Eval`, `Ret`), one per case of `generic_apply` (`ApplyPap`,
`ApplyThunk`, `ApplyOver`, `ApplyExact`, `ApplyPartial`), and one per kind of
return address. `ReturnApk` and `ReturnUpd` are the whole code of application and
update frames (`MOV_RES; CALLT` and `MOV_RES; UPDATE; IRET`). A pointer mask is the
set of its bits, shifted as a word of `MaskBits` bits: bits shifted out are gone, and the
count of a shift is taken modulo the width, as the processor does. The element
`Lost` is history and marks a mask that was joined from more arguments than it has bits. The moves in place of
`ApplyPap` and `ApplyOver` are sequences of writes in the order of the code. PAPs
are not passed as arguments, which keeps values finite.

### LargeObjects

Addresses are numbers, so that sizes, headers and the ends of regions count. The
regions and the two lists of objects are as in the code, with `next_` and `prev_`
of every object. Whether a collection reaches `evacuateLarge` at all is undefined:
`evacuate` first looks up the block of the closure in metadata that a region of
large objects does not have. `EvacuateLarge` therefore may or may not happen.

### TraceJit

A program is a set of bytecode addresses: functions, return points, instructions
with guards, instructions with heap checks. The control flow is arbitrary, except
that branches start at an instruction with a guard and lead to a function or a
return point, and that those have no guards themselves. The compiler guarantees
this: `FUNC` comes first in a function, and `MOV_RES` after every call and
evaluation (`compiler/Lambdachine/Serialise.hs`, `emitLinearIns`). It is why a side
trace, whose entry code moves registers of its parent, never loops to its own
entry.

| variable | code |
|---|---|
| `mode`, `running` | whether the interpreter or the code of a fragment executes, and of which one (the processor's instruction pointer) |
| `F_id` | the trace id in the frame of `asmEnter`, which selects the snapshots at an exit |
| `jfunc` | which `FUNC` was overwritten by `JFUNC`, with its operand |
| `counters`, `fragments`, `fragmentMap` | the fields of the same name; a fragment keeps its exits with counter and jump target |
| `state`, `rec` | `Capability`'s state and the recorder's fields |

`Branch` is `interpBranch`, `EnterJfunc` is `JFUNC`; `RecordExecute`,
`RecordBranch`, `HeapOverflow`, `RecordAbort`, `RecordLoop`, `RecordInner` and
`RecordLink` are the outcomes of `recordIns` together with the instruction that
is executed afterwards; `GuardFails` and `FragmentEnd` are the ways out of a
fragment, `Restore` is `restoreSnapshot`. The comparison of call stacks that tells
true from false loops is a nondeterministic choice.

### LoopFilter and TraceRecord

A trace is recorded without knowledge of the stack below the frame it starts in.
`LoopFilter` has the tree of return addresses of `CallStack` (`calls`) and the branch
target buffer (`btb`), beside the interpreter's real stack of return addresses
(`stack`, and what it was at every branch, `stackAt`). `isTrueLoop` compares tree nodes;
`LoopsExact` says that this is the comparison of the real stacks, as far as the
trace has seen them, and that no loop is missed.

`TraceRecord` executes an instruction twice: in the interpreter (`st`) and in the
recorder (`rec`: abstract stack, call stack, the snapshots taken). The calls, with
every kind of function `recordGenericApply2` tells apart, are there in full; an
arithmetic instruction or a load is the write of a symbolic value that tells what it
was made from. `Restored` of any snapshot must be the stack of the
interpreter before that instruction, and a side trace (`BeginSideTrace`,
`replaySnapshot`) starts from any of them.

### IRLiterals and IRFold

Words have two halves of four values each in place of 2^32. `IRLiterals` has the cells
of literals, stored in one half where the value fits, and how they are read back.
`IRFold` has the buffer twice: `buf` is built by `emit` with all rules, CSE, load
forwarding and heap-check merging; `raw` is the same requests with the optimisations
off. `Run` executes a buffer in a start state, and `FoldSound` compares the two for every
start state: same guard left at, same values, same heap. The recorder asks only for
guards that hold in the program it is recording. `Reenters` excepts a thunk that is
updated while it is being evaluated, through another reference to it; in the
machine such a program would already be looping.

### RegAlloc

The assembler works backwards. `as` is its state: registers, spill slots, free set,
and `need`, the value each place must hold before the code emitted so far. The
instructions of the trace are chosen as the assembler reaches them, so that every
trace of the given length is assembled. The operators keep the names of the code
(`alloc1`, `destReg`, `evictReg`, `snapshotAlloc`, `insUpdate`, `bitshift`). Four
instructions that allocate two registers one after the other can take the register of the
first operand for the second when registers are short (section 6). They do so in the model
as in the code; the history `clash` records it. `CodeExact` is correctness without a
condition, which `shift_amount` refutes; `CodeCorrect` is the same for the traces without
a clash; `ClashesCount` says that the exception is not too wide: whenever a clash
is recorded, the code emitted is wrong at that point.

### MachineCode, X86Encode, TraceFrame

`MachineCode` has the area as a range of bytes: groups of exit stubs from below, code
from above, guards that point to stubs until `patchGuard` and `patchFallthrough` point
them elsewhere. The comparison of `setupExitStubs` lets one number of exits pass that needs
a group more than `exitStubGroup_` has; the model follows it into the word beyond, which is
empty or not. `X86Encode` encodes operands into the fields of prefix, ModRM, SIB,
displacement and immediate, and decodes them by the rules of the processor.
`TraceFrame` executes `asmEnter`, `asmExit`, `asmTrace` and `asmHeapOverflow` one
instruction at a time on registers and a stack of words; between any two, `Signal`
may overwrite what is below the stack pointer. The calling convention is that of
the platform: a C function keeps the registers it must and needs an aligned stack.

### Storage, Loader, MiscClosures, Instructions

`Storage` asks `mmap` for regions; the answer may be any free address, so that the
attempts of `newRegion` and the trimming of what is not aligned all happen. Blocks go
from regions to the lists by kind, through collections, and info-table blocks are
protected whenever no handle is held.

`Loader` has one step per import and per item of a file. References to names not yet
known are chained through the words that will hold them, exactly as in memory.

`MiscClosures` builds the code and the maps of continuations for applications and
reads them as the collector does. A top-of-stack mask of all ones means no mask to the
collector: it then reads whatever map the instruction behind the call leads to, or ends the
program (`TopFrameMaps`). `Instructions` asks a question (an instruction with
operands) and compares the answers of interpreter, recorder, collector and printer,
in bytes of four values; a conditional branch is followed from its bytecode
through `bcCond2irCond` and `asm_compmap` to the processor's flags. Jumps of every offset
and cases with and without an alternative for the tag are asked; `DecodingExact` says where
backward jumps and missing alternatives lead.

### The old virtual machine

`experiments/old-vm` interprets bytecode, records traces at hot branches, optimises
them and interprets the optimised IR (`irEngine`) instead of compiling it. Its words
are integers whose range says what they are, so its heap and stack are sequences of
words. `OldInterp` has the instructions its recorder understands, with generic
application; `OldRecord` the recorder, snapshots and fold rules; `OldOptimise` unrolling,
dead code elimination, the search for allocations that can be sunk into the exits,
heap layout; `OldTrace` puts them together:

| variable | code |
|---|---|
| `m`, `vm` | the thread, and whether it interprets, records, or runs a trace |
| `jit` | `JitState` while a trace is recorded |
| `frags` | the finished fragments, by start address |
| `tr` | where `irEngine` is, with the values of all references |
| `ref` | the same thread without traces, as in the self check of the code |

A trace may start at any backward branch, not only at a hot one, and a heap check may
fail or not: both are choices of the model. A load, store or branch through a word that is
not a pointer, such as the address 0 of a sunken object, ends the program (`vm` is
"crashed"). The self check (`verifyStack`) of the code is
the property `OldTraceExact`, made at every guard. `NoHalfSunken` excepts the programs
of the fault that `old_phi` shows (section 6).

### ParAssign

A side trace expects the values it inherits in registers and spill slots of its
own. `mergeWithParent` collects the moves (`MergeOne`, one case of its table per
disjunct, then `MergeAssign`), and `parallelAssign` orders them (`StartMove`, the
calls of `moveOne` as frames of `stack` with `Descend`, `BreakCycle` and `Transfer`,
and `Finish`). The assembler works backwards, so the code emitted so far is kept
as its effect, `from`: which location each location gets its final content from.
`goal` is what the code must achieve; no action reads it. Behaviours start either
in `mergeWithParent` (`InitMerge`: what `replaySnapshot`, `setup` and the register
allocator can leave) or directly in `parallelAssign` with any set of moves
(`InitTest`), as the unit tests call it: that includes cycles through spill slots,
which `mergeWithParent` does not produce. Which free register becomes a temporary
is nondeterministic.

## 3. Runs

| run | instance | shows |
|---|---|---|
| `gc` | 6 blocks of one closure, 2 closures, 2 slots, one CAF, 2 collections; 83,891 states | no dangling reference, no duplicate, no block on two lists, copies are closures; the inductive invariant; the program cannot observe the collector; every collection ends |
| `recorder` | literals of 16 words; 3 integer or heap operations; 4 branch targets; 3 recorded instructions | literals keep their value; the optimised trace does what was asked for; heap checks reserve what is used; loops are true loops; recorder and interpreter stay in step and snapshots restore |
| `backend` | 3 registers, 3 moves or inherited values; traces of 5 instructions; frames with 2 spill slots; 2 traces of up to 6 exits with 6 stubs in 110 bytes; all register numbers; 747,180 states | moves equal the simultaneous assignment and end; operands and exits find their values unless an instruction took the register of an operand, and only then not; registers survive entry and exit; code is not overwritten; operands decode to what was asked for |
| `runtime` | a function of 2 arguments and a thunk on 31 words; 5 large objects; 641 programs of 2 or 3 modules; 2 regions of 3 blocks; applications of up to 5 arguments; instructions of bytes of 4 values; 533,648 states | calls implement `EvalApply` with exact masks unless a join is wider than a mask; evacuated list exact; references linked; regions disjoint and info tables protected; maps exact; readers of instructions agree |
| `trace_life` | 2 functions, an AP function, 2 return points, up to 3 fragments; 1009 programs of the old machine; 2,112,221 states | exits, links, patches, recordings; traces of the old machine without a half-sunken PHI node are exact at every guard and give the same results |
| `old_phi` | one loop of three steps | violation, see section 6 |
| `pap_stale_function` | 2 functions, 1 collection | violation, see section 6 |
| `apply_headroom` | a frame larger than the arguments, 24 words | violation |
| `large_overlap` | two regions, up to 6 objects | violation |
| `literal_value` | words of type U64 | violation |
| `shift_amount` | traces of additions and shifts | violation |
| `loader_recursive` | two modules that import each other | violation |

Bounds. The heap runs have room for every closure to be live, to be garbage, and
to be part of a cycle; two closures suffice for sharing, indirections and
forwarding. Two collections are needed for a block to be reused. Blocks of several
closures, where a block receives copies while it is scavenged, are covered by the
proofs, which hold for every block size. The stack of 31 words holds two
nested evaluations with their update frames and an application frame on top of a call;
beyond that the interpreter reports an overflow, which `EvalApply` allows. A call
passes one argument or three; more than the arity come about when a partial application
adds its own. A mask has three bits, as many as a call has arguments, so that
joins lose bits. In `Storage` there are 18 addresses for regions of four, so that a
further region can be found at once, after trimming, or not at all.

Three operations are enough for a fold rule that needs an operand made by another
(reassociation, load forwarding past an update, two merged heap checks). Four branch
targets are a loop with a false one in between. Three recorded instructions push,
return and go below the first frame. Five instructions over three registers are more
live values than registers, so that values are evicted and reloaded; the three
registers are `eax`, `ecx` and `edx`, the ones that division and shifts treat specially.

Three fragments allow a side trace of a side trace, a link back to an ancestor, and
a fall-through that meets a fragment formed in the meantime. `HotThreshold` is 2
and `HotSideExit` is 1 in place of 53 and 7, and all addresses share one counter, as
any may that hash alike: it can be half-way and reset. `MaxTargets` is 2 in place of 100, so that traces also become too long.

Three moves among three registers and two slots contain a cycle with no register left,
so that the heap pointer is the temporary. The displacements of `X86Encode` are
the borders of a signed byte. A byte of four values keeps every field of an instruction
apart; nine arguments go past two words of them.

Traces of up to 6 exits with 6 stubs include the number that passes the comparison
of `setupExitStubs` but needs a group too many, and the first that does not pass.

The programs of the old machine are all loops of three steps out of ten (new pairs,
loads, moves, additions over two registers that hold objects), 1000 in number, which give
every pattern of PHI nodes two registers can have, the half-sunken ones included, and nine
loops for the other instructions: calls, evaluation, case, non-tail recursion, partial and
over-application. They run five iterations, which is enough to record, unroll, loop and
leave. In 37 of the ends of these programs there is a trace with a half-sunken PHI node, and 22
of those have another result than without traces; `NoHalfSunken` excepts them, and
`old_phi` is one of them.

Deadlock is not checked where the program may stop: the runs of `MCRuntime` (STOP,
stack overflow, no more memory), `MCBackend` (functions return) and `MCRecorder` (the
trace is finished).

Each property has a mutant: an altered form of a mapped definition, next to it in
its module (for example `LinkForgotten` next to `Link`), under which TLC finds the
property violated.

## 4. Fairness

`CopyingGC` assumes weak fairness of `Collect` and nothing of the program:
`performGC` is a function call that runs until it returns. `BackendSpec` assumes weak
fairness of `Moves`, the steps of `ParAssign`: `parallelAssign` is one sequential
function. The other specifications have no fairness; their properties are about
safety. That the fold rules end is a safety property, the state `looping` after
`MaxRetries`.

## 5. Proofs

Every theorem holds for all values of the constants that satisfy the assumptions of its
module. The assumptions say what the code's own constants satisfy: sets of constants do
not overlap, sizes and thresholds are positive, a region is larger than its header.

### The heap (`CopyingGCProofs`)

For every number of blocks, closures, slots, CAFs and fields, and every block size:

* `Invariance`: `Spec => []IInv`;
* `TypeCorrect`, `BlockLists`, `Sharing`, `NoDangling`, `CopiesAreClosures`: the
  invariants of `gc`, as consequences.

`gc` checks `IInv` itself on a small instance. None of the other invariants
is inductive alone. That the heap is closed when a collection ends
depends on what the collector has done so far. `IInv` says, besides the types and
the block lists: a cell is in use exactly below its block's limit (`CellsInv`); an
indirection and a forwarding pointer have the identity of their target (`IdInv`);
a CAF has a value exactly if it is a static root (`StaticInv`); while the program
runs, all pointers lead into the heap (`MutatorInv`); during a collection,
evacuated roots lead to copies and the others to the old heap (`RootsInv`), the
old heap leads to itself or through forwarding pointers to copies (`FromInv`), and
copies lead to copies where they were scanned and to the old heap elsewhere
(`ToInv`); and the scavenged blocks are the older ones, so that no copy is ever put
into a scavenged block (`LoopInv`). When the newest block is scavenged, so are all
others, every field has been scanned, and nothing leads to the old heap: that is
why it may be freed.

There is one lemma per action. The actions that evacuate share `EvacCases` (what
one round of `evacuate` returns), `EvacStep` (what it does to the invariants about
memory), `EvacGrow` and `EvacLoop` (what a copy does to the block lists and the
scan). `HeapClosed` follows from `MutatorInv` and `CellsInv`.

### The collector implements the lazy heap (`LazyHeapProofs`)

`Refinement`: `Spec => ImplementsLazyHeap`, for the instances of `CopyingGCProofs`.
`LazyHeap` is a safety specification. The mapping takes a reference to the identity of what it leads to through
indirections and forwarding pointers, and the heap to the closures that are neither.
Each operation of the program is the operation of `LazyHeap` on identities
(`AllocStep`, `InitFieldStep`, `LoadFieldStep`, `SetSlotStep`, `UpdateThunkStep`,
`UpdateCafStep`), or invisible (`FollowIndStep`: an indirection has the identity of
its target). Every step of a collection is invisible until the last: a copy has the
identity of the original, and the original becomes a forwarding pointer in the same
step (`EvacHidden`). `FinishGCStep` is `Collect`: what is left is closed under
references and contains the roots.

### The JIT driver (`TraceJitProofs`)

For any control flow, thresholds and numbers of fragments:
`JitInvariance`: `Spec => []JitInv`, and from it `TraceIds`, `Links`, `Jfuncs`,
`Recordings`, and the action property `PatchedOnce` (`LinksPermanent`).

The properties are not inductive by themselves because of what a recording will do
when it ends. `RecOK` ties the recorder's fields to the fragment map: a side
trace's parent and exit exist, the exit's byte code is where the recording started,
and the exit is not linked yet, so that `Finish` links the right exit once. `ExitsInv`
says of exits that were linked without setting the trace id that the fragment behind them
sets it, which `TraceIdExact` needs for a fragment that is reached by falling through.
`NextInv` proves for every step that `JitInv` is preserved and that links stay.

### Literals and loops (`TraceJitProofs`)

`LiteralsAlwaysExact`: `NoUnsignedSign => (LitSpec => []LiteralsExact)`, for any even width
of half words and any literals and offsets of the base. `LitInv` says that every request so
far is answered by a cell that is still there (two cells, where the value needs both halves),
and that no two cells hold the same literal; `Halves` and its neighbours say that a
word is its two halves, and when one of them is enough. The hypothesis says that a literal
of an unsigned type does not look like the extension of a negative half word. `literal_value`
shows what happens otherwise.

`LoopsAlwaysExact`: `LoopSpec => []LoopsExact`, for any program counters, any stack and any
size of the branch target buffer. `LoopInv` says that there is a stack for every node of
the tree of calls: the frame of a node on top of its parent's stack. The root stands for the
lowest stack so far, below all the others. A return below the root adds a
parent to it, and with it a frame to the path of every earlier node; it is a frame of the
stack they stand for already, which is why a frame that is learnt late is right for the visits
recorded before. A visit is at the node of its stack (`VisitsInv`), so comparing the
paths of two nodes compares what the trace has seen of their stacks. `LowestInv` follows
the lowest height between two visits: only returns lower the stack, and a return
address is a branch target of its own. `LoopAssumption` therefore says that no function begins at a
return address.

### Parallel assignment (`ParAssignProofs`)

For any registers, spill slots, moves and inherited values: `ParInvariance`:
`ParSpec => []ParInv`, and from it `TempsAlwaysSafe` and `AssignmentAlwaysKept`.

The recursion of `moveOne` is the hard part. `MovesInv`: no two open moves have one
destination, and at most one open move goes to a temporary. `StackInv`: each caller waits for
exactly one entry, the one called, to be out of the way of its source; what the loop of
the newest call has passed is no conflict; while a temporary is in use, the newest call
finds no further conflict, so that one temporary is enough and a free
register cannot be taken twice. `CodeInv` relates the effect of the code emitted so far
(`from`) to the moves that are open. `MergedInv` says what the loop over the inherited values
has asked for.

### Storage (`StorageProofs`)

For any sizes, any number and order of the kinds of blocks, and whatever addresses
`mmap` returns: `StorageInvariance`: `StorageSpec => []StorageInv`, and from it
`RegionsAlwaysExact` and `InfoTablesAlwaysProtected`.

`MapsInv` says that regions are aligned and mapped, which separates them from what
`mmap` returns next; two aligned regions with different bases share no address (lemma
`AlignUp` and its neighbours do the arithmetic of the alignment). `BlocksInv` says of all lists of
blocks together (those of the kinds, the free list and the old heap) that their entries
exist and are different, within and between lists. `InfoInv`: a block with info tables
begins at a page and is protected, unless it is the current one while a handle is held;
while a new block is being fetched, all are.

### The calling convention (`GenericApplyProofs`)

For any program, arities, frame sizes, arguments and size of the stack:
`ApplyInvariant`: `ApplySpec => []ApplyInv`, and with it `MachineRefined`:
`ApplySpec => ImplementsEvalApply`, and `ExactMasks`: `ApplySpec => []MasksExact`.

A stack of words has no frames; `ApplyInv` says that there is a sequence of bases, from
the frame of `stg_STOP` to `base`, such that each frame waits for the one above it
(`Linked`, `Waiting`): the saved base of the upper frame is that of the lower one, and
the lower one has what the return address will read (the registers of a function;
the number, mask and arguments of an application frame; the thunk of an update frame)
below the link words of the upper one. `TopInv` and `ModeInv` say what the top frame has
and how much room is left above it. The overflow checks of the code are what keeps
that room: without the four words of headroom the places where EVAL simulates a return
would not be on the stack.

`Chain` and `Kont` follow the saved bases. They are recursive functions; `Followed`
says that on a linked stack they yield the sequence of bases and of continuations.
The library states induction for an operator, which the provers cannot instantiate, so
`SetInduction` states it for a set of numbers and `Recursion` that a function that goes
down the stack exists. `Pushed`, `Popped` and `Kept` say what a step does to the frames,
`Written` and its neighbours what it writes, and one lemma per action (`CallStep`,
`ApplyPapStep`, `ReturnUpdStep`, ...) that the step preserves `ApplyInv` and is the step
of `EvalApply` with the same name.

About masks it is assumed that a mask has a bit for every argument of one call (32 bits; the
code limits calls to `kMaxCallArgs`, 13). Nothing is assumed about arities, so
the arguments of a PAP and those of a call may be more than a mask has bits: with 13
arguments a call, that is so for functions of more than 20 arguments, and an arity may be
255. `Lost` marks the masks that come from such a join and `MaskExact` excepts them, and
no others; a mark stays when a mask is shifted or joined again. The run `runtime`
meets such masks. The refinement does not depend on masks: they concern the collector,
not the values.

### Machine code (`AssemblerProofs`)

For any sizes of the area, of a group of stubs and of the code of a trace, any number of
traces, patches and bridges: `AreaIntact`: `MCodeSpec => []AreaExact`. `AreaInv` says that
groups of stubs lie apart below `bottom_` and code apart at `top_` and above, and that a
jump of a trace goes to the stub of its exit or to the entry of code. The arithmetic is in
the numbers of exits (`ExitGroup`, `EnoughGroups`): `setupExitStubs` makes every group an
exit of the new trace needs. Nothing is assumed about that number: where the comparison
lets a trace pass that needs one group more than there are (`TooManyExits`; 511 exits in
the code), the word beyond the array is used as a group if it is empty, and `AreaInv` says
of that group what it says of the others.

`OperandsExact`: `EncSpec => []EncodingExact`, for any registers, offsets, immediates and
constants. One lemma per emitter says which fields it chooses (`DispExact`: a displacement
is left out only where that mode is free; the encodings with a SIB byte and of
`ebp` and `r13` as base are cases), and `DecodeBase`, `DecodeSib`, `DecodeRegister` what
the processor reads from them.

### Register allocation (`AssemblerProofs`)

For any numbers of registers (three or more), spill slots, literals, inputs and
instructions, and any kinds of instructions: `RegistersAlwaysExact`:
`RASpec => []RegistersExact` and `CodeAlwaysCorrect`: `RASpec => []CodeCorrect`.

`RAIndInv` says between two instructions (`Settled`): a register is taken exactly by one live
value that has it (`TakenInv`); no two values share a spill slot, literals have
none, and the slots still to be given out belong to nobody (`SlotsInv`); and whatever the code
emitted so far needs from a place is the live value whose register or spill slot that
place is (`NeedInv`). So no place is needed for two values (`HomesDiffer`), which is
`CodeCorrect`. Inside an instruction this is not true of one register: the one that holds
the value just defined, and then, before it, the left operand. `AllocInv` has
that register `d` and the value `x` it waits for as parameters, and each operator of the
allocator has a lemma that preserves it for all `d` and `x` that the operator may meet
(`SpillKeeps`, `RestoreKeeps`, `EvictKeeps`, `AllocRefKeeps`, `Alloc1Keeps`, `ScratchKeeps`,
`DestKeeps`, `MoveKeeps`, `AllocLeftKeeps`). The lemmas also say which registers an operator
leaves alone (`Taking`, `Cleared`), because an instruction looks for its first
operand after it allocated the second. Snapshots, the stores of `SAVE` and
`evictConstants` are recursive functions; `Iterate` states once that a function that
applies one step after another exists and keeps what each step keeps. There is one lemma for
each kind of instruction (`IntArithKeeps`, `BitshiftKeeps`, `InsUpdateKeeps`, ...) and one for each
action. When the allocator runs out of spill slots, it gives up; the two properties
are about assemblies that succeed.

The four instructions that may take the register of their first operand for the second are
part of this, in every state. `RegistersAlwaysExact` has no condition: the books of the allocator are
right whatever is taken. `CodeAlwaysCorrect` is about assemblies without `clash`; the
history is only ever set, so that in such an assembly no earlier instruction had one, and
the lemmas of the four instructions have the case that the second operand got a register
of its own. Without the condition the theorem is false (`shift_amount`), and
`ClashesCount` shows on the instance of `backend` that each clash is an error.

### Large objects, instructions, the loader and pointer maps (`RuntimeProofs`)

`EvacuatedAlways`: `LargeSpec => []EvacuatedExact`, for any number of objects of any sizes.
`LargeInv` says that there is a sequence of the marked objects, without repetition, that
the links `next_` run through backwards from `evacuatedLargeObjects_`. It holds although the
other list loses objects: `prev_` is always 0, so `Evacuate` unlinks nothing that matters
to the evacuated ones. `FollowExact` says what the recursive `Follow` yields on such a list,
and that its length is within the number of steps, as no object is on it twice.

`ReadersAgree`: `InsSpec => []DecodingExact` and `GuardsAgree`: `InsSpec => []BranchesAgree`,
for bytes and words of any even number of values. Fields are digits of a number
(`Digits`). The binary search of `CASE_S` is proved for any number of alternatives
(`SearchExact`): by induction on how many are left, a part of the table yields the target
of the tag if its place is in that part, and 0 otherwise (`SearchStep`). The property names
what the readers do not agree with their comments on: a backward `JMP` goes as many
instructions too far as an address has values (`AddressSize`), and a `CASE` without an
alternative for the tag stops. That tags and
targets have 16 bits is an assumption of `Instructions`. For guards, `FlagsExact` says when
the flags of a subtraction mean less or equal, signed and unsigned, `GuardExact` that each
code of `asm_compmap` negates its condition, and `Inverted` that flipping the last bit
negates, too.

`ReferencesHold`: `LoaderSpec /\ []InOrder => []ReferencesExact`, for any set of programs whose
files are sequences of info tables and closures with unique names. `LinkInv` relates tables and memory to
what has been loaded: a name that is defined has its address in the table and in every
word that refers to it; a name that is only referred to has the chain of its words in the
memory, the latest first, each word once (`InfoEntry`, `ClosEntry`). `fix*ForwardReference`
goes down that chain, and the lemmas about it say that it patches those words and no others. The
hypothesis `InOrder` says that no closure is loaded before its info table.
`loader_recursive` shows that it is needed. `OwnReferencesHold` discharges it for programs
whose closures use info tables of their own module (`OwnInfo`): `loadModuleBody` reads the
info tables of a module first.

`MapsAlwaysExact`: `MiscSpec => []MapsExact`, for any width of chunks and any number of
arguments. `MiscInv` says that the hash tables hold, under each index, the object for the
one application that has this index (`IndexInjective`), so that an object that is found is
as good as a new one. The rest is about numbers. The provers know nothing about powers; that
`2^(n + 1)` is twice `2^n` (`Double`) follows from the library's theorem on the
cardinality of power sets. From it come the bits of a chunk (`BitOfChunk`), of a mask and a
continuation flag (`BitBelow`) and of the shifted mask of a thunk (`BitShifted`). `IsMap` is what the
maps of `encodeBitmask`, `scavengeStack` and the fixed frames have in common, and `MapRead` says
that `scavengeFrame` reads back any such map. The mask of all ones, which 32 pointer arguments
have, is excepted by the property: the collector takes it for none. `EffectExact` executes the code of a
continuation or thunk. `MiscClosuresAssumption` says that three chunks hold a mask: 32 bits
and 15 bits each in the code.

### What is only model-checked

* Liveness: that collections and `parallelAssign` end. The prover has no rules for
  fairness and ENABLED.
* Modules with RECURSIVE operators, where the prover has no arithmetic: the old
  virtual machine (`OldTraceExact`, `OldResultExact`), which follows its code through the IR.
* What executing a buffer or replaying a call stack yields: `FoldCorrect`, `HeapExact`,
  `RecorderAgrees`, `SnapshotExact`. These quantify over start states or compare two
  executions of a whole sequence. The induction theorems of the library take an operator as
  a parameter, which the provers cannot instantiate, so that each would need
  an induction of its own over a set of numbers, and an invariant that relates every prefix
  of two buffers.
* `ClashesCount`: that a clash makes the code wrong, on the traces of `backend`.
* `ExitStateExact`, `RegistersRestored`: not proved. They would need an invariant for every
  instruction of four sequences of machine code.

## 6. Findings

Each is a run that TLC refutes, with what the code says of itself quoted in
`PROJECT.json`.

* `pap_stale_function`: `generic_apply` stores the local `fnode` in a PAP after a
  collection that its own allocation started. The collector has moved the
  function; the local still has the old address. Reading `base[-1]` again after
  the loop would do.
* `apply_headroom`: `CALL`, `CALLT` and over-application check the stack for the
  arguments, not for the frame of the function, so that a body can run beyond the
  end of the stack, with the result slot of `EVAL` above it.
* `large_overlap`: `allocLarge` compares the place of an object in any region of its
  list with the end of the first. When the first lies above a full one, an object placed at
  the end of the full one runs over the header and the first object of the region above.
* `literal_value`: a literal of an unsigned type is stored as a signed half word if its
  upper half is all ones, and read back with the upper half cleared.
* `shift_amount`: a shift by a variable amount allocates the amount with only `ecx`
  excluded, so that it may get the register of the result. The left operand is moved there
  first, and what is then copied to `ecx` is the left operand in place of the amount.
* `loader_recursive`: a closure of a recursive group of modules whose info table is
  loaded later is taken for a dummy, so that its payload is overwritten.
* `old_phi`: in the old machine a PHI node of a loaded value and a sunken object is left
  alone (`HeapInfo.c:711` compares two `NEW` only). With the body `r2 := Pair(n, r1);
  r1 := r1.field2; r1 := Pair(n, r1)` the copy of the sunken object's address, 0, is stored
  in a pair of the result. Other bodies of this kind read through the null pointer and end
  the program.

Observations that no run of its own is about:

* Storage. The end of a region of large objects is computed from the address after its
  header (`memorymanager.cc:135`), so an object may end outside its region. A larger
  retry of `newRegion` that comes back aligned keeps its slop mapped. `allocInfoTable`
  with a first block that does not begin at a page fails a debug assertion. The sanity
  check has no case for large objects and black holes (`memorymanager.cc:1017`).
* Recorder. `replaySnapshot` writes the parent's slots without comparing them with the
  size of the child's array (`jit.cc:174`). Applying a PAP to too many arguments while
  recording ends the program. A fall-through exit to a return point that has a fragment
  already is recorded again (only `JFUNC` is looked for); this is wasteful but harmless.
* Assembler. `compare`, `itblGuard` and `insPLOAD` allocate their second operand
  without excluding the register of the first, as `bitshift` does not exclude the result's:
  with no register free, the first may be evicted, and the code then reads the second operand
  for it. `bitshift` also writes `ecx` without evicting the value it holds. `CodeCorrect`
  excepts these states, `ClashesCount` shows that they are errors. `getHint` returns a `bool`
  (`assembler.hh:116`), so every hint is 0 or 1. A trace with 511 exits needs 17 groups
  of stubs and passes the comparison with 16 (`assembler.cc:1783`): the 17th is looked up,
  and stored, in the word beyond the array. `mclim` is never
  compared with `mcp`. The comment on `kAreaSize` says 512 KB, the value is 4 MB.
* Instructions. `JMP` backwards adds about 2^32 to the pc (`capability.cc:647`), because the
  operand is unsigned; the comment above it gives `JMP -1` as an infinite loop (644-646).
  A `CASE` whose tag has no alternative fails an assertion (`capability.cc:919-926`); the
  comment says "we just fall through to the default case" (901). `DecodingExact` states what
  the code does in both. The diagram of `CASE_S` puts the target into the high half of an
  entry (1008), the code the tag. `ALLOCAP` has 8 bits of pointer mask for up to 13 arguments.
* Masks. Joining a PAP of 20 arguments with a call of 13 shifts bits out of a mask
  (`capability.cc:1191`); `runtime` reaches such joins, and frames whose mask lacks a pointer,
  with 3 bits. A mask of 32 pointers is the one the collector takes for none
  (`memorymanager.hh:266`); it then reads the map of the instruction behind the call, or ends
  the program if that is no allocation.
* Operands. `PTROFSC` sign-extends a byte in the interpreter
  and zero-extends it in compiled code. The comment in `initUpdateClosure` that the
  interpreter never executes the `IRET` after `UPDATE` is out of date.
* The old machine. `UPDATE` of a sunken object writes through a
  null pointer (`InterpIR.c:403`). The depth of a frame is compared with `MAX_SLOTS`
  as if slots were counted from 0 (`Record.c:698`). `enterRecordingMode` ignores its
  mode, so that recordings that start at a hot return always abort. Recording an
  over-application copies all arguments instead of the function's arity; executing one
  with a PAP copies the extra arguments from register 0; `CALL` with too few arguments
  leaves the payload of its PAP uninitialised and returns from the caller's frame. The
  binary search of `CASE_S` is reversed. A hot side exit ends the program.

## 7. Not modelled

* the compiler `lcc` and the Haskell libraries: a batch translation;
* reading bytecode files, printing, options, timing: input and output;
* `scavengeLarge` and `sweepLargeObjects`: never called;
* the sanity check of debug builds, which has no case for large objects and black holes and
  would end programs that hold them;
* the results of arithmetic and byte-array instructions in the interpreter, and floating
  point;
* the growth of the IR buffer (the program ends at its limit), the types of IR
  instructions beyond what a rule tests, and PHI nodes, which `src/vm` never sets;
* widths that no small instance reaches: 65535 fragments, 200 inherited slots, 255
  entries of a snapshot, none of which the code compares with its limit;
* of the old machine: `ALLOCAP`, `DIV`, `REM`, `CALL` with too few arguments, stack
  overflow, its storage manager, loader and unfinished assembler, and functions that
  nothing calls (`optDeadAssignElim`, `dfs1`, `dfs2`, `markUnsinkable`).

## 8. Plan

What is left are proofs: `ExitStateExact` and `RegistersRestored` for `TraceFrame`, in
`AssemblerProofs`.
