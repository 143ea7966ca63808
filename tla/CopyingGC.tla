----------------------------- MODULE CopyingGC ------------------------------
(***************************************************************************)
(* The dynamic heap of the VM: bump allocation by the interpreter, thunk   *)
(* update, and the stop-the-world copying collector                        *)
(* (vm/memorymanager.cc performGC, evacuate, scavengeBlock; the allocating *)
(* and updating instructions of vm/capability.cc).                         *)
(*                                                                         *)
(* Memory is a set of blocks.  A block holds at most BlockSize closures;   *)
(* because closures differ in size, a block that is not empty may be too   *)
(* full for the next one whatever number it holds.  A closure has a type   *)
(* and a payload; a payload word that is not a pointer (its bit in the     *)
(* info table's bitmap is clear) is Null.  IND and FWD closures keep their *)
(* target in payload word 1, as IND does in payload(0); FWD is a closure   *)
(* whose info pointer has been replaced by a forwarding pointer.           *)
(*                                                                         *)
(* The component "id" of a closure is auxiliary: no step reads it.  It is  *)
(* the identity the closure has in LazyHeap, kept when the closure is      *)
(* copied, and that of the value once the closure is an indirection.       *)
(*                                                                         *)
(* The stack is the set Slot of its slots; root[s] is Null when the        *)
(* liveness bitmask at the frame's pc excludes the slot.                   *)
(***************************************************************************)
EXTENDS Naturals, Sequences

CONSTANTS
  Block,        \* the blocks the operating system can provide
  BlockSize,    \* closures per block
  Id,           \* closure identities (auxiliary)
  Slot,         \* stack slots and frame nodes
  Caf,          \* static closures of type CAF
  Value,        \* static constructors and functions
  MaxFields,    \* payload words per closure
  MinHeapSize,  \* minHeapSize_, in blocks
  AllocType,    \* the closure types the program allocates
  MaxGCs,       \* bound on the number of collections
  Null

Field == 1..MaxFields
HNF == {"CONSTR", "FUN", "PAP"}
Type == HNF \cup {"THUNK"}
Static == Caf \cup Value
Addr == Block \X (1..BlockSize)
Ref == Addr \cup Static

ASSUME ConstantsAssumption ==
  /\ Block # {}
  /\ BlockSize \in Nat \ {0}
  /\ MaxFields \in Nat \ {0}
  /\ MinHeapSize \in Nat \ {0}
  /\ MaxGCs \in Nat
  /\ AllocType \subseteq Type
  /\ Null \notin Ref \cup Id \cup Slot \cup Block
  /\ Caf \cap Value = {}
  /\ Static \cap (Addr \cup Id) = {}

Cell == [type : Type \cup {"IND", "FWD", "FREE"},
         id   : Id \cup Static \cup {Null},
         ptrs : [Field -> Ref \cup {Null}]]

\* A cell of a block that is not in use; debug builds clear such blocks.
FreeCell == [type |-> "FREE", id |-> Null, ptrs |-> [f \in Field |-> Null]]

VARIABLES
  mem,          \* the closure at each address
  free,         \* Block::free_, as the number of closures in the block
  closures,     \* the list closures_, oldest block first
  old_heap,     \* the blocks of the list old_heap_
  free_list,    \* the blocks of the list free_
  scavenged,    \* the blocks whose kScavenged flag is set
  heap,         \* the mutator's bump pointer into the newest closures_ block
  nextGC,       \* nextGC_: blocks to fill before the next collection
  num_gcs,      \* num_gcs_: collections so far
  root,         \* the stack slots
  caf,          \* payload(0) of each CAF, Null until the CAF is updated
  static_roots, \* the CAFs on the list static_roots_
  phase,        \* where the collector is
  todo,         \* the slots and static roots it has not evacuated yet
  k,            \* position in closures of the block being scavenged
  pos,          \* the closure being scavenged in that block
  fld           \* the payload word being scavenged in that closure

blockVars == <<closures, old_heap, free_list, scavenged>>
cursorVars == <<k, pos, fld>>
gcVars == <<phase, todo, k, pos, fld>>
rootVars == <<root, caf, static_roots>>
vars == <<mem, free, closures, old_heap, free_list, scavenged, heap, nextGC,
          num_gcs, root, caf, static_roots, phase, todo, k, pos, fld>>

Closures == {closures[n] : n \in 1..Len(closures)}
Head1 == closures[Len(closures)]

\* Blocks of the regions obtained, or obtainable, from the operating system
\* that were never handed out.
Untouched == Block \ (Closures \cup old_heap \cup free_list)

\* grabFreeBlock: from the free list, then from the regions.  The order of
\* either list is not modelled: a fixed, arbitrary block is taken.
Grabbable == IF free_list # {} THEN free_list ELSE Untouched
grabFreeBlock == CHOOSE b \in Grabbable : TRUE

\* free_ once the block is taken.
NotUnlinked == free_list
Unlinked == free_list \ {grabFreeBlock}

\* The identities no closure has.
FreshIds == Id \ {mem[a].id : a \in {b \in Addr : mem[b].type \in Type}}

IdOf(q) == IF q \in Addr THEN mem[q].id ELSE q

Init ==
  /\ mem = [a \in Addr |-> FreeCell]
  /\ free = [b \in Block |-> 0]
  /\ closures = <<CHOOSE b \in Block : TRUE>>
  /\ old_heap = {} /\ free_list = {} /\ scavenged = {}
  /\ heap = 0
  /\ nextGC = MinHeapSize
  /\ num_gcs = 0
  /\ root = [s \in Slot |-> Null]
  /\ caf = [c \in Caf |-> Null]
  /\ static_roots = {}
  /\ phase = "mutator"
  /\ todo = {}
  /\ k = 0 /\ pos = 0 /\ fld = 0

-----------------------------------------------------------------------------
(***************************************************************************)
(* The mutator.                                                            *)
(***************************************************************************)

MutatorUnchanged ==
  UNCHANGED <<free, blockVars, nextGC, num_gcs, gcVars>>

\* BUMP_HEAP: there is room for one more closure below heaplim.
FitsOffByOne == heap <= BlockSize
Fits == heap < BlockSize

\* ALLOC1, ALLOC, ALLOCAP when the closure fits below heaplim.
Alloc(s, ty, args) ==
  /\ phase = "mutator"
  /\ \A f \in Field : args[f] # Null => root[args[f]] # Null
  /\ Fits
  /\ FreshIds # {}
  /\ mem' = [mem EXCEPT ![<<Head1, heap + 1>>] =
               [type |-> ty, id |-> CHOOSE i \in FreshIds : TRUE,
                ptrs |-> [f \in Field |-> IF args[f] = Null THEN Null
                                          ELSE root[args[f]]]]]
  /\ heap' = heap + 1
  /\ root' = [root EXCEPT ![s] = <<Head1, heap + 1>>]
  /\ UNCHANGED <<caf, static_roots>>
  /\ MutatorUnchanged

\* LOADF, LOADFV, LOADSLF: read a pointer field of a closure.
LoadField(s, t, f) ==
  /\ phase = "mutator"
  /\ root[t] \in Addr
  /\ mem[root[t]].type \in Type
  /\ mem[root[t]].ptrs[f] # Null
  /\ root' = [root EXCEPT ![s] = mem[root[t]].ptrs[f]]
  /\ UNCHANGED <<mem, heap, caf, static_roots>>
  /\ MutatorUnchanged

\* INITF: tie a knot by overwriting a pointer field, which may make the heap
\* cyclic.
InitField(s, t, f) ==
  /\ phase = "mutator"
  /\ root[s] \in Addr
  /\ mem[root[s]].type \in Type
  /\ mem[root[s]].ptrs[f] # Null
  /\ root[t] # Null
  /\ mem' = [mem EXCEPT ![root[s]].ptrs[f] = root[t]]
  /\ UNCHANGED <<root, heap, caf, static_roots>>
  /\ MutatorUnchanged

\* MOV, LOADK of a static closure, and the end of a slot's live range.
SetSlot(s, x) ==
  /\ phase = "mutator"
  /\ x \in Static \cup {Null} \/ \E t \in Slot : x = root[t]
  /\ root' = [root EXCEPT ![s] = x]
  /\ UNCHANGED <<mem, heap, caf, static_roots>>
  /\ MutatorUnchanged

IsInd(q) == \/ q \in Caf /\ caf[q] # Null
            \/ q \in Addr /\ mem[q].type = "IND"

IndTarget(q) == IF q \in Caf THEN caf[q] ELSE mem[q].ptrs[1]

IsHNF(q) == q \in Value \/ (q \in Addr /\ mem[q].type \in HNF)

\* EVAL of an indirection: the result is what it points to.
FollowInd(s) ==
  /\ phase = "mutator"
  /\ IsInd(root[s])
  /\ root' = [root EXCEPT ![s] = IndTarget(root[s])]
  /\ UNCHANGED <<mem, heap, caf, static_roots>>
  /\ MutatorUnchanged

\* static_roots_ after the CAF c was put on it.
LinkForgotten(c) == static_roots
Link(c) == static_roots \cup {c}

\* UPDATE: overwrite an evaluated thunk by an indirection to its value;
\* a CAF also goes on the list of static roots.
Update(s, t) ==
  /\ phase = "mutator"
  /\ IsHNF(root[t])
  /\ \/ /\ root[s] \in Addr
        /\ mem[root[s]].type = "THUNK"
        /\ mem' = [mem EXCEPT ![root[s]] =
                     [type |-> "IND", id |-> IdOf(root[t]),
                      ptrs |-> [f \in Field |-> IF f = 1 THEN root[t]
                                                ELSE Null]]]
        /\ UNCHANGED <<caf, static_roots>>
     \/ /\ root[s] \in Caf
        /\ caf[root[s]] = Null
        /\ caf' = [caf EXCEPT ![root[s]] = root[t]]
        /\ static_roots' = Link(root[s])
        /\ UNCHANGED mem
  /\ UNCHANGED <<root, heap>>
  /\ MutatorUnchanged

\* heapOverflow and bumpAllocatorFull when the next closure does not fit and
\* blocks remain before the next collection: sync the bump pointer, then
\* blockFull.
BumpAllocatorFull ==
  /\ phase = "mutator"
  /\ heap > 0
  /\ nextGC > 1
  /\ nextGC' = nextGC - 1
  /\ Grabbable # {}
  /\ closures' = Append(closures, grabFreeBlock)
  /\ free_list' = Unlinked
  /\ heap' = free[grabFreeBlock]
  /\ free' = [free EXCEPT ![Head1] = heap]
  /\ UNCHANGED <<mem, old_heap, scavenged, num_gcs, rootVars, gcVars>>

-----------------------------------------------------------------------------
(***************************************************************************)
(* The collector.                                                          *)
(***************************************************************************)

\* bumpAllocatorFull when this was the last block: performGC starts.  The
\* heap becomes old_heap_ and an empty block is taken for the copies.
StartGC ==
  /\ phase = "mutator"
  /\ heap > 0
  /\ nextGC = 1
  /\ nextGC' = 0
  /\ num_gcs < MaxGCs
  /\ num_gcs' = num_gcs + 1
  /\ free' = [free EXCEPT ![Head1] = heap]
  /\ old_heap' = Closures
  /\ Grabbable # {}
  /\ closures' = <<grabFreeBlock>>
  /\ free_list' = Unlinked
  /\ phase' = "roots"
  /\ todo' = {s \in Slot : root[s] # Null}
  /\ UNCHANGED <<mem, scavenged, heap, rootVars, cursorVars>>

\* copy: the closure moves to the newest block of closures_ or, when it does
\* not fit there, to a block that blockFull puts in front of it.
CopyTo(to) ==
  /\ \/ /\ free[Head1] < BlockSize
        /\ to = <<Head1, free[Head1] + 1>>
        /\ UNCHANGED <<closures, free_list>>
     \/ /\ free[Head1] > 0
        /\ Grabbable # {}
        /\ to = <<grabFreeBlock, free[grabFreeBlock] + 1>>
        /\ closures' = Append(closures, grabFreeBlock)
        /\ free_list' = Unlinked
  /\ free' = [free EXCEPT ![to[1]] = to[2]]

\* evacuate's loop goes on after the round for q.
PendingStatic(q) == q \in Static \/ (q \in Addr /\ mem[q].type = "IND")
Pending(q) == q \in Addr /\ mem[q].type = "IND"

\* evacuate(p) where p holds q, one round of its loop: *p becomes new.  A
\* static closure is left alone, a copied one is replaced by its copy, an
\* indirection by its target (and the loop goes on), any other is copied.
Evacuate(q, new) ==
  \/ /\ q \in Static
     /\ new = q
     /\ UNCHANGED <<free, closures, free_list>>
  \/ /\ q \in Addr
     /\ mem[q].type \in {"FWD", "IND"}
     /\ new = mem[q].ptrs[1]
     /\ UNCHANGED <<free, closures, free_list>>
  \/ /\ q \in Addr
     /\ mem[q].type \in Type
     /\ CopyTo(new)

\* The memory after Evacuate(q, new): a copied closure leaves a forwarding
\* pointer behind.
EvacNoForward(q, new) ==
  IF q \in Addr /\ mem[q].type \in Type THEN [mem EXCEPT ![new] = mem[q]]
  ELSE mem
EvacForwardWrong(q, new) ==
  IF q \in Addr /\ mem[q].type \in Type
  THEN [mem EXCEPT ![new] = [mem[q] EXCEPT !.type = "FWD", !.ptrs[1] = new]]
  ELSE mem
EvacShort(q, new) ==
  IF q \in Addr /\ mem[q].type \in Type
  THEN [mem EXCEPT ![new] = [mem[q] EXCEPT !.ptrs[MaxFields] = Null],
                   ![q] = [type |-> "FWD", id |-> mem[q].id,
                           ptrs |-> [f \in Field |-> IF f = 1 THEN new
                                                     ELSE Null]]]
  ELSE mem
EvacMem(q, new) ==
  IF q \in Addr /\ mem[q].type \in Type
  THEN [mem EXCEPT ![new] = mem[q],
                   ![q] = [type |-> "FWD", id |-> mem[q].id,
                           ptrs |-> [f \in Field |-> IF f = 1 THEN new
                                                     ELSE Null]]]
  ELSE mem

\* scavengeStack: evacuate the live slots of all frames.
EvacRoot(s) ==
  /\ phase = "roots"
  /\ s \in todo
  /\ \E new \in Ref :
       /\ Evacuate(root[s], new)
       /\ mem' = EvacMem(root[s], new)
       /\ root' = [root EXCEPT ![s] = new]
  /\ todo' = IF Pending(root[s]) THEN todo ELSE todo \ {s}
  /\ UNCHANGED <<old_heap, scavenged, heap, nextGC, num_gcs, caf, static_roots,
                 phase, cursorVars>>

StackDone ==
  /\ phase = "roots"
  /\ todo = {}
  /\ phase' = "static"
  /\ todo' = static_roots
  /\ UNCHANGED <<mem, free, blockVars, heap, nextGC, num_gcs, rootVars,
                 cursorVars>>

\* scavengeStaticRoots: evacuate the values of the CAFs on the list.
EvacCaf(c) ==
  /\ phase = "static"
  /\ c \in todo
  /\ \E new \in Ref :
       /\ Evacuate(caf[c], new)
       /\ mem' = EvacMem(caf[c], new)
       /\ caf' = [caf EXCEPT ![c] = new]
  /\ todo' = IF Pending(caf[c]) THEN todo ELSE todo \ {c}
  /\ UNCHANGED <<old_heap, scavenged, heap, nextGC, num_gcs, root, static_roots,
                 phase, cursorVars>>

StaticDone ==
  /\ phase = "static"
  /\ todo = {}
  /\ phase' = "blocks"
  /\ UNCHANGED <<mem, free, blockVars, heap, nextGC, num_gcs, rootVars, todo,
                 cursorVars>>

\* The head of performGC's loop over closures_: start at the newest block,
\* or at the second newest if that is not scavenged yet.
AlwaysNewest == Len(closures)
FirstToScavenge ==
  IF Len(closures) > 1 /\ closures[Len(closures) - 1] \notin scavenged
  THEN Len(closures) - 1
  ELSE Len(closures)

PickBlock ==
  /\ phase = "blocks"
  /\ Head1 \notin scavenged
  /\ phase' = "scavenge"
  /\ k' = FirstToScavenge
  /\ pos' = 1
  /\ fld' = 1
  /\ UNCHANGED <<mem, free, blockVars, heap, nextGC, num_gcs, rootVars, todo>>

Current == <<closures[k], pos>>

\* The loop over the payload of the closure has not ended.
PayloadLeft == fld <= MaxFields

\* scavengeBlock, one payload word of one closure: evacuate it if its bit in
\* the bitmap is set.  free_ of the block is read again for every closure,
\* because the copies may go to the block that is being scavenged.
ScavengeField ==
  /\ phase = "scavenge"
  /\ pos <= free[closures[k]]
  /\ PayloadLeft
  /\ LET q == mem[Current].ptrs[fld] IN
       \/ /\ q = Null
          /\ fld' = fld + 1
          /\ UNCHANGED <<mem, free, closures, free_list>>
       \/ /\ q # Null
          /\ \E new \in Ref :
               /\ Evacuate(q, new)
               /\ mem' = [EvacMem(q, new) EXCEPT ![Current].ptrs[fld] = new]
          /\ fld' = IF Pending(q) THEN fld ELSE fld + 1
  /\ UNCHANGED <<old_heap, scavenged, heap, nextGC, num_gcs, rootVars, phase, todo,
                 k, pos>>

NextClosure ==
  /\ phase = "scavenge"
  /\ pos <= free[closures[k]]
  /\ ~ PayloadLeft
  /\ pos' = pos + 1
  /\ fld' = 1
  /\ UNCHANGED <<mem, free, blockVars, heap, nextGC, num_gcs, rootVars, phase,
                 todo, k>>

\* The end of a block: set kScavenged and follow link_ to the next older
\* block, or go back to the head of the loop when that one is scavenged.
BlockScavenged ==
  /\ phase = "scavenge"
  /\ pos > free[closures[k]]
  /\ scavenged' = scavenged \cup {closures[k]}
  /\ IF k > 1 /\ closures[k - 1] \notin scavenged
     THEN k' = k - 1 /\ pos' = 1 /\ fld' = 1 /\ UNCHANGED phase
     ELSE k' = 0 /\ pos' = 0 /\ fld' = 0 /\ phase' = "blocks"
  /\ UNCHANGED <<mem, free, closures, old_heap, free_list, heap, nextGC,
                 num_gcs, rootVars, todo>>

Max2(m, n) == IF m > n THEN m ELSE n

\* The end of performGC: clear the kScavenged flags, free the old blocks,
\* set the distance to the next collection, and give the mutator the bounds
\* of the newest block.
FinishGC ==
  /\ phase = "blocks"
  /\ Head1 \in scavenged
  /\ scavenged' = {}
  /\ free_list' = free_list \cup old_heap
  /\ old_heap' = {}
  /\ mem' = [a \in Addr |-> IF a[1] \in old_heap THEN FreeCell ELSE mem[a]]
  /\ free' = [b \in Block |-> IF b \in old_heap THEN 0 ELSE free[b]]
  /\ nextGC' = Max2(Len(closures), MinHeapSize) + 1
  /\ heap' = free[Head1]
  /\ phase' = "mutator"
  /\ UNCHANGED <<closures, num_gcs, rootVars, todo, cursorVars>>

-----------------------------------------------------------------------------

Mutate ==
  \/ \E s \in Slot, ty \in AllocType, args \in [Field -> Slot \cup {Null}] :
       Alloc(s, ty, args)
  \/ \E s, t \in Slot, f \in Field : LoadField(s, t, f)
  \/ \E s, t \in Slot, f \in Field : InitField(s, t, f)
  \/ \E s \in Slot, x \in Ref \cup {Null} : SetSlot(s, x)
  \/ \E s \in Slot : FollowInd(s)
  \/ \E s, t \in Slot : Update(s, t)
  \/ BumpAllocatorFull
  \/ StartGC

Collect ==
  \/ \E s \in Slot : EvacRoot(s)
  \/ StackDone
  \/ \E c \in Caf : EvacCaf(c)
  \/ StaticDone
  \/ PickBlock
  \/ ScavengeField
  \/ NextClosure
  \/ BlockScavenged
  \/ FinishGC

Next == Mutate \/ Collect

\* performGC runs to completion once it is entered.
Spec == Init /\ [][Next]_vars /\ WF_vars(Collect)

-----------------------------------------------------------------------------
(***************************************************************************)
(* Properties.                                                             *)
(***************************************************************************)

TypeOK ==
  /\ mem \in [Addr -> Cell]
  /\ free \in [Block -> 0..BlockSize]
  /\ closures \in Seq(Block) /\ Len(closures) > 0
  /\ old_heap \in SUBSET Block
  /\ free_list \in SUBSET Block
  /\ scavenged \in SUBSET Block
  /\ heap \in 0..BlockSize
  /\ nextGC \in Nat /\ num_gcs \in Nat
  /\ root \in [Slot -> Ref \cup {Null}]
  /\ caf \in [Caf -> Ref \cup {Null}]
  /\ static_roots \in SUBSET Caf
  /\ phase \in {"mutator", "roots", "static", "blocks", "scavenge"}
  /\ todo \in SUBSET (Slot \cup Caf)
  /\ k \in Nat /\ pos \in Nat /\ fld \in Nat

\* The closures of a set of blocks: the cells below the allocation limit.
Limit(b) == IF phase = "mutator" /\ b = Head1 THEN heap ELSE free[b]
Allocated(B) == {a \in Addr : a[1] \in B /\ a[2] <= Limit(a[1])}

\* While the program runs, everything it can reach - and in fact every
\* closure of the heap - refers only to closures in blocks of closures_,
\* and never to a cell that is unused, forwarded or in a freed block
\* (sanityCheckHeap; "Everything reachable from the roots must be in a
\* k[Static]Closures block now" at the end of performGC).
HeapClosed ==
  phase = "mutator" =>
    LET ok == {a \in Allocated(Closures) : mem[a].type \in Type \cup {"IND"}}
              \cup Static \cup {Null}
    IN /\ \A s \in Slot : root[s] \in ok
       /\ \A c \in Caf : caf[c] \in ok
       /\ \A a \in Allocated(Closures), f \in Field : mem[a].ptrs[f] \in ok

\* A block belongs to at most one of closures_, old_heap_ and free_, occurs
\* there once, and free blocks are empty.
BlocksDisjoint ==
  /\ \A m, n \in 1..Len(closures) : closures[m] = closures[n] => m = n
  /\ Closures \cap old_heap = {}
  /\ Closures \cap free_list = {}
  /\ old_heap \cap free_list = {}
  /\ \A b \in Block \ (Closures \cup old_heap) : free[b] = 0

\* Sharing: no closure exists twice, whatever the collector is doing, so a
\* thunk is never evaluated twice because it was copied twice.
NoDuplicates ==
  \A a, b \in Addr :
    mem[a].type \in Type /\ mem[b].type \in Type /\ mem[a].id = mem[b].id
      => a = b

\* The copies the collector makes are closures: scavengeBlock never meets an
\* indirection (its default case exits) or a forwarding pointer (its
\* assertion).
ToSpaceClosures ==
  phase # "mutator" => \A a \in Allocated(Closures) : mem[a].type \in Type

\* The heap the program sees: the closures by identity, indirections and
\* forwarding pointers resolved.
Abs(a) == [id |-> mem[a].id, type |-> mem[a].type,
           fields |-> [f \in Field |-> IdOf(mem[a].ptrs[f])]]

Heap == INSTANCE LazyHeap WITH
  root  <- [s \in Slot |-> IdOf(root[s])],
  caf   <- [c \in Caf |-> IdOf(caf[c])],
  nodes <- {Abs(a) : a \in {b \in Addr : mem[b].type \in Type}}

\* The heap with its collector implements LazyHeap: no step of the collector
\* is visible to the program, except that garbage disappears.
ImplementsLazyHeap == Heap!Spec

\* A collection that was started ends.
GCTerminates == phase # "mutator" ~> phase = "mutator"
-----------------------------------------------------------------------------
(***************************************************************************)
(* The inductive invariant.  IInv is what CopyingGCProofs proves; the      *)
(* properties above that are invariants follow from it.                    *)
(***************************************************************************)

\* Where a pointer may lead: during a collection to a closure of the old heap
\* or to a copy, while the program runs to a closure of the heap.
FromRef == {a \in Addr : a[1] \in old_heap /\ mem[a].type # "FREE"} \cup Static
ToRef == {a \in Addr : a[1] \in Closures /\ mem[a].type \in Type} \cup Static
HeapRef ==
  {a \in Addr : a[1] \in Closures /\ mem[a].type \in Type \cup {"IND"}}
    \cup Static

\* A cell is in use exactly if it lies below its block's allocation limit.
CellsInv == \A a \in Addr : mem[a].type = "FREE" <=> a[2] > Limit(a[1])

\* Identities: closures have one, no two the same, and an indirection or a
\* forwarding pointer has that of its target.
IdInv ==
  /\ \A a \in Addr : mem[a].type \in Type => mem[a].id \in Id
  /\ \A a \in Addr : mem[a].type \in {"IND", "FWD"} =>
       mem[a].ptrs[1] \in Ref /\ mem[a].id = IdOf(mem[a].ptrs[1])

StaticInv == \A c \in Caf : c \in static_roots <=> caf[c] # Null

MutatorInv ==
  phase = "mutator" =>
    /\ old_heap = {} /\ scavenged = {} /\ todo = {} /\ nextGC > 0
    /\ \A a \in Addr : mem[a].type # "FWD"
    /\ \A a \in Addr : mem[a].type = "IND" => IsHNF(mem[a].ptrs[1])
    /\ \A a \in Addr, f \in Field :
         mem[a].type # "FREE" => mem[a].ptrs[f] \in HeapRef \cup {Null}
    /\ \A s \in Slot : root[s] \in HeapRef \cup {Null}
    /\ \A c \in Caf : caf[c] \in HeapRef \cup {Null}

\* Which slots and static roots have been evacuated.
RootsInv ==
  phase # "mutator" =>
    /\ \A s \in Slot : root[s] \in IF phase = "roots" /\ s \in todo
                                   THEN FromRef ELSE ToRef \cup {Null}
    /\ \A c \in Caf : caf[c] \in
         IF phase = "roots" \/ (phase = "static" /\ c \in todo)
         THEN FromRef \cup {Null} ELSE ToRef \cup {Null}
    /\ phase = "roots" => todo \subseteq Slot
    /\ phase = "static" => todo \subseteq static_roots
    /\ phase \in {"blocks", "scavenge"} => todo = {}

\* The old heap refers to itself, except that a copied closure refers to its
\* copy.
FromInv ==
  phase # "mutator" =>
    \A a \in Addr : a[1] \in old_heap =>
      /\ mem[a].type \in Type \cup {"IND"} =>
           \A f \in Field : mem[a].ptrs[f] \in FromRef \cup {Null}
      /\ mem[a].type = "IND" => mem[a].ptrs[1] \in FromRef
      /\ mem[a].type = "FWD" => mem[a].ptrs[1] \in ToRef \ Static

Scanned(a, f) ==
  \/ a[1] \in scavenged
  \/ /\ phase = "scavenge"
     /\ a[1] = closures[k]
     /\ a[2] < pos \/ (a[2] = pos /\ f < fld)

\* The copies refer to copies where they have been scavenged and to the old
\* heap where they have not.
ToInv ==
  phase # "mutator" =>
    \A a \in Addr : a[1] \in Closures /\ mem[a].type # "FREE" =>
      /\ mem[a].type \in Type
      /\ \A f \in Field : mem[a].ptrs[f] \in
           IF Scanned(a, f) THEN ToRef \cup {Null} ELSE FromRef \cup {Null}

\* The order in which blocks are scavenged: the scavenged blocks are the
\* oldest ones (but for the walk in progress), and a scavenged block never
\* receives copies.
LoopInv ==
  /\ scavenged \subseteq Closures
  /\ phase \in {"roots", "static"} => scavenged = {}
  /\ phase = "blocks" =>
       \A x, y \in 1..Len(closures) :
         x < y /\ closures[y] \in scavenged => closures[x] \in scavenged
  /\ phase = "scavenge" =>
       /\ k \in 1..Len(closures)
       /\ pos > 0 /\ pos <= free[closures[k]] + 1 /\ fld > 0
       /\ closures[k] \notin scavenged
       /\ \A x, y \in 1..Len(closures) :
            /\ x < y /\ closures[y] \in scavenged
            /\ y < k \/ x > k
            => closures[x] \in scavenged
       /\ k < Len(closures) => Head1 \notin scavenged
       /\ k = Len(closures) /\ k > 1 => closures[k - 1] \in scavenged

\* The inductive invariant of the heap and its collector.
IInv == /\ TypeOK
        /\ BlocksDisjoint
        /\ CellsInv
        /\ NoDuplicates
        /\ IdInv
        /\ StaticInv
        /\ MutatorInv
        /\ RootsInv
        /\ FromInv
        /\ ToInv
        /\ LoopInv
=============================================================================
