------------------------------ MODULE Storage -------------------------------
(***************************************************************************)
(* Where memory comes from (vm/memorymanager.cc): regions mapped from the  *)
(* operating system, the blocks they are divided into, the lists of blocks *)
(* by what they hold, and the write protection of info tables.             *)
(*                                                                         *)
(* Addresses are counted in units of which a region has RegionUnits.  A    *)
(* block is <<region, index>>.  Block 0 of a region shares its first page  *)
(* with the region's metadata, so it does not begin at a page and cannot   *)
(* be protected.  The build is the one without assertions: where mprotect  *)
(* fails the program goes on.                                              *)
(***************************************************************************)
EXTENDS Naturals, Sequences, FiniteSets, SequencesExt

CONSTANTS
  RegionUnits,   \* kRegionSize
  AddressTop,    \* the units mmap has to give
  RegionEnd,     \* kMMapRegionEnd
  MaxAttempts,   \* the attempts newRegion makes
  PerRegion,     \* kBlocksPerRegion
  KindOrder,     \* the kinds of blocks, as the constructor takes one of each
  Capacity,      \* how many objects fit into a block
  MaxRegions,    \* bound on the number of regions
  MaxLevel       \* bound on nested AllocInfoTableHandles

Kinds == Range(KindOrder)

ASSUME StorageAssumption ==
  /\ {RegionUnits, AddressTop, RegionEnd, MaxAttempts, PerRegion, Capacity,
      MaxRegions, MaxLevel} \subseteq Nat \ {0}
  /\ KindOrder \in Seq(STRING) /\ {"info", "closures"} \subseteq Kinds
  /\ KindOrder[1] # "info" /\ Kinds \cap {"none", "large", "free", "old"} = {}
  /\ Len(KindOrder) <= PerRegion

VARIABLES
  hint,       \* alloc_hint
  mapped,     \* the units that are mapped
  regions,    \* the regions, in the order they were made: the address, and
              \*   the index of the next free block (next_free_)
  large,      \* the addresses of the regions for large objects
  request,    \* the call of newRegion in progress: what for, the size that
              \*   is asked for and the attempts made
  chain,      \* for each kind its blocks, the current one first
  freeBlocks, \* free_
  used,       \* the number of objects in a block
  want,       \* the kind of object for which a block is being fetched
  oldHeap,    \* old_heap_
  readOnly,   \* the blocks that are write protected
  level,      \* beginAllocInfoTableLevel_
  stopped     \* the program gave up

storageVars == <<hint, mapped, regions, large, request, chain, freeBlocks, used,
                 want, oldHeap, readOnly, level, stopped>>
mapVars == <<hint, mapped, regions, large, request, stopped>>
blockVars == <<chain, freeBlocks, used, want, oldHeap, readOnly, level>>

NoRequest == [for |-> "none", size |-> 0, attempts |-> 0]
Units(a, n) == a..(a + n - 1)
RegionBytes(a) == Units(a, RegionUnits)
Aligned(a) == a % RegionUnits = 0
alignToRegionBoundary(a) == ((a + RegionUnits - 1) \div RegionUnits) * RegionUnits
isPageAligned(b) == b[2] # 0
Idle == ~ stopped /\ request = NoRequest /\ want = "none" /\ oldHeap = << >>
Used(b) == IF b \in DOMAIN used THEN used[b] ELSE 0

\* The constructor: the first region, and a block for each kind.
StorageInit ==
  /\ hint = 2 * RegionUnits
  /\ mapped = RegionBytes(RegionUnits)
  /\ regions = << [base |-> RegionUnits, nextFree |-> Len(KindOrder)] >>
  /\ large = {} /\ request = NoRequest
  /\ chain = [k \in Kinds |-> << <<1, (CHOOSE i \in DOMAIN KindOrder : KindOrder[i] = k) - 1>> >>]
  /\ freeBlocks = << >> /\ used = << >> /\ want = "none" /\ oldHeap = << >>
  /\ readOnly = {Head(chain["info"])}
  /\ level = 0 /\ stopped = FALSE

-----------------------------------------------------------------------------
(***************************************************************************)
(* newRegion.                                                              *)
(***************************************************************************)

Pending == ~ stopped /\ request # NoRequest

NewRegionFor(k) == request' = [for |-> k, size |-> RegionUnits, attempts |-> 0]

\* The region at address a is there.  What wanted a block gets its first one.
HaveRegion(a) ==
  /\ request' = NoRequest
  /\ IF request.for = "large"
     THEN large' = large \cup {a} /\ UNCHANGED <<regions, chain>>
     ELSE /\ regions' = Append(regions, [base |-> a, nextFree |-> 1])
          /\ chain' = [chain EXCEPT ![request.for] = << <<Len(regions) + 1, 0>> >> \o @]
          /\ UNCHANGED large
  /\ UNCHANGED <<freeBlocks, used, want, oldHeap, readOnly, level, stopped>>

\* An attempt that gave no region.
Attempted(h, n) ==
  /\ hint' = h
  /\ request' = [request EXCEPT !.size = n, !.attempts = @ + 1]
  /\ stopped' = (request.attempts + 1 > MaxAttempts \/ h >= RegionEnd)
  /\ UNCHANGED <<regions, large, blockVars>>

\* mmap returns address p; it takes alloc_hint for a hint only.
MapAligned(p) ==
  /\ Aligned(p)
  /\ mapped' = mapped \cup Units(p, request.size)
  /\ hint' = hint + request.size
  /\ HaveRegion(p)

\* The region fits behind the next boundary; the rest is unmapped.
FitsTooEarly(p) == TRUE
FitsAligned(p) == alignToRegionBoundary(p) + RegionUnits <= p + request.size
MapTrimmed(p) ==
  /\ ~ Aligned(p) /\ FitsAligned(p)
  /\ LET a == alignToRegionBoundary(p)
     IN /\ mapped' = mapped \cup (Units(p, request.size) \cap RegionBytes(a))
        /\ hint' = a + RegionUnits
        /\ HaveRegion(a)

\* It does not fit: all is unmapped, and the next attempt asks for enough.
MapUnaligned(p) ==
  /\ ~ Aligned(p) /\ ~ FitsAligned(p)
  /\ Attempted(p, alignToRegionBoundary(p) + RegionUnits - p)
  /\ UNCHANGED mapped

MapFails == Attempted(hint, request.size) /\ UNCHANGED mapped

MMap ==
  /\ Pending
  /\ \/ \E p \in {q \in 1..(AddressTop - request.size) : Units(q, request.size) \cap mapped = {}} :
          MapAligned(p) \/ MapTrimmed(p) \/ MapUnaligned(p)
     \/ MapFails

-----------------------------------------------------------------------------
(***************************************************************************)
(* Blocks.                                                                 *)
(***************************************************************************)

\* grabFreeBlock for kind k, put in front of the blocks in ch: from free_,
\* from the newest region, or from a new one, which takes further steps.
GrabFreeBlock(k, ch) ==
  LET r == Len(regions) IN
  \/ /\ freeBlocks # << >>
     /\ chain' = [ch EXCEPT ![k] = <<Head(freeBlocks)>> \o @]
     /\ freeBlocks' = Tail(freeBlocks)
     /\ UNCHANGED <<regions, request>>
  \/ /\ freeBlocks = << >> /\ regions[r].nextFree < PerRegion
     /\ chain' = [ch EXCEPT ![k] = << <<r, regions[r].nextFree>> >> \o @]
     /\ regions' = [regions EXCEPT ![r].nextFree = @ + 1]
     /\ UNCHANGED <<freeBlocks, request>>
  \/ /\ freeBlocks = << >> /\ regions[r].nextFree = PerRegion
     /\ Len(regions) < MaxRegions
     /\ chain' = ch /\ NewRegionFor(k)
     /\ UNCHANGED <<freeBlocks, regions>>

Room(k) == Used(Head(chain[k])) < Capacity
Put(k) == used' = [b \in DOMAIN used \cup {Head(chain[k])} |->
                     IF b = Head(chain[k]) THEN Used(b) + 1 ELSE used[b]]

\* allocInto, for static closures, strings and bytecode: an object that fits,
\* or blockFull and then the object.
AllocInto(k) ==
  /\ k \notin {"info", "closures"} /\ ~ stopped /\ request = NoRequest /\ oldHeap = << >>
  /\ \/ want \in {"none", k} /\ Room(k) /\ Put(k) /\ want' = "none"
        /\ UNCHANGED <<chain, freeBlocks, regions, request>>
     \/ want = "none" /\ ~ Room(k) /\ GrabFreeBlock(k, chain) /\ want' = k /\ UNCHANGED used
  /\ UNCHANGED <<hint, mapped, large, oldHeap, readOnly, level, stopped>>

\* The bump allocator's block is full: blockFull, or a collection, which
\* first takes a block to copy to.
BumpAllocatorFull ==
  /\ Idle /\ level = 0
  /\ \/ GrabFreeBlock("closures", chain) /\ UNCHANGED oldHeap
     \/ GrabFreeBlock("closures", [chain EXCEPT !["closures"] = << >>]) /\ oldHeap' = chain["closures"]
  /\ UNCHANGED <<hint, mapped, large, used, want, readOnly, level, stopped>>

\* evacuate fills the block.
EvacuateFull ==
  /\ ~ stopped /\ request = NoRequest /\ oldHeap # << >>
  /\ Len(chain["closures"]) < Len(oldHeap)
  /\ GrabFreeBlock("closures", chain)
  /\ UNCHANGED <<hint, mapped, large, used, want, oldHeap, readOnly, level, stopped>>

\* The end of performGC: the old blocks are free.
FreeOldHeap ==
  /\ ~ stopped /\ request = NoRequest /\ oldHeap # << >>
  /\ freeBlocks' = Reverse(oldHeap) \o freeBlocks
  /\ oldHeap' = << >>
  /\ UNCHANGED <<mapVars, chain, used, want, readOnly, level>>

\* allocLarge when no region has room; here once.
NewLargeRegion ==
  /\ Idle /\ large = {}
  /\ NewRegionFor("large")
  /\ UNCHANGED <<hint, mapped, regions, large, stopped, blockVars>>

-----------------------------------------------------------------------------
(***************************************************************************)
(* Info tables.                                                            *)
(***************************************************************************)

\* mprotect works on pages.
markBlockReadOnly(b) == IF isPageAligned(b) THEN readOnly \cup {b} ELSE readOnly
markBlockReadWrite(b) == IF isPageAligned(b) THEN readOnly \ {b} ELSE readOnly

BeginAllocInfoTable ==
  /\ Idle /\ level < MaxLevel
  /\ readOnly' = IF level = 0 THEN markBlockReadWrite(Head(chain["info"])) ELSE readOnly
  /\ level' = level + 1
  /\ UNCHANGED <<mapVars, chain, freeBlocks, used, want, oldHeap>>

ProtectEveryLevel ==
  /\ Idle /\ level > 0
  /\ level' = level - 1
  /\ readOnly' = markBlockReadOnly(Head(chain["info"]))
  /\ UNCHANGED <<mapVars, chain, freeBlocks, used, want, oldHeap>>
EndAllocInfoTable ==
  /\ Idle /\ level > 0
  /\ level' = level - 1
  /\ readOnly' = IF level' = 0 THEN markBlockReadOnly(Head(chain["info"])) ELSE readOnly
  /\ UNCHANGED <<mapVars, chain, freeBlocks, used, want, oldHeap>>

\* allocInfoTable: an info table that fits.  A block fetched for it that
\* does not begin at a page is passed over.
AllocInfoTable ==
  /\ ~ stopped /\ request = NoRequest /\ oldHeap = << >> /\ level > 0
  /\ want \in {"none", "info"} /\ Room("info")
  /\ want = "info" => isPageAligned(Head(chain["info"]))
  /\ Put("info") /\ want' = "none"
  /\ UNCHANGED <<mapVars, chain, freeBlocks, oldHeap, readOnly, level>>

\* The current block is full, or the one just fetched does not begin at a
\* page: it is protected and another one is fetched.
AllocInfoTableFull ==
  /\ ~ stopped /\ request = NoRequest /\ oldHeap = << >> /\ level > 0
  /\ \/ want = "none" /\ ~ Room("info")
     \/ want = "info" /\ ~ isPageAligned(Head(chain["info"]))
  /\ readOnly' = markBlockReadOnly(Head(chain["info"]))
  /\ GrabFreeBlock("info", chain)
  /\ want' = "info"
  /\ UNCHANGED <<hint, mapped, large, used, oldHeap, level, stopped>>

StorageNext ==
  \/ MMap
  \/ \E k \in Kinds : AllocInto(k)
  \/ BumpAllocatorFull
  \/ EvacuateFull
  \/ FreeOldHeap
  \/ NewLargeRegion
  \/ BeginAllocInfoTable
  \/ EndAllocInfoTable
  \/ AllocInfoTable
  \/ AllocInfoTableFull

StorageSpec == StorageInit /\ [][StorageNext]_storageVars

-----------------------------------------------------------------------------
(***************************************************************************)
(* Properties.                                                             *)
(***************************************************************************)

Bases == {regions[i].base : i \in DOMAIN regions} \cup large

\* Whatever addresses mmap returns and however often it must be asked, a
\* region is mapped, aligned (regionFromPointer and blockFromPointer mask
\* the bits of an address) and shares no memory with another (newRegion).
RegionsExact ==
  /\ \A a \in Bases : Aligned(a) /\ RegionBytes(a) \subseteq mapped
  /\ Len(regions) = Cardinality({regions[i].base : i \in DOMAIN regions})
  /\ {regions[i].base : i \in DOMAIN regions} \cap large = {}

\* The lists of blocks.
Lists == Kinds \cup {"free", "old"}
Blocks == [l \in Lists |-> CASE l = "free" -> freeBlocks
                             [] l = "old" -> oldHeap
                             [] OTHER -> chain[l]]

\* Between loads every info table is in a block that is write protected;
\* while a handle is held, nested or not, the block allocInfoTable writes to
\* is not; no other block is ever protected; and no block is on two lists
\* or twice on one (allocInfoTable, beginAllocInfoTable, endAllocInfoTable,
\* grabFreeBlock, blockFull, performGC).
InfoTablesProtected ==
  /\ level = 0 => \A b \in Range(chain["info"]) : Used(b) > 0 => b \in readOnly
  /\ level > 0 /\ want = "none" => Head(chain["info"]) \notin readOnly
  /\ readOnly \subseteq Range(chain["info"])
  /\ LET on == Blocks IN
     \A l, m \in Lists : \A i \in DOMAIN on[l], j \in DOMAIN on[m] :
       on[l][i] = on[m][j] => l = m /\ i = j
=============================================================================
