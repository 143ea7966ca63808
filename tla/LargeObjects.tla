---------------------------- MODULE LargeObjects ----------------------------
(***************************************************************************)
(* Byte arrays and other objects that do not fit into a block              *)
(* (vm/memorymanager.cc allocLarge, evacuateLarge; NEWBYTEA in             *)
(* vm/capability.cc; the list operations of vm/objects.hh).                *)
(*                                                                         *)
(* Addresses are natural numbers.  A region is RegionSize long, aligned to *)
(* RegionSize, and begins with a header of HeaderSize.  The size of an     *)
(* object includes its LargeObject header.  Objects are numbered in the    *)
(* order of their allocation, and 0 is the null pointer.                   *)
(*                                                                         *)
(* scavengeLarge and sweepLargeObjects are not modelled: no code calls     *)
(* them, so marked objects stay marked.                                    *)
(***************************************************************************)
EXTENDS Naturals, Sequences

CONSTANTS
  RegionSize,   \* Region::kRegionSize
  HeaderSize,   \* sizeof(LargeObjectRegionData)
  NumRegions,   \* regions the operating system can provide
  MaxObjects,   \* bound on the number of objects
  Sizes         \* the sizes of objects the program asks for

ASSUME LargeObjectsAssumption ==
  /\ {RegionSize, HeaderSize, NumRegions, MaxObjects} \subseteq Nat
  /\ Sizes \subseteq 1..(RegionSize - HeaderSize)  \* maxLargeObjectSize

VARIABLES
  start,    \* the regions on the list largeObjectRegion_, newest first:
  free,     \*   their addresses and their free_
  addr,     \* of each object: its address,
  size,     \*   its size,
  next,     \*   next_,
  prev,     \*   prev_,
  mark,     \*   and whether its mark is set
  largeObjects,           \* the first object of largeObjects_
  evacuatedLargeObjects   \* the first object of evacuatedLargeObjects_

largeVars == <<start, free, addr, size, next, prev, mark, largeObjects,
          evacuatedLargeObjects>>
regionVars == <<start, free>>

Objects == 1..Len(addr)
Region == 1..Len(start)

\* end_ as newRegion sets it: free_ + kRegionSize.
End(r) == start[r] + HeaderSize + RegionSize

LargeInit ==
  /\ start = << >> /\ free = << >>
  /\ addr = << >> /\ size = << >> /\ next = << >> /\ prev = << >>
  /\ mark = << >>
  /\ largeObjects = 0
  /\ evacuatedLargeObjects = 0

\* The object at address a is put in front of largeObjects_.
NewObject(a, n) ==
  /\ addr' = Append(addr, a)
  /\ size' = Append(size, n)
  /\ next' = Append(next, largeObjects)
  /\ prev' = Append(prev, 0)
  /\ mark' = Append(mark, FALSE)
  /\ largeObjects' = Len(addr) + 1
  /\ UNCHANGED evacuatedLargeObjects

\* The test of allocLarge for the region r of the list.  It compares with
\* the end of the first region of the list.
Fits(r, n) == free[r] + n <= End(1)

\* The free_ pointers after the object was put into region r.  It is that of
\* the first region that is set.
Advanced(r, n) == [free EXCEPT ![1] = free[r] + n]

\* allocLarge when a region of the list passes the test.
AllocInRegion(n) ==
  /\ Len(addr) < MaxObjects
  /\ \E r \in Region :
       /\ Fits(r, n)
       /\ \A q \in 1..(r - 1) : ~ Fits(q, n)
       /\ free' = Advanced(r, n)
       /\ NewObject(free[r], n)
  /\ UNCHANGED start

\* allocLarge with a new region, at an address mmap chooses.
AllocNewRegion(n, s) ==
  /\ Len(addr) < MaxObjects
  /\ \A r \in Region : ~ Fits(r, n) /\ start[r] # s
  /\ start' = <<s>> \o start
  /\ free' = <<s + HeaderSize + n>> \o free
  /\ NewObject(s + HeaderSize, n)

\* unlinkLargeObject(o, &largeObjects_), then the object is put in front of
\* evacuatedLargeObjects_.
Evacuate(o) ==
  /\ next' = [i \in Objects |->
                CASE i = o -> evacuatedLargeObjects
                  [] i = prev[o] -> next[o]
                  [] OTHER -> next[i]]
  /\ largeObjects' = IF prev[o] = 0 THEN next[o] ELSE largeObjects
  /\ prev' = [i \in Objects |->
                CASE i = o -> 0
                  [] i = next[o] -> prev[o]
                  [] OTHER -> prev[i]]
  /\ evacuatedLargeObjects' = o

\* evacuateLarge of an object a collection reaches.  evacuate looks up the
\* block of the object first, in the metadata a region of large objects does
\* not have, so whether it gets here is undefined: any object may or may not
\* be evacuated.
NoMarkCheck(o) == TRUE
NotEvacuated(o) == ~ mark[o]
EvacuateLarge(o) ==
  /\ NotEvacuated(o)
  /\ mark' = [mark EXCEPT ![o] = TRUE]
  /\ Evacuate(o)
  /\ UNCHANGED <<regionVars, addr, size>>

LargeNext ==
  \/ \E n \in Sizes : AllocInRegion(n)
  \/ \E n \in Sizes, s \in {i * RegionSize : i \in 1..NumRegions} :
       AllocNewRegion(n, s)
  \/ \E o \in Objects : EvacuateLarge(o)

LargeSpec == LargeInit /\ [][LargeNext]_largeVars

-----------------------------------------------------------------------------
(***************************************************************************)
(* Properties.                                                             *)
(***************************************************************************)

\* No two objects share memory.
ObjectsDisjoint ==
  \A o, p \in Objects :
    o # p => addr[o] + size[o] <= addr[p] \/ addr[p] + size[p] <= addr[o]

\* The objects found by following next_ from o; a list that does not end
\* within as many steps as there are objects is cyclic.
Follow(o) ==
  LET walk[i \in 0..MaxObjects] ==
        IF i = 0 THEN o
        ELSE IF walk[i - 1] = 0 THEN 0 ELSE next[walk[i - 1]]
  IN walk
OnList(o) == {Follow(o)[i] : i \in 0..MaxObjects} \ {0}

\* Every object that was marked is on the list of evacuated objects, no
\* other is, and the list ends: "grey: it's in the evacuatedLargeObjects_
\* list and it is marked".  (The list of the others loses objects: the links
\* of allocLarge back to the first object are incomplete.)
EvacuatedExact ==
  /\ OnList(evacuatedLargeObjects) = {o \in Objects : mark[o]}
  /\ Follow(evacuatedLargeObjects)[MaxObjects] = 0
=============================================================================
