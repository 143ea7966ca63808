---------------------------- MODULE MiscClosures ----------------------------
(***************************************************************************)
(* The closures and info tables the virtual machine makes for itself       *)
(* (vm/miscclosures.cc), with the pointer maps of their frames as the      *)
(* collector reads them (scavengeFrame, scavengeStack of                   *)
(* vm/memorymanager.cc).                                                   *)
(*                                                                         *)
(* A pointer mask is a natural number.  A map is a sequence of chunks: the *)
(* lower ChunkBits bits (15 in the code) of a chunk tell the pointers, the *)
(* next one that another chunk follows.  A continuation keeps its maps     *)
(* behind its code; the word before its return address has the offset of   *)
(* the map of the pointers, behind which is that of the live registers.    *)
(***************************************************************************)
EXTENDS Naturals, Sequences, FiniteSets, SequencesExt

CONSTANTS
  ChunkBits,       \* 15
  MaxSmallArity,   \* kMaxSmallArity
  MaxArgs,         \* the most arguments that are asked for
  MaxOthers        \* bound on the entries of the hash tables

\* A mask has no more bits than three chunks.
ASSUME MiscClosuresAssumption ==
  /\ {ChunkBits, MaxSmallArity, MaxArgs, MaxOthers} \subseteq Nat \ {0}
  /\ 2 * ChunkBits + 2 <= 3 * ChunkBits
  /\ MaxArgs <= 2 * ChunkBits + 2

VARIABLES
  otherApConts,   \* the hash tables, by index
  otherApInfos,
  asked           \* the last call and its result

miscVars == <<otherApConts, otherApInfos, asked>>

MaskBits2 == 2 * ChunkBits + 2     \* the width of a mask
kNoMask == 2^MaskBits2 - 1         \* ~0
Cont == 2^ChunkBits                \* BITMASK_CONT
Bit(m, i) == (m \div 2^i) % 2
BitsOf(m, n) == {i \in 0..(n - 1) : Bit(m, i) = 1}

-----------------------------------------------------------------------------
(***************************************************************************)
(* Maps.                                                                   *)
(***************************************************************************)

bitmapSize(m) == IF m < 2^ChunkBits THEN 1 ELSE IF m < 2^(2 * ChunkBits) THEN 2 ELSE 3

Chunk(m, i) == (m \div 2^(ChunkBits * (i - 1))) % 2^ChunkBits

ContOnNonzero(m) ==
  [i \in 1..bitmapSize(m) |->
     Chunk(m, i) + IF i < bitmapSize(m) /\ Chunk(m, i + 1) # 0 THEN Cont ELSE 0]
encodeBitmask(m) ==
  [i \in 1..bitmapSize(m) |-> Chunk(m, i) + IF i < bitmapSize(m) THEN Cont ELSE 0]

\* The translation of topOfStackMask_ by scavengeStack.
topOfStackMap(m) ==
  LET c3 == Chunk(m, 3)
      c2 == Chunk(m, 2) + IF c3 # 0 THEN Cont ELSE 0
  IN <<Chunk(m, 1) + (IF c2 # 0 THEN Cont ELSE 0), c2, c3>>

\* The registers that scavengeFrame evacuates.  The chunk that is not
\* followed by another ends the loop; one that is takes all its turns.
scavengeFrame(map) ==
  LET last == CHOOSE i \in DOMAIN map :
                map[i] < Cont /\ \A j \in 1..(i - 1) : map[j] >= Cont
  IN {(p[1] - 1) * ChunkBits + p[2] : p \in
        {q \in (1..last) \X (0..(ChunkBits - 1)) : Bit(map[q[1]], q[2]) = 1}}

\* What follows the first map.
Behind(map) ==
  LET last == CHOOSE i \in DOMAIN map :
                map[i] < Cont /\ \A j \in 1..(i - 1) : map[j] >= Cont
  IN SubSeq(map, last + 1, Len(map))

-----------------------------------------------------------------------------
(***************************************************************************)
(* The objects.                                                            *)
(***************************************************************************)

\* The code between EVAL and its continuation: code[ret] is what a return
\* executes first, code[ret - 1] leads to the map.
initStopClosure ==
  [framesize |-> 2, code |-> << <<"EVAL", 0>>, <<"MAP", 1>>, <<"STOP">> >>,
   ret |-> 3, maps |-> <<0, 0>>]
initUpdateClosure ==
  [framesize |-> 2,
   code |-> << <<"EVAL", 0>>, <<"MAP", 1>>, <<"MOV_RES", 1>>, <<"UPDATE", 0, 1>>, <<"IRET", 1>> >>,
   ret |-> 3, maps |-> <<1, 1>>]

livemask(n) == 2^n - 1
buildApCont(n, m) ==
  [framesize |-> n + 1,
   code |-> << <<"IFUNC", n + 1>>, <<"EVAL", n>>, <<"MAP", 1>>, <<"MOV_RES", n>>,
               <<"CALLT", n, n>>, <<"POINTERS", m>> >>,
   ret |-> 4, maps |-> encodeBitmask(m) \o encodeBitmask(livemask(n))]

\* The thunk of an application: its payload is the function and the
\* arguments; payload word i is free variable i + 1.
buildApInfo(n, m) ==
  [size |-> 1 + n, bitmap |-> 2 * m + 1, framesize |-> 1 + n,
   code |-> << <<"IFUNC", 1 + n>>, <<"LOADFV", n, 1>> >>
              \o [i \in 1..n |-> <<"LOADFV", i - 1, i + 1>>]
              \o << <<"CALLT", n, n>>, <<"POINTERS", m>> >>]

\* The index of an application, in the arrays and in the hash tables.
apContIndex(n, m) == 2^n - 2 + m

Calls == UNION {{n} \X (0..(2^n - 1)) : n \in 1..MaxArgs}
SmallCalls == {c \in Calls : c[1] <= MaxSmallArity}

\* The arrays that init fills.
smallApConts ==
  [i \in {apContIndex(c[1], c[2]) : c \in SmallCalls} |->
     LET c == CHOOSE x \in SmallCalls : apContIndex(x[1], x[2]) = i IN buildApCont(c[1], c[2])]
smallApInfos ==
  [i \in {apContIndex(c[1], c[2]) : c \in SmallCalls} |->
     LET c == CHOOSE x \in SmallCalls : apContIndex(x[1], x[2]) = i IN buildApInfo(c[1], c[2])]

\* The table with the object for index i, which is b if there is none yet.
Lookup(table, i, b) == [x \in DOMAIN table \cup {i} |-> IF x \in DOMAIN table THEN table[x] ELSE b]

Answer(what, n, m, object) == asked' = [what |-> what, n |-> n, mask |-> m, object |-> object]

MiscInit ==
  /\ otherApConts = << >> /\ otherApInfos = << >>
  /\ asked = [what |-> "stop", n |-> 0, mask |-> 0, object |-> initStopClosure]

getApCont(n, m) ==
  /\ LET i == apContIndex(n, m)
         found == Lookup(otherApConts, i, buildApCont(n, m))
     IN IF n <= MaxSmallArity
        THEN UNCHANGED otherApConts /\ Answer("cont", n, m, smallApConts[i])
        ELSE /\ Cardinality(DOMAIN found) + Cardinality(DOMAIN otherApInfos) <= MaxOthers
             /\ otherApConts' = found /\ Answer("cont", n, m, found[i])
  /\ UNCHANGED otherApInfos

getApInfo(n, m) ==
  /\ LET i == apContIndex(n, m)
         found == Lookup(otherApInfos, i, buildApInfo(n, m))
     IN IF n <= MaxSmallArity
        THEN UNCHANGED otherApInfos /\ Answer("thunk", n, m, smallApInfos[i])
        ELSE /\ Cardinality(DOMAIN found) + Cardinality(DOMAIN otherApConts) <= MaxOthers
             /\ otherApInfos' = found /\ Answer("thunk", n, m, found[i])
  /\ UNCHANGED otherApConts

\* The maps by which scavengeStack may read the top frame.  The mask of all
\* ones is taken for none: the collector looks for a map at the instruction
\* behind the call, and ends the program unless that is an allocation.
FatalGC == << >>
TopFrameMaps(m) ==
  IF m # kNoMask THEN {topOfStackMap(m)}
  ELSE {encodeBitmask(b) : b \in 0..kNoMask} \cup {FatalGC}

\* An update frame is pushed; a collection begins with a mask for the top
\* frame.
UseUpdateFrame ==
  Answer("update", 1, 1, initUpdateClosure) /\ UNCHANGED <<otherApConts, otherApInfos>>
SetTopOfStackMask(m) ==
  /\ \E map \in TopFrameMaps(m) : Answer("top", MaskBits2, m, [maps |-> map])
  /\ UNCHANGED <<otherApConts, otherApInfos>>

MiscNext ==
  \/ \E c \in Calls : getApCont(c[1], c[2]) \/ getApInfo(c[1], c[2])
  \/ UseUpdateFrame
  \/ \E m \in 0..kNoMask : SetTopOfStackMask(m)

MiscSpec == MiscInit /\ [][MiscNext]_miscVars

-----------------------------------------------------------------------------
(***************************************************************************)
(* Properties.                                                             *)
(***************************************************************************)

\* What code leaves in its registers, if the word i of the payload of its
\* node is i and the value it is returned is "result".
Set(r, x, v) == [y \in DOMAIN r \cup {x} |-> IF y = x THEN v ELSE r[y]]
Executed(r, ins) ==
  CASE ins[1] = "LOADFV" -> Set(r, ins[2], ins[3] - 1)
    [] ins[1] = "MOV_RES" -> Set(r, ins[2], "result")
    [] OTHER -> r
Effect(code) ==
  LET after[k \in 0..Len(code)] == IF k = 0 THEN << >> ELSE Executed(after[k - 1], code[k])
  IN  after[Len(code)]

\* Whatever was asked for before, the continuation or thunk for an
\* application is the one for these arguments: the collector finds exactly
\* its pointers, all its arguments are live, and its code calls the result,
\* or the function, with the arguments in their order and tells the same
\* pointers.  The map of an update frame holds the thunk, and the mask of
\* the top frame is read as it was set, except that of as many pointers as a
\* mask has bits (getApCont, getApInfo, scavengeStack).
MapsExact ==
  LET o == asked.object
      n == asked.n
      m == asked.mask
  IN
  CASE asked.what = "cont" ->
         /\ o.code[o.ret - 1][1] = "MAP"
         /\ scavengeFrame(o.maps) = BitsOf(m, n)
         /\ scavengeFrame(Behind(o.maps)) = 0..(n - 1)
         /\ Effect(SubSeq(o.code, o.ret, Len(o.code))) = [i \in {n} |-> "result"]
         /\ n < o.framesize
         /\ o.code[Len(o.code) - 1] = <<"CALLT", n, n>> /\ Last(o.code) = <<"POINTERS", m>>
    [] asked.what = "thunk" ->
         /\ BitsOf(o.bitmap, o.size) = {0} \cup {i + 1 : i \in BitsOf(m, n)}
         /\ Effect(o.code) = [i \in 0..n |-> IF i = n THEN 0 ELSE i + 1]
         /\ n < o.framesize
         /\ o.code[Len(o.code) - 1] = <<"CALLT", n, n>> /\ Last(o.code) = <<"POINTERS", m>>
    [] OTHER -> m # kNoMask => scavengeFrame(o.maps) = BitsOf(m, MaskBits2)

=============================================================================
