--------------------------- MODULE StorageProofs ---------------------------
(***************************************************************************)
(* Proofs about Storage, for every size and number of regions, every       *)
(* number and order of the kinds of blocks, and whatever mmap returns.     *)
(***************************************************************************)
EXTENDS Storage, FiniteSetTheorems, SequenceTheorems, TLAPS

-----------------------------------------------------------------------------
(***************************************************************************)
(* The inductive invariant.                                                *)
(***************************************************************************)

Block == (Nat \ {0}) \X Nat
Region == [base : Nat, nextFree : Nat]
BaseOf(i) == regions[i].base

StorageType ==
  /\ regions \in Seq(Region) /\ Len(regions) > 0
  /\ request \in [for : Kinds \cup {"large", "none"}, size : Nat, attempts : Nat]
  /\ want \in Kinds \cup {"none"}
  /\ level \in Nat
  /\ \A b \in DOMAIN used : used[b] \in Nat

\* A region is aligned and mapped, so it is none of those mapped before; an
\* attempt asks for a whole region at least.
MapsInv ==
  /\ large \subseteq Nat
  /\ \A i \in DOMAIN regions : Aligned(BaseOf(i)) /\ RegionBytes(BaseOf(i)) \subseteq mapped
  /\ \A a \in large : Aligned(a) /\ RegionBytes(a) \subseteq mapped
  /\ \A i, k \in DOMAIN regions : BaseOf(i) = BaseOf(k) => i = k
  /\ \A i \in DOMAIN regions : BaseOf(i) \notin large
  /\ request # NoRequest => request.for # "none" /\ request.size >= RegionUnits

\* The block exists, in the regions rs.
Exists(b, rs) == b[1] \in DOMAIN rs /\ b[2] < rs[b[1]].nextFree

\* The blocks on the lists ls exist in the regions rs; none is on two lists,
\* or twice on one.
Placed(ls, rs) ==
  /\ ls \in [Lists -> Seq(Block)]
  /\ \A l, m \in Lists : \A i \in DOMAIN ls[l], j \in DOMAIN ls[m] :
       ls[l][i] = ls[m][j] => l = m /\ i = j
  /\ \A l \in Lists : \A i \in DOMAIN ls[l] : Exists(ls[l][i], rs)

\* From ls to new only the lists in which change.
Only(which, ls, new) ==
  /\ new \in [Lists -> Seq(Block)]
  /\ \A m \in Lists \ which : new[m] = ls[m]

Infos == chain["info"]
Fetching == want = "info" /\ request # NoRequest

BlocksInv ==
  /\ chain \in [Kinds -> Seq(Block)]
  /\ Placed(Blocks, regions)
  /\ \A k \in Kinds \ {"closures"} : chain[k] # << >>
  /\ \A b \in DOMAIN used : b \in Block /\ Exists(b, regions)
  /\ \A l \in {"free", "old", "closures"} : \A b \in Range(Blocks[l]) : Used(b) = 0
  /\ request.for = "info" => Fetching
  /\ want # "none" => oldHeap = << >>

\* A block with info tables begins at a page, and is protected unless it is
\* the current one while a handle is held.
InfoInv ==
  /\ readOnly \subseteq Range(Infos)
  /\ \A b \in readOnly : isPageAligned(b)
  /\ \A b \in Range(Infos) : Used(b) > 0 =>
       /\ isPageAligned(b)
       /\ b \in readOnly \/ (b = Head(Infos) /\ level > 0 /\ ~ Fetching)
  /\ level > 0 /\ ~ Fetching => Head(Infos) \notin readOnly
  /\ want = "info" => level > 0
  /\ want # "info" => isPageAligned(Head(Infos))
  /\ Fetching => request.for = "info"

StorageInv == StorageType /\ MapsInv /\ BlocksInv /\ InfoInv

-----------------------------------------------------------------------------
(***************************************************************************)
(* Lemmas about addresses.                                                 *)
(***************************************************************************)

\* Division and remainder.
LEMMA DivMod ==
  ASSUME NEW a \in Nat, NEW b \in Nat \ {0}
  PROVE  a \div b \in Nat /\ a % b \in 0..(b - 1) /\ a = (b * (a \div b)) + (a % b)
  <1>1. a % b \in 0..(b - 1) /\ a \div b \in Int
    OBVIOUS
  <1>2. a = (b * (a \div b)) + (a % b)
    OBVIOUS
  <1>3. a \div b >= 0
    BY <1>1, <1>2, SMTT(30)
  <1> QED BY <1>1, <1>2, <1>3

\* alignToRegionBoundary gives the begin of a region, at its argument or
\* behind it.
LEMMA AlignUp ==
  ASSUME NEW p \in Nat
  PROVE  /\ alignToRegionBoundary(p) \in Nat
         /\ Aligned(alignToRegionBoundary(p))
         /\ alignToRegionBoundary(p) >= p
  <1>1. RegionUnits \in Nat \ {0}
    BY StorageAssumption
  <1>2. PICK n \in Nat : n = p + RegionUnits - 1
    BY <1>1
  <1>3. PICK q \in Nat : q = n \div RegionUnits
    BY <1>1, <1>2, DivMod
  <1>4. alignToRegionBoundary(p) = q * RegionUnits
    BY <1>2, <1>3 DEF alignToRegionBoundary
  <1>5. Aligned(q * RegionUnits) /\ q * RegionUnits \in Nat
    BY <1>1 DEF Aligned
  <1>6. n = (RegionUnits * q) + (n % RegionUnits) /\ n % RegionUnits \in 0..(RegionUnits - 1)
    BY <1>1, <1>3, DivMod
  <1>7. q * RegionUnits >= p
    BY <1>1, <1>2, <1>6
  <1> QED BY <1>4, <1>5, <1>7

\* A region that lies in mapped memory has no address in memory that is not
\* mapped.
LEMMA Fresh ==
  ASSUME NEW a \in Nat, NEW b \in Nat, NEW m,
         RegionBytes(a) \subseteq m, RegionBytes(b) \cap m = {}
  PROVE  a # b
  <1>1. a \in RegionBytes(a)
    BY StorageAssumption DEF RegionBytes, Units
  <1> QED BY <1>1

-----------------------------------------------------------------------------
(***************************************************************************)
(* Lemmas about lists of blocks.                                           *)
(***************************************************************************)

\* An element in front of a sequence.
LEMMA InFront ==
  ASSUME NEW S, NEW s \in Seq(S), NEW x \in S
  PROVE  /\ <<x>> \o s \in Seq(S) /\ <<x>> \o s # << >>
         /\ Len(<<x>> \o s) = Len(s) + 1
         /\ Head(<<x>> \o s) = x
         /\ \A i \in 1..(Len(s) + 1) : (<<x>> \o s)[i] = IF i = 1 THEN x ELSE s[i - 1]
  <1>1. <<x>> \in Seq(S) /\ Len(<<x>>) = 1 /\ <<x>>[1] = x
    OBVIOUS
  <1>2. <<x>> \o s \in Seq(S) /\ Len(<<x>> \o s) = Len(s) + 1
    BY <1>1, ConcatProperties
  <1>3. \A i \in 1..(Len(s) + 1) : (<<x>> \o s)[i] = IF i = 1 THEN x ELSE s[i - 1]
    BY <1>1, ConcatProperties
  <1> QED BY <1>2, <1>3

\* The elements of a sequence.
LEMMA RangeIs ==
  ASSUME NEW S, NEW s \in Seq(S), NEW x
  PROVE  x \in Range(s) <=> \E i \in 1..Len(s) : s[i] = x
  BY DEF Range

\* An element put in front of a sequence comes to its elements.
LEMMA RangeInFront ==
  ASSUME NEW S, NEW s \in Seq(S), NEW x \in S
  PROVE  Range(<<x>> \o s) = Range(s) \cup {x}
  <1>1. PICK t \in Seq(S) : t = <<x>> \o s
    BY InFront
  <1>2. PICK n \in Nat : n = Len(s)
    OBVIOUS
  <1>3. Len(t) = n + 1 /\ \A i \in 1..(n + 1) : t[i] = IF i = 1 THEN x ELSE s[i - 1]
    BY <1>1, <1>2, InFront
  <1>4. \A y \in Range(t) : y \in Range(s) \cup {x}
    BY <1>2, <1>3 DEF Range
  <1>5. \A y \in Range(s) : y \in Range(t)
    <2> SUFFICES ASSUME NEW i \in 1..n
                 PROVE  s[i] \in Range(t)
      BY <1>2 DEF Range
    <2>1. i + 1 \in DOMAIN t /\ t[i + 1] = s[i]
      BY <1>2, <1>3
    <2> QED BY <1>3, <2>1 DEF Range
  <1>6. x \in Range(t)
    BY <1>2, <1>3 DEF Range
  <1> QED BY <1>1, <1>4, <1>5, <1>6

\* More regions, and blocks in them.
LEMMA Grow ==
  ASSUME NEW ls, NEW rs, NEW ss, Placed(ls, rs),
         \A b \in Block : Exists(b, rs) => Exists(b, ss)
  PROVE  Placed(ls, ss)
  BY DEF Placed

\* A block that is on no list is put on one.
LEMMA Push ==
  ASSUME NEW ls, NEW rs, Placed(ls, rs), NEW l \in Lists, NEW b \in Block, Exists(b, rs),
         \A m \in Lists : \A i \in DOMAIN ls[m] : ls[m][i] # b,
         NEW new, Only({l}, ls, new), new[l] = <<b>> \o ls[l]
  PROVE  Placed(new, rs)
  <1>2. PICK s \in Seq(Block) : s = ls[l]
    BY DEF Placed
  <1>3. PICK t \in Seq(Block) : t = <<b>> \o s
    BY InFront
  <1>4. Len(t) = Len(s) + 1 /\ \A i \in 1..(Len(s) + 1) : t[i] = IF i = 1 THEN b ELSE s[i - 1]
    BY <1>3, InFront
  <1>5. new \in [Lists -> Seq(Block)] /\ new[l] = t /\ \A m \in Lists \ {l} : new[m] = ls[m]
    BY <1>2, <1>3 DEF Only
  <1>6. \A i \in DOMAIN t : t[i] = b \/ (i > 1 /\ i - 1 \in DOMAIN s /\ t[i] = s[i - 1])
    BY <1>4
  <1>7. ASSUME NEW m \in Lists, NEW k \in Lists, NEW i \in DOMAIN new[m], NEW j \in DOMAIN new[k],
               new[m][i] = new[k][j]
        PROVE  m = k /\ i = j
    <2>1. CASE m = l /\ k = l
      <3>1. \A u, v \in DOMAIN s : s[u] = s[v] => u = v
        BY <1>2 DEF Placed
      <3>2. \A u \in DOMAIN s : s[u] # b
        BY <1>2
      <3>3. i \in 1..(Len(s) + 1) /\ j \in 1..(Len(s) + 1) /\ t[i] = t[j]
        BY <1>4, <1>5, <1>7, <2>1
      <3> QED BY <1>4, <2>1, <3>1, <3>2, <3>3
    <2>2. CASE m # l /\ k = l
      BY <1>2, <1>5, <1>6, <1>7, <2>2 DEF Placed
    <2>3. CASE m = l /\ k # l
      BY <1>2, <1>5, <1>6, <1>7, <2>3 DEF Placed
    <2>4. CASE m # l /\ k # l
      BY <1>5, <1>7, <2>4 DEF Placed
    <2> QED BY <2>1, <2>2, <2>3, <2>4
  <1>8. ASSUME NEW m \in Lists, NEW i \in DOMAIN new[m]
        PROVE  Exists(new[m][i], rs)
    <2>1. \A k \in Lists : \A j \in DOMAIN ls[k] : Exists(ls[k][j], rs)
      BY DEF Placed
    <2>2. CASE m = l
      <3>1. i \in DOMAIN t /\ new[m][i] = t[i]
        BY <1>5, <2>2
      <3>2. CASE t[i] = b
        BY <3>1, <3>2
      <3>3. CASE i - 1 \in DOMAIN s /\ t[i] = s[i - 1]
        BY <1>2, <2>1, <3>1, <3>3
      <3> QED BY <1>6, <3>1, <3>2, <3>3
    <2>3. CASE m # l
      BY <1>5, <2>1, <2>3
    <2> QED BY <2>2, <2>3
  <1>9. \A m, k \in Lists : \A i \in DOMAIN new[m], j \in DOMAIN new[k] :
          new[m][i] = new[k][j] => m = k /\ i = j
    BY <1>7
  <1>10. \A m \in Lists : \A i \in DOMAIN new[m] : Exists(new[m][i], rs)
    BY <1>8
  <1> QED BY <1>5, <1>9, <1>10 DEF Placed

\* The first block of a list is taken off it.
LEMMA TakeHead ==
  ASSUME NEW ls, NEW rs, Placed(ls, rs), NEW l \in Lists, ls[l] # << >>,
         NEW new, Only({l}, ls, new), new[l] = Tail(ls[l])
  PROVE  /\ Head(ls[l]) \in Block /\ Exists(Head(ls[l]), rs)
         /\ Placed(new, rs)
         /\ \A m \in Lists : \A i \in DOMAIN new[m] : new[m][i] # Head(ls[l])
  <1>2. PICK s \in Seq(Block) : s = ls[l]
    BY DEF Placed
  <1>3. PICK t \in Seq(Block) : t = Tail(s)
    BY <1>2, HeadTailProperties
  <1>4. /\ Len(s) \in Nat \ {0} /\ Len(t) = Len(s) - 1 /\ Head(s) = s[1] /\ 1 \in DOMAIN s
        /\ \A i \in 1..Len(t) : t[i] = s[i + 1] /\ i + 1 \in DOMAIN s
    BY <1>2, <1>3, HeadTailProperties
  <1>5. new \in [Lists -> Seq(Block)] /\ new[l] = t /\ \A m \in Lists \ {l} : new[m] = ls[m]
    BY <1>2, <1>3 DEF Only
  <1>6. Head(s) \in Block /\ Exists(Head(s), rs)
    BY <1>2, <1>4 DEF Placed
  <1>7. ASSUME NEW m \in Lists, NEW i \in DOMAIN new[m]
        PROVE  \E u \in DOMAIN ls[m] : /\ new[m][i] = ls[m][u]
                                       /\ u = (IF m = l THEN i + 1 ELSE i)
    BY <1>2, <1>4, <1>5
  <1>8. ASSUME NEW m \in Lists, NEW k \in Lists, NEW i \in DOMAIN new[m], NEW j \in DOMAIN new[k],
               new[m][i] = new[k][j]
        PROVE  m = k /\ i = j
    <2>1. PICK u \in DOMAIN ls[m] : new[m][i] = ls[m][u] /\ u = (IF m = l THEN i + 1 ELSE i)
      BY <1>7
    <2>2. PICK v \in DOMAIN ls[k] : new[k][j] = ls[k][v] /\ v = (IF k = l THEN j + 1 ELSE j)
      BY <1>7
    <2>3. \A n, o \in Lists : \A c \in DOMAIN ls[n], d \in DOMAIN ls[o] :
            ls[n][c] = ls[o][d] => n = o /\ c = d
      BY DEF Placed
    <2>5. ls[m][u] = ls[k][v]
      BY <1>8, <2>1, <2>2
    <2>6. m = k /\ u = v
      BY <2>3, <2>5
    <2>4. i \in Int /\ j \in Int
      BY <1>5
    <2> QED BY <2>1, <2>2, <2>4, <2>6
  <1>9. ASSUME NEW m \in Lists, NEW i \in DOMAIN new[m]
        PROVE  Exists(new[m][i], rs) /\ new[m][i] # Head(s)
    <2>1. PICK u \in DOMAIN ls[m] : new[m][i] = ls[m][u] /\ u = (IF m = l THEN i + 1 ELSE i)
      BY <1>7
    <2>2. ~ (m = l /\ u = 1)
      BY <1>4, <1>5, <2>1
    <2> QED BY <1>2, <1>4, <2>1, <2>2 DEF Placed
  <1> QED BY <1>2, <1>5, <1>6, <1>8, <1>9 DEF Placed

\* The blocks of the old heap, and those of the closures, change lists.
LEMMA ReverseIs ==
  ASSUME NEW S, NEW s \in Seq(S)
  PROVE  /\ Reverse(s) \in Seq(S) /\ Len(Reverse(s)) = Len(s)
         /\ \A i \in 1..Len(s) : Reverse(s)[i] = s[Len(s) - i + 1]
  <1>1. PICK n \in Nat : n = Len(s)
    OBVIOUS
  <1>2. \A i \in 1..n : s[n - i + 1] \in S
    BY <1>1
  <1>3. [i \in 1..n |-> s[n - i + 1]] \in Seq(S)
    BY <1>2
  <1>4. Reverse(s) = [i \in 1..n |-> s[n - i + 1]]
    BY <1>1 DEF Reverse
  <1> QED BY <1>1, <1>3, <1>4

\* The blocks stay in one list each when those of the old heap are freed,
LEMMA ToFree ==
  ASSUME NEW ls, NEW rs, Placed(ls, rs), NEW new, Only({"free", "old"}, ls, new),
         new["free"] = Reverse(ls["old"]) \o ls["free"], new["old"] = << >>
  PROVE  Placed(new, rs)
  <1>2. "free" \in Lists /\ "old" \in Lists
    BY DEF Lists
  <1>3. PICK s, f \in Seq(Block) : s = ls["old"] /\ f = ls["free"]
    BY <1>2 DEF Placed
  <1>4. PICK n \in Nat : n = Len(s)
    OBVIOUS
  <1>5. PICK v \in Seq(Block) : v = Reverse(s)
    BY ReverseIs
  <1>6. Len(v) = n /\ \A i \in 1..n : v[i] = s[n - i + 1]
    BY <1>4, <1>5, ReverseIs
  <1>7. PICK t \in Seq(Block) : t = v \o f
    BY ConcatProperties
  <1>8. /\ Len(t) = n + Len(f)
        /\ \A i \in 1..(n + Len(f)) : t[i] = IF i <= n THEN v[i] ELSE f[i - n]
    BY <1>6, <1>7, ConcatProperties
  <1>16. ls \in [Lists -> Seq(Block)]
    BY DEF Placed
  <1>9. /\ new \in [Lists -> Seq(Block)] /\ new["free"] = t /\ new["old"] = << >>
        /\ \A m \in Lists \ {"free", "old"} : new[m] = ls[m]
    BY <1>3, <1>5, <1>7 DEF Only
  <1>10. ASSUME NEW m \in Lists, NEW i \in DOMAIN new[m]
         PROVE  \E k \in Lists, u \in Nat :
                  /\ u \in DOMAIN ls[k] /\ new[m][i] = ls[k][u]
                  /\ \/ m # "free" /\ k = m /\ m # "old" /\ u = i
                     \/ m = "free" /\ k = "old" /\ i \in 1..n /\ u = n - i + 1
                     \/ m = "free" /\ k = "free" /\ i > n /\ u = i - n
    <2>1. CASE m = "free"
      <3>1. i \in 1..(n + Len(f)) /\ new[m][i] = t[i]
        BY <1>8, <1>9, <2>1
      <3>2. CASE i <= n
        <4>1. n - i + 1 \in DOMAIN s /\ t[i] = s[n - i + 1]
          BY <1>4, <1>6, <1>8, <3>1, <3>2
        <4> QED BY <1>2, <1>3, <2>1, <3>1, <3>2, <4>1
      <3>3. CASE i > n
        <4>1. i - n \in DOMAIN f /\ t[i] = f[i - n]
          BY <1>8, <3>1, <3>3
        <4> QED BY <1>2, <1>3, <2>1, <3>1, <3>3, <4>1
      <3> QED BY <3>1, <3>2, <3>3
    <2>2. CASE m # "free"
      <3>1. m # "old" /\ new[m] = ls[m]
        BY <1>9, <2>2
      <3>2. i \in Nat /\ i \in DOMAIN ls[m]
        BY <1>16, <3>1
      <3> QED BY <2>2, <3>1, <3>2
    <2> QED BY <2>1, <2>2
  <1>11. \A k, o \in Lists : \A u \in DOMAIN ls[k], w \in DOMAIN ls[o] :
           ls[k][u] = ls[o][w] => k = o /\ u = w
    BY DEF Placed
  <1>12. ASSUME NEW m \in Lists, NEW o \in Lists, NEW i \in DOMAIN new[m], NEW j \in DOMAIN new[o],
                new[m][i] = new[o][j]
         PROVE  m = o /\ i = j
    <2>1. PICK k \in Lists, u \in Nat :
            /\ u \in DOMAIN ls[k] /\ new[m][i] = ls[k][u]
            /\ \/ m # "free" /\ k = m /\ m # "old" /\ u = i
               \/ m = "free" /\ k = "old" /\ i \in 1..n /\ u = n - i + 1
               \/ m = "free" /\ k = "free" /\ i > n /\ u = i - n
      BY <1>10
    <2>2. PICK q \in Lists, w \in Nat :
            /\ w \in DOMAIN ls[q] /\ new[o][j] = ls[q][w]
            /\ \/ o # "free" /\ q = o /\ o # "old" /\ w = j
               \/ o = "free" /\ q = "old" /\ j \in 1..n /\ w = n - j + 1
               \/ o = "free" /\ q = "free" /\ j > n /\ w = j - n
      BY <1>10
    <2>5. ls[k][u] = ls[q][w]
      BY <1>12, <2>1, <2>2
    <2>3. k = q /\ u = w
      BY <1>11, <2>1, <2>2, <2>5
    <2>4. i \in Int /\ j \in Int
      BY <1>9
    <2>6. CASE m # "free" /\ k = m /\ m # "old" /\ u = i
      BY <2>2, <2>3, <2>6
    <2>7. CASE m = "free" /\ k = "old" /\ i \in 1..n /\ u = n - i + 1
      <3>1. o = "free" /\ w = n - j + 1
        BY <2>2, <2>3, <2>7
      <3>2. n - i + 1 = n - j + 1
        BY <2>3, <2>7, <3>1
      <3>3. i = j
        BY ONLY n \in Nat, <2>4, <3>2
      <3> QED BY <2>7, <3>1, <3>3
    <2>8. CASE m = "free" /\ k = "free" /\ i > n /\ u = i - n
      <3>1. o = "free" /\ w = j - n
        BY <2>2, <2>3, <2>8
      <3>2. i - n = j - n
        BY <2>3, <2>8, <3>1
      <3>3. i = j
        BY ONLY n \in Nat, <2>4, <3>2
      <3> QED BY <2>8, <3>1, <3>3
    <2> QED BY <2>1, <2>6, <2>7, <2>8
  <1>13. \A m, o \in Lists : \A i \in DOMAIN new[m], j \in DOMAIN new[o] :
           new[m][i] = new[o][j] => m = o /\ i = j
    BY <1>12
  <1>14. \A m \in Lists : \A i \in DOMAIN new[m] : Exists(new[m][i], rs)
    BY <1>10 DEF Placed
  <1> QED BY <1>9, <1>13, <1>14 DEF Placed

\* and when the closures become the old heap.
LEMMA ToOld ==
  ASSUME NEW ls, NEW rs, Placed(ls, rs), "closures" \in Kinds,
         NEW new, Only({"closures", "old"}, ls, new),
         new["old"] = ls["closures"], new["closures"] = << >>
  PROVE  Placed(new, rs)
  <1>2. "closures" \in Lists /\ "old" \in Lists
    BY DEF Lists
  <1>3. /\ new \in [Lists -> Seq(Block)] /\ new["closures"] = << >> /\ new["old"] = ls["closures"]
        /\ \A m \in Lists \ {"closures", "old"} : new[m] = ls[m]
    BY <1>2 DEF Only
  <1>4. \A m \in Lists : \A i \in DOMAIN new[m] :
          \E k \in Lists : /\ i \in DOMAIN ls[k] /\ new[m][i] = ls[k][i]
                           /\ m # "closures" /\ k = (IF m = "old" THEN "closures" ELSE m)
    BY <1>2, <1>3
  <1>5. \A k, o \in Lists : \A u \in DOMAIN ls[k], w \in DOMAIN ls[o] :
          ls[k][u] = ls[o][w] => k = o /\ u = w
    BY DEF Placed
  <1>6. \A m, o \in Lists : \A i \in DOMAIN new[m], j \in DOMAIN new[o] :
          new[m][i] = new[o][j] => m = o /\ i = j
    BY <1>4, <1>5
  <1>7. \A m \in Lists : \A i \in DOMAIN new[m] : Exists(new[m][i], rs)
    BY <1>4 DEF Placed
  <1> QED BY <1>3, <1>6, <1>7 DEF Placed

-----------------------------------------------------------------------------
(***************************************************************************)
(* grabFreeBlock.                                                          *)
(***************************************************************************)

\* The lists, from the blocks of the kinds, the free ones and the old heap.
ListsOf(ch, fr, od) == [l \in Lists |-> CASE l = "free" -> fr
                                          [] l = "old" -> od
                                          [] OTHER -> ch[l]]

\* The names of the lists are those of the kinds, "free" and "old".
LEMMA ListsAre ==
  /\ "free" \in Lists /\ "old" \in Lists /\ Kinds \subseteq Lists
  /\ "free" \notin Kinds /\ "old" \notin Kinds /\ "none" \notin Kinds /\ "large" \notin Kinds
  /\ "info" \in Kinds /\ "closures" \in Kinds
  /\ Lists = Kinds \cup {"free", "old"}
  BY StorageAssumption DEF Lists

\* Blocks, before and after a step.
LEMMA BlocksAre ==
  /\ Blocks = ListsOf(chain, freeBlocks, oldHeap)
  /\ Blocks' = ListsOf(chain', freeBlocks', oldHeap')
  BY DEF Blocks, ListsOf

\* What the lists made of chains, free blocks and the old heap hold.
LEMMA ListAt ==
  ASSUME NEW ch, NEW fr, NEW od
  PROVE  /\ ListsOf(ch, fr, od)["free"] = fr
         /\ ListsOf(ch, fr, od)["old"] = od
         /\ \A k \in Kinds : ListsOf(ch, fr, od)[k] = ch[k]
         /\ DOMAIN ListsOf(ch, fr, od) = Lists
  BY ListsAre DEF ListsOf

\* They hold blocks when these do.
LEMMA ListsType ==
  ASSUME NEW B, NEW ch \in [Kinds -> B], NEW fr \in B, NEW od \in B
  PROVE  ListsOf(ch, fr, od) \in [Lists -> B]
  BY ListsAre DEF ListsOf

\* What a step may do to the regions while blocks are handed out.
RegionsGrow ==
  /\ DOMAIN regions \subseteq DOMAIN regions'
  /\ \A i \in DOMAIN regions : regions'[i].base = regions[i].base
  /\ \A b \in Block : Exists(b, regions) => Exists(b, regions')

\* The next block of the newest region: it was not there before.
LEMMA NextBlock ==
  ASSUME regions \in Seq(Region), Len(regions) > 0,
         regions' = [regions EXCEPT ![Len(regions)].nextFree = @ + 1]
  PROVE  /\ regions' \in Seq(Region) /\ DOMAIN regions' = DOMAIN regions
         /\ Len(regions') = Len(regions)
         /\ RegionsGrow
         /\ <<Len(regions), regions[Len(regions)].nextFree>> \in Block
         /\ Exists(<<Len(regions), regions[Len(regions)].nextFree>>, regions')
         /\ ~ Exists(<<Len(regions), regions[Len(regions)].nextFree>>, regions)
  <1>1. PICK r \in Nat : r = Len(regions) /\ r \in DOMAIN regions /\ r > 0
    OBVIOUS
  <1>2. regions[r] \in Region
    BY <1>1
  <1>3. regions[r].nextFree \in Nat /\ regions[r].base \in Nat
    BY <1>2 DEF Region
  <1>15. regions[r].nextFree + 1 \in Nat
    BY <1>3
  <1>4. PICK new \in Region : new = [regions[r] EXCEPT !.nextFree = @ + 1]
    BY <1>2, <1>15 DEF Region
  <1>5. new.base = regions[r].base /\ new.nextFree = regions[r].nextFree + 1
    BY <1>2, <1>4 DEF Region
  <1>6. regions' = [regions EXCEPT ![r] = new]
    BY <1>1, <1>4
  <1>7. /\ regions' \in Seq(Region) /\ DOMAIN regions' = DOMAIN regions
        /\ Len(regions') = Len(regions)
    BY <1>1, <1>6
  <1>8. regions'[r] = new /\ \A i \in DOMAIN regions \ {r} : regions'[i] = regions[i]
    BY <1>1, <1>6
  <1>9. \A i \in DOMAIN regions : regions'[i].base = regions[i].base
    BY <1>5, <1>8
  <1>10. \A i \in DOMAIN regions : regions[i].nextFree \in Nat
    <2> SUFFICES ASSUME NEW i \in DOMAIN regions
                 PROVE  regions[i].nextFree \in Nat
      OBVIOUS
    <2>1. regions[i] \in Region
      OBVIOUS
    <2> QED BY <2>1 DEF Region
  <1>11. \A b \in Block : Exists(b, regions) => Exists(b, regions')
    <2> SUFFICES ASSUME NEW b \in Block, Exists(b, regions)
                 PROVE  Exists(b, regions')
      OBVIOUS
    <2>1. b[2] \in Nat /\ b[1] \in DOMAIN regions /\ b[2] < regions[b[1]].nextFree
      BY DEF Block, Exists
    <2>2. CASE b[1] = r
      BY <1>3, <1>5, <1>7, <1>8, <2>1, <2>2 DEF Exists
    <2>3. CASE b[1] # r
      BY <1>7, <1>8, <2>1, <2>3 DEF Exists
    <2> QED BY <2>2, <2>3
  <1>12. PICK x : x = <<r, regions[r].nextFree>>
    OBVIOUS
  <1>13. x \in Block /\ x[1] = r /\ x[2] = regions[r].nextFree
    BY <1>1, <1>3, <1>12 DEF Block
  <1>14. Exists(x, regions') /\ ~ Exists(x, regions)
    BY <1>1, <1>3, <1>5, <1>7, <1>8, <1>13 DEF Exists
  <1> QED BY <1>1, <1>7, <1>9, <1>11, <1>12, <1>13, <1>14 DEF RegionsGrow

\* No block that exists is new.
LEMMA NotPlaced ==
  ASSUME NEW ls, NEW rs, Placed(ls, rs), NEW b, ~ Exists(b, rs)
  PROVE  \A m \in Lists : \A i \in DOMAIN ls[m] : ls[m][i] # b
  BY DEF Placed

\* A list in Placed has no block b.
LEMMA NotIn ==
  ASSUME NEW ls, NEW rs, Placed(ls, rs), NEW b, NEW l \in Lists,
         \A m \in Lists : \A i \in DOMAIN ls[m] : ls[m][i] # b
  PROVE  b \notin Range(ls[l])
  BY DEF Range

\* What grabFreeBlock does: block b, which nothing is in, is put in front of
\* the blocks of the kind; or a region is asked for.
Grabbed(k, ch, b) ==
  /\ b \in Block /\ Used(b) = 0 /\ b \notin Range(ch["info"])
  /\ chain' = [ch EXCEPT ![k] = <<b>> \o @]

\* grabFreeBlock takes a block off the free list or out of a region, or asks
\* for a region, and keeps every block in one list.
LEMMA GrabStep ==
  ASSUME StorageType, BlocksInv, NEW k \in Kinds, NEW ch \in [Kinds -> Seq(Block)],
         NEW od \in Seq(Block), Placed(ListsOf(ch, freeBlocks, od), regions),
         GrabFreeBlock(k, ch), oldHeap' = od
  PROVE  /\ Placed(Blocks', regions') /\ chain' \in [Kinds -> Seq(Block)]
         /\ regions' \in Seq(Region) /\ Len(regions') = Len(regions) /\ RegionsGrow
         /\ Range(freeBlocks') \subseteq Range(freeBlocks)
         /\ \/ request' = request /\ \E b : Grabbed(k, ch, b)
            \/ chain' = ch /\ NewRegionFor(k)
  <1>1. PICK ls : ls = ListsOf(ch, freeBlocks, od)
    OBVIOUS
  <1>2. /\ Placed(ls, regions) /\ k \in Lists /\ "info" \in Lists /\ "free" \in Lists
        /\ ls[k] = ch[k] /\ ls["info"] = ch["info"] /\ ls["free"] = freeBlocks
    BY <1>1, ListsAre, ListAt
  <1>3. regions \in Seq(Region) /\ Len(regions) > 0
    BY DEF StorageType
  <1>4. CASE freeBlocks # << >>
    <2>1. /\ chain' = [ch EXCEPT ![k] = <<Head(freeBlocks)>> \o @]
          /\ freeBlocks' = Tail(freeBlocks) /\ UNCHANGED <<regions, request>>
      BY <1>4 DEF GrabFreeBlock
    <2>2. PICK b : b = Head(freeBlocks)
      OBVIOUS
    <2>3. PICK mid : mid = ListsOf(ch, freeBlocks', od)
      OBVIOUS
    <2>10. freeBlocks \in Seq(Block)
      BY <1>2 DEF Placed
    <2>17. freeBlocks' \in Seq(Block)
      BY <1>4, <2>1, <2>10, HeadTailProperties
    <2>18. Only({"free"}, ls, mid) /\ mid["free"] = Tail(ls["free"])
      <3>1. mid \in [Lists -> Seq(Block)]
        BY <2>3, <2>17, ListsType
      <3>2. mid["free"] = freeBlocks' /\ \A m \in Lists \ {"free"} : mid[m] = ls[m]
        BY <1>1, <2>3, ListAt, ListsAre
      <3> QED BY <1>2, <2>1, <3>1, <3>2 DEF Only
    <2>4. /\ b \in Block /\ Exists(b, regions) /\ Placed(mid, regions)
          /\ \A m \in Lists : \A i \in DOMAIN mid[m] : mid[m][i] # b
      BY <1>2, <1>4, <2>2, <2>18, TakeHead
    <2>7. mid[k] = ch[k] /\ mid["info"] = ch["info"]
      BY <2>3, ListAt, ListsAre
    <2>8. Only({k}, mid, Blocks') /\ Blocks'[k] = <<b>> \o mid[k]
      <3>1. PICK x : x = <<b>> \o ch[k]
        OBVIOUS
      <3>2. x \in Seq(Block)
        BY <2>4, <3>1, InFront
      <3>3. chain' \in [Kinds -> Seq(Block)] /\ chain'[k] = x /\ \A m \in Kinds \ {k} : chain'[m] = ch[m]
        BY <2>1, <2>2, <3>1, <3>2
      <3>4. Blocks' = ListsOf(chain', freeBlocks', od)
        BY BlocksAre
      <3>5. Blocks' \in [Lists -> Seq(Block)]
        BY <2>17, <3>3, <3>4, ListsType
      <3>6. \A m \in Lists \ {k} : Blocks'[m] = mid[m]
        BY <2>3, <3>3, <3>4, ListAt, ListsAre
      <3> QED BY <2>7, <3>1, <3>3, <3>4, <3>5, <3>6, ListAt DEF Only
    <2>5. Placed(Blocks', regions)
      BY <1>2, <2>4, <2>8, Push
    <2>9. b \notin Range(ch["info"])
      BY <1>2, <2>4, <2>7, NotIn
    <2>11. b \in Range(freeBlocks) /\ Range(freeBlocks') \subseteq Range(freeBlocks)
      <3>1. Len(freeBlocks) \in Nat \ {0} /\ 1 \in DOMAIN freeBlocks /\ b = freeBlocks[1]
        BY <1>4, <2>2, <2>10
      <3>2. \A i \in DOMAIN freeBlocks' :
              i + 1 \in DOMAIN freeBlocks /\ freeBlocks'[i] = freeBlocks[i + 1]
        BY <1>4, <2>1, <2>10, HeadTailProperties
      <3> QED BY <3>1, <3>2 DEF Range
    <2>12. Used(b) = 0
      <3>1. \A c \in Range(Blocks["free"]) : Used(c) = 0
        BY DEF BlocksInv
      <3>2. Blocks["free"] = freeBlocks
        BY BlocksAre, ListAt
      <3> QED BY <2>11, <3>1, <3>2
    <2>13. <<b>> \o ch[k] \in Seq(Block)
      BY <2>4, InFront
    <2>14. chain' \in [Kinds -> Seq(Block)]
      BY <2>1, <2>2, <2>13
    <2>15. Grabbed(k, ch, b)
      BY <2>1, <2>2, <2>4, <2>9, <2>12 DEF Grabbed
    <2>16. RegionsGrow
      BY <2>1 DEF RegionsGrow
    <2> QED BY <1>3, <2>1, <2>5, <2>11, <2>14, <2>15, <2>16
  <1>5. CASE freeBlocks = << >> /\ regions[Len(regions)].nextFree < PerRegion
    <2>1. PICK b : b = <<Len(regions), regions[Len(regions)].nextFree>>
      OBVIOUS
    <2>2. /\ chain' = [ch EXCEPT ![k] = <<b>> \o @]
          /\ regions' = [regions EXCEPT ![Len(regions)].nextFree = @ + 1]
          /\ UNCHANGED <<freeBlocks, request>>
      <3>1. regions[Len(regions)].nextFree \in Nat
        <4>1. regions[Len(regions)] \in Region
          BY <1>3
        <4> QED BY <4>1 DEF Region
      <3>2. regions[Len(regions)].nextFree # PerRegion
        BY <1>5, <3>1, StorageAssumption
      <3> QED BY <1>5, <2>1, <3>2 DEF GrabFreeBlock
    <2>3. /\ regions' \in Seq(Region) /\ Len(regions') = Len(regions) /\ RegionsGrow
          /\ b \in Block /\ Exists(b, regions') /\ ~ Exists(b, regions)
      BY <1>3, <2>1, <2>2, NextBlock
    <2>4. \A m \in Lists : \A i \in DOMAIN ls[m] : ls[m][i] # b
      BY <1>2, <2>3, NotPlaced
    <2>5. Placed(ls, regions')
      BY <1>2, <2>3, Grow DEF RegionsGrow
    <2>10. PICK x : x = <<b>> \o ch[k]
      OBVIOUS
    <2>11. /\ chain' \in [Kinds -> Seq(Block)] /\ chain'[k] = x
           /\ \A m \in Kinds \ {k} : chain'[m] = ch[m]
      <3>1. x \in Seq(Block)
        BY <2>3, <2>10, InFront
      <3> QED BY <2>2, <2>10, <3>1
    <2>7. Only({k}, ls, Blocks') /\ Blocks'[k] = <<b>> \o ls[k]
      <3>1. Blocks' = ListsOf(chain', freeBlocks, od)
        BY <2>2, BlocksAre
      <3>2. Blocks' \in [Lists -> Seq(Block)]
        <4>1. freeBlocks \in Seq(Block)
          BY <1>5
        <4> QED BY <2>11, <3>1, <4>1, ListsType
      <3>3. \A m \in Lists \ {k} : Blocks'[m] = ls[m]
        BY <1>1, <2>11, <3>1, ListAt, ListsAre
      <3> QED BY <1>2, <2>10, <2>11, <3>1, <3>2, <3>3, ListAt DEF Only
    <2>6. Placed(Blocks', regions')
      BY <1>2, <2>3, <2>4, <2>5, <2>7, Push
    <2>8. b \notin Range(ch["info"])
      BY <1>2, <2>4, NotIn
    <2>9. Used(b) = 0
      BY <2>3 DEF Used, BlocksInv
    <2>12. Grabbed(k, ch, b)
      BY <2>2, <2>3, <2>8, <2>9 DEF Grabbed
    <2> QED BY <2>2, <2>3, <2>6, <2>11, <2>12
  <1>6. CASE chain' = ch /\ NewRegionFor(k) /\ UNCHANGED <<freeBlocks, regions>>
    <2>1. Blocks' = ls
      BY <1>1, <1>6, BlocksAre
    <2>2. RegionsGrow
      BY <1>6 DEF RegionsGrow
    <2> QED BY <1>2, <1>3, <1>6, <2>1, <2>2
  <1> QED BY <1>4, <1>5, <1>6 DEF GrabFreeBlock

-----------------------------------------------------------------------------
(***************************************************************************)
(* newRegion.                                                              *)
(***************************************************************************)

\* A region was mapped at a, where nothing was.
NewAt(a) ==
  /\ a \in Nat /\ Aligned(a)
  /\ RegionBytes(a) \cap mapped = {} /\ RegionBytes(a) \subseteq mapped'
  /\ mapped \subseteq mapped'
  /\ HaveRegion(a)

\* The attempt failed; the next one asks for a region at least.
AskedAgain ==
  /\ UNCHANGED <<mapped, regions, large, blockVars>>
  /\ request'.for = request.for /\ request'.size \in Nat /\ request'.attempts \in Nat
  /\ request'.size >= RegionUnits
  /\ request' \in [for : Kinds \cup {"large", "none"}, size : Nat, attempts : Nat]

\* An answer to a request maps a region, or the request is made again.
LEMMA MapStep ==
  ASSUME StorageType, MapsInv, MMap
  PROVE  request # NoRequest /\ (AskedAgain \/ \E a \in Nat : NewAt(a))
  <1>1. RegionUnits \in Nat \ {0} /\ AddressTop \in Nat
    BY StorageAssumption
  <1>2. request # NoRequest /\ request.size >= RegionUnits /\ request.for # "none"
    <2>1. request # NoRequest
      BY DEF MMap, Pending
    <2> QED BY <2>1 DEF MapsInv
  <1>3. PICK n \in Nat, t \in Nat, k \in Kinds \cup {"large", "none"} :
          /\ request = [for |-> k, size |-> n, attempts |-> t]
    BY DEF StorageType
  <1>4. n >= RegionUnits /\ request.size = n /\ request.for = k /\ request.attempts = t
    BY <1>2, <1>3
  <1>5. ASSUME NEW h, NEW m \in Nat, m >= RegionUnits, Attempted(h, m), UNCHANGED mapped
        PROVE  AskedAgain
    <2>1. request' = [for |-> k, size |-> m, attempts |-> t + 1]
      BY <1>3, <1>5 DEF Attempted
    <2> QED BY <1>4, <1>5, <2>1 DEF Attempted, AskedAgain
  <1>6. CASE MapFails
    <2>1. Attempted(hint, n) /\ UNCHANGED mapped
      BY <1>4, <1>6 DEF MapFails
    <2> QED BY <1>2, <1>4, <1>5, <2>1
  <1>7. ASSUME NEW p \in 1..(AddressTop - request.size), Units(p, request.size) \cap mapped = {},
               MapAligned(p) \/ MapTrimmed(p) \/ MapUnaligned(p)
        PROVE  AskedAgain \/ \E a \in Nat : NewAt(a)
    <2>1. p \in Nat
      OBVIOUS
    <2>2. PICK a \in Nat : a = alignToRegionBoundary(p) /\ Aligned(a) /\ a >= p
      BY <2>1, AlignUp
    <2>3. CASE MapAligned(p)
      <3>1. RegionBytes(p) \subseteq Units(p, n)
        BY <1>1, <1>4, <2>1 DEF RegionBytes, Units
      <3>2. Units(p, n) \cap mapped = {} /\ mapped' = mapped \cup Units(p, n)
        BY <1>4, <1>7, <2>3 DEF MapAligned
      <3>3. NewAt(p)
        BY <2>1, <2>3, <3>1, <3>2 DEF MapAligned, NewAt
      <3> QED BY <2>1, <3>3
    <2>4. CASE MapTrimmed(p)
      <3>1. a + RegionUnits <= p + n
        BY <1>4, <2>2, <2>4 DEF MapTrimmed, FitsAligned
      <3>2. RegionBytes(a) \subseteq Units(p, n)
        BY <1>1, <2>1, <2>2, <3>1 DEF RegionBytes, Units
      <3>3. /\ Units(p, n) \cap mapped = {}
            /\ mapped' = mapped \cup (Units(p, n) \cap RegionBytes(a))
            /\ HaveRegion(a)
        BY <1>4, <1>7, <2>2, <2>4 DEF MapTrimmed
      <3>4. NewAt(a)
        BY <2>2, <3>2, <3>3 DEF NewAt
      <3> QED BY <3>4
    <2>5. CASE MapUnaligned(p)
      <3>1. /\ Attempted(p, a + RegionUnits - p) /\ UNCHANGED mapped
        BY <2>2, <2>5 DEF MapUnaligned
      <3>2. a + RegionUnits - p \in Nat /\ a + RegionUnits - p >= RegionUnits
        BY <1>1, <2>1, <2>2
      <3> QED BY <1>5, <3>1, <3>2
    <2> QED BY <1>7, <2>3, <2>4, <2>5
  <1> QED BY <1>2, <1>6, <1>7 DEF MMap

\* A region that was not mapped before is at the end of the list.
LEMMA RegionAppended ==
  ASSUME regions \in Seq(Region), Len(regions) > 0, NEW a \in Nat,
         regions' = Append(regions, [base |-> a, nextFree |-> 1])
  PROVE  /\ regions' \in Seq(Region) /\ Len(regions') = Len(regions) + 1
         /\ RegionsGrow
         /\ regions'[Len(regions) + 1].base = a
         /\ <<Len(regions) + 1, 0>> \in Block
         /\ Exists(<<Len(regions) + 1, 0>>, regions') /\ ~ Exists(<<Len(regions) + 1, 0>>, regions)
  <1>1. PICK new \in Region : new = [base |-> a, nextFree |-> 1]
    BY DEF Region
  <1>2. new.base = a /\ new.nextFree = 1
    BY <1>1
  <1>3. PICK n \in Nat : n = Len(regions)
    OBVIOUS
  <1>4. regions' = Append(regions, new)
    BY <1>1
  <1>5. /\ regions' \in Seq(Region) /\ Len(regions') = n + 1 /\ regions'[n + 1] = new
        /\ \A i \in 1..n : regions'[i] = regions[i]
    BY <1>3, <1>4
  <1>6. DOMAIN regions = 1..n /\ DOMAIN regions' = 1..(n + 1)
    BY <1>3, <1>5
  <1>7. RegionsGrow
    BY <1>5, <1>6 DEF RegionsGrow, Exists
  <1>8. PICK b : b = <<n + 1, 0>>
    OBVIOUS
  <1>9. b \in Block /\ b[1] = n + 1 /\ b[2] = 0
    BY <1>3, <1>8 DEF Block
  <1>10. Exists(b, regions') /\ ~ Exists(b, regions)
    BY <1>2, <1>5, <1>6, <1>9 DEF Exists
  <1> QED BY <1>2, <1>3, <1>5, <1>7, <1>8, <1>9, <1>10

\* A block of a new region goes to the kind that was waiting for it.
LEMMA FirstBlock ==
  ASSUME StorageType, BlocksInv, NEW a \in Nat, NewAt(a), request.for \in Kinds
  PROVE  /\ regions' \in Seq(Region) /\ RegionsGrow
         /\ Placed(Blocks', regions') /\ chain' \in [Kinds -> Seq(Block)]
         /\ \E b : Grabbed(request.for, chain, b)
  <1>1. /\ regions' = Append(regions, [base |-> a, nextFree |-> 1])
        /\ chain' = [chain EXCEPT ![request.for] = << <<Len(regions) + 1, 0>> >> \o @]
        /\ UNCHANGED <<freeBlocks, oldHeap>>
    BY ListsAre DEF NewAt, HaveRegion
  <1>2. regions \in Seq(Region) /\ Len(regions) > 0
    BY DEF StorageType
  <1>3. PICK b : b = <<Len(regions) + 1, 0>>
    OBVIOUS
  <1>4. /\ regions' \in Seq(Region) /\ RegionsGrow
        /\ b \in Block /\ Exists(b, regions') /\ ~ Exists(b, regions)
    BY <1>1, <1>2, <1>3, RegionAppended
  <1>5. PICK k \in Kinds : k = request.for
    OBVIOUS
  <1>6. Placed(Blocks, regions) /\ chain \in [Kinds -> Seq(Block)]
    BY DEF BlocksInv
  <1>7. \A m \in Lists : \A i \in DOMAIN Blocks[m] : Blocks[m][i] # b
    BY <1>4, <1>6, NotPlaced
  <1>8. Placed(Blocks, regions')
    BY <1>4, <1>6, Grow DEF RegionsGrow
  <1>9. PICK x \in Seq(Block) : x = <<b>> \o chain[k]
    BY <1>4, <1>6, InFront
  <1>10. /\ chain' \in [Kinds -> Seq(Block)] /\ chain'[k] = x
         /\ \A m \in Kinds \ {k} : chain'[m] = chain[m]
    BY <1>1, <1>3, <1>5, <1>6, <1>9
  <1>11. Only({k}, Blocks, Blocks') /\ Blocks'[k] = <<b>> \o Blocks[k]
    <2>1. Blocks = ListsOf(chain, freeBlocks, oldHeap) /\ Blocks' = ListsOf(chain', freeBlocks, oldHeap)
      BY <1>1, BlocksAre
    <2>2. \A m \in Lists \ {k} : Blocks'[m] = Blocks[m]
      BY <1>10, <2>1, ListAt, ListsAre
    <2>3. freeBlocks \in Seq(Block) /\ oldHeap \in Seq(Block)
      BY <1>6, <2>1, ListAt, ListsAre DEF Placed
    <2>4. Blocks' \in [Lists -> Seq(Block)]
      BY <1>10, <2>1, <2>3, ListsType
    <2> QED BY <1>9, <1>10, <2>1, <2>2, <2>4, ListAt DEF Only
  <1>12. Placed(Blocks', regions')
    BY <1>4, <1>5, <1>7, <1>8, <1>11, ListsAre, Push
  <1>13. b \notin Range(chain["info"])
    <2>1. Blocks["info"] = chain["info"]
      BY BlocksAre, ListAt, ListsAre
    <2> QED BY <1>6, <1>7, <2>1, ListsAre, NotIn
  <1>14. Used(b) = 0
    BY <1>4 DEF Used, BlocksInv
  <1>15. Grabbed(request.for, chain, b)
    BY <1>1, <1>3, <1>4, <1>13, <1>14 DEF Grabbed
  <1> QED BY <1>4, <1>10, <1>12, <1>15

-----------------------------------------------------------------------------
(***************************************************************************)
(* The steps.                                                              *)
(***************************************************************************)

\* The kinds' lists and the two others, as the invariant speaks of them.
LEMMA BlocksAt ==
  /\ Blocks["free"] = freeBlocks /\ Blocks["old"] = oldHeap
  /\ \A k \in Kinds : Blocks[k] = chain[k]
  /\ Blocks'["free"] = freeBlocks' /\ Blocks'["old"] = oldHeap'
  /\ \A k \in Kinds : Blocks'[k] = chain'[k]
  BY BlocksAre, ListAt

\* What is in the blocks is the same in both states.
LEMMA UsedSame ==
  ASSUME used' = used, NEW b
  PROVE  Used(b)' = Used(b)
  BY DEF Used

\* A request for a region.
LEMMA Requested ==
  ASSUME NEW k \in Kinds \cup {"large"}, NewRegionFor(k)
  PROVE  /\ request' \in [for : Kinds \cup {"large", "none"}, size : Nat, attempts : Nat]
         /\ request' # NoRequest /\ request'.for = k /\ request'.size = RegionUnits
         /\ request'.for # "none" /\ request'.size >= RegionUnits
  <1>1. k # "none"
    BY ListsAre
  <1>2. RegionUnits \in Nat
    BY StorageAssumption
  <1>3. request' = [for |-> k, size |-> RegionUnits, attempts |-> 0]
    BY DEF NewRegionFor
  <1>4. request' \in [for : Kinds \cup {"large", "none"}, size : Nat, attempts : Nat]
    BY <1>2, <1>3
  <1>5. request'.for = k /\ request'.size = RegionUnits
    BY <1>3
  <1>6. request' # NoRequest
    BY <1>1, <1>5 DEF NoRequest
  <1> QED BY <1>1, <1>2, <1>4, <1>5, <1>6

\* Handing out a block keeps the regions, and the lists.
LEMMA GrabKeeps ==
  ASSUME StorageType, MapsInv, BlocksInv, NEW k \in Kinds,
         NEW ch \in [Kinds -> Seq(Block)], NEW od \in Seq(Block),
         Placed(ListsOf(ch, freeBlocks, od), regions),
         GrabFreeBlock(k, ch), oldHeap' = od, request = NoRequest,
         UNCHANGED <<mapped, large, used, level>>,
         \A l \in Kinds \ {"closures"} : ch[l] = chain[l],
         \A b \in Range(ch["closures"]) \cup Range(od) : Used(b) = 0,
         want' \in Kinds \cup {"none"}, want' # "none" => od = << >>,
         k = "info" => want' = "info"
  PROVE  StorageType' /\ MapsInv' /\ BlocksInv'
  <1>1. /\ Placed(Blocks', regions') /\ chain' \in [Kinds -> Seq(Block)]
        /\ regions' \in Seq(Region) /\ Len(regions') = Len(regions) /\ RegionsGrow
        /\ Range(freeBlocks') \subseteq Range(freeBlocks)
        /\ \/ request' = request /\ \E b : Grabbed(k, ch, b)
           \/ chain' = ch /\ NewRegionFor(k)
    BY GrabStep
  <1>2. \/ request' = NoRequest
        \/ request'.for = k /\ request' # NoRequest /\ request'.size >= RegionUnits
    BY <1>1, Requested
  <1>3. StorageType'
    <2>1. request' \in [for : Kinds \cup {"large", "none"}, size : Nat, attempts : Nat]
      BY <1>1, Requested DEF StorageType
    <2> QED BY <1>1, <2>1 DEF StorageType
  <1>4. MapsInv'
    <2>1. DOMAIN regions' = DOMAIN regions /\ \A i \in DOMAIN regions : regions'[i].base = BaseOf(i)
      BY <1>1 DEF RegionsGrow, StorageType, BaseOf
    <2>2. request' # NoRequest => request'.for # "none" /\ request'.size >= RegionUnits
      BY <1>2, ListsAre
    <2> QED BY <2>1, <2>2 DEF MapsInv, BaseOf
  <1>5. BlocksInv'
    <2>1. \A l \in Kinds : chain'[l] = ch[l] \/ chain'[l] # << >>
      <3>1. ASSUME NEW b, Grabbed(k, ch, b)
            PROVE  chain'[k] # << >> /\ \A l \in Kinds \ {k} : chain'[l] = ch[l]
        <4>1. PICK x : x = <<b>> \o ch[k]
          OBVIOUS
        <4>2. x # << >>
          BY <3>1, <4>1, InFront DEF Grabbed
        <4>3. chain' = [ch EXCEPT ![k] = x]
          BY <3>1, <4>1 DEF Grabbed
        <4> QED BY <4>2, <4>3
      <3> QED BY <1>1, <3>1
    <2>2. \A l \in Kinds \ {"closures"} : chain'[l] # << >>
      BY <2>1 DEF BlocksInv
    <2>3. \A b \in DOMAIN used' : b \in Block /\ Exists(b, regions')
      BY <1>1 DEF BlocksInv, RegionsGrow
    <2>4. ASSUME NEW l \in {"free", "old", "closures"}, NEW b \in Range(Blocks'[l])
          PROVE  Used(b)' = 0
      <3>1. CASE l = "free"
        <4>1. b \in Range(freeBlocks)
          BY <1>1, <3>1, BlocksAt
        <4>2. Used(b) = 0
          BY <4>1, BlocksAt DEF BlocksInv
        <4> QED BY <4>2, UsedSame
      <3>2. CASE l = "old"
        BY <3>2, BlocksAt, UsedSame
      <3>3. CASE l = "closures"
        <4>1. b \in Range(chain'["closures"])
          BY <3>3, BlocksAt, ListsAre
        <4>2. CASE chain'["closures"] = ch["closures"]
          BY <4>1, <4>2, UsedSame
        <4>3. ASSUME NEW c, Grabbed(k, ch, c), k = "closures"
              PROVE  Used(b) = 0
          <5>1. chain'["closures"] = <<c>> \o ch["closures"] /\ c \in Block /\ Used(c) = 0
            BY <4>3 DEF Grabbed
          <5>2. b \in Range(ch["closures"]) \cup {c}
            BY <4>1, <5>1, ListsAre, RangeInFront
          <5> QED BY <5>1, <5>2
        <4>4. ASSUME NEW c, Grabbed(k, ch, c), k # "closures"
              PROVE  chain'["closures"] = ch["closures"]
          BY <4>4, ListsAre DEF Grabbed
        <4> QED BY <1>1, <4>2, <4>3, <4>4, UsedSame
      <3> QED BY <3>1, <3>2, <3>3
    <2>5. request'.for = "info" => Fetching'
      BY <1>2 DEF Fetching, NoRequest
    <2> QED BY <1>1, <2>2, <2>3, <2>4, <2>5 DEF BlocksInv
  <1> QED BY <1>3, <1>4, <1>5

\* A new region lies where none was.
LEMMA NewMaps ==
  ASSUME StorageType, MapsInv, NEW a \in Nat, NewAt(a),
         request.for \in Kinds \cup {"large"}
  PROVE  MapsInv'
  <1>1. /\ request' = NoRequest /\ Aligned(a)
        /\ RegionBytes(a) \cap mapped = {} /\ RegionBytes(a) \subseteq mapped'
        /\ mapped \subseteq mapped'
    BY DEF NewAt, HaveRegion
  <1>2. regions \in Seq(Region) /\ Len(regions) > 0
    BY DEF StorageType
  <1>3. \A i \in DOMAIN regions : BaseOf(i) \in Nat
    <2> SUFFICES ASSUME NEW i \in DOMAIN regions
                 PROVE  BaseOf(i) \in Nat
      OBVIOUS
    <2>1. regions[i] \in Region
      BY <1>2
    <2> QED BY <2>1 DEF Region, BaseOf
  <1>4. \A i \in DOMAIN regions : BaseOf(i) # a
    BY <1>1, <1>3, Fresh DEF MapsInv
  <1>5. a \notin large
    BY <1>1, Fresh DEF MapsInv
  <1>6. CASE request.for = "large"
    <2>1. large' = large \cup {a} /\ regions' = regions
      BY <1>6 DEF NewAt, HaveRegion
    <2> QED BY <1>1, <1>4, <1>5, <2>1 DEF MapsInv, BaseOf
  <1>7. CASE request.for \in Kinds
    <2>1. large' = large /\ regions' = Append(regions, [base |-> a, nextFree |-> 1])
      BY <1>7, ListsAre DEF NewAt, HaveRegion
    <2>2. PICK n \in Nat : n = Len(regions)
      BY <1>2
    <2>3. /\ regions' \in Seq(Region) /\ Len(regions') = n + 1
          /\ RegionsGrow /\ regions'[n + 1].base = a
      BY <1>2, <2>1, <2>2, RegionAppended
    <2>4. DOMAIN regions' = DOMAIN regions \cup {n + 1}
      BY <1>2, <2>2, <2>3
    <2>5. /\ \A i \in DOMAIN regions : BaseOf(i)' = BaseOf(i)
          /\ BaseOf(n + 1)' = a
      BY <2>3 DEF RegionsGrow, BaseOf
    <2>6. \A i \in DOMAIN regions' :
            Aligned(BaseOf(i)') /\ RegionBytes(BaseOf(i)') \subseteq mapped'
      BY <1>1, <2>4, <2>5 DEF MapsInv
    <2>7. \A i, k \in DOMAIN regions' : BaseOf(i)' = BaseOf(k)' => i = k
      BY <1>4, <2>4, <2>5 DEF MapsInv
    <2>8. \A i \in DOMAIN regions' : BaseOf(i)' \notin large'
      BY <1>5, <2>1, <2>4, <2>5 DEF MapsInv
    <2>9. \A b \in large' : Aligned(b) /\ RegionBytes(b) \subseteq mapped'
      BY <1>1, <2>1 DEF MapsInv
    <2>10. large' \subseteq Nat
      BY <2>1 DEF MapsInv
    <2> QED BY <1>1, <2>6, <2>7, <2>8, <2>9, <2>10 DEF MapsInv, BaseOf
  <1> QED BY <1>6, <1>7

\* The lists are as they were, and everything is still there.
LEMMA BlocksSame ==
  ASSUME StorageType, BlocksInv, UNCHANGED <<chain, freeBlocks, oldHeap, used, regions, want>>,
         request'.for = "info" => Fetching'
  PROVE  BlocksInv'
  <1>1. Blocks' = Blocks
    BY BlocksAre
  <1> QED BY <1>1, UsedSame DEF BlocksInv

\* Nothing becomes of info tables in a step that leaves their blocks alone.
LEMMA InfoSame ==
  ASSUME InfoInv, UNCHANGED <<chain, used, readOnly, level, want>>, Fetching' = Fetching,
         Fetching' => request'.for = "info"
  PROVE  InfoInv'
  BY UsedSame DEF InfoInv, Infos

\* The answer of the system keeps the invariant.
LEMMA StepMMap ==
  ASSUME StorageInv, MMap
  PROVE  StorageInv'
  <1>1. StorageType /\ MapsInv /\ BlocksInv /\ InfoInv
    BY DEF StorageInv
  <1>2. request # NoRequest /\ (AskedAgain \/ \E a \in Nat : NewAt(a))
    BY <1>1, MapStep
  <1>3. request.for \in Kinds \cup {"large"}
    BY <1>1, <1>2 DEF StorageType, MapsInv
  <1>4. CASE AskedAgain
    <2>1. /\ UNCHANGED <<mapped, regions, large, chain, freeBlocks, oldHeap, used, want, readOnly, level>>
          /\ request'.for = request.for /\ request'.size >= RegionUnits
          /\ request' \in [for : Kinds \cup {"large", "none"}, size : Nat, attempts : Nat]
      BY <1>4 DEF AskedAgain, blockVars
    <2>2. request'.for # "none" /\ request' # NoRequest
      BY <1>3, <2>1, ListsAre DEF NoRequest
    <2>3. Fetching' = Fetching
      BY <1>2, <2>1, <2>2 DEF Fetching
    <2>4. StorageType'
      BY <1>1, <2>1 DEF StorageType
    <2>5. MapsInv'
      BY <1>1, <2>1, <2>2 DEF MapsInv, BaseOf
    <2>6. BlocksInv'
      <3>1. request'.for = "info" => Fetching'
        BY <1>1, <2>1, <2>3 DEF BlocksInv
      <3> QED BY <1>1, <2>1, <3>1, BlocksSame
    <2>7. InfoInv'
      <3>1. Fetching' => request'.for = "info"
        BY <1>1, <2>1, <2>3 DEF InfoInv
      <3> QED BY <1>1, <2>1, <2>3, <3>1, InfoSame
    <2> QED BY <2>4, <2>5, <2>6, <2>7 DEF StorageInv
  <1>5. ASSUME NEW a \in Nat, NewAt(a)
        PROVE  StorageInv'
    <2>1. /\ request' = NoRequest /\ UNCHANGED <<freeBlocks, used, want, oldHeap, readOnly, level>>
      BY <1>5 DEF NewAt, HaveRegion
    <2>2. request' \in [for : Kinds \cup {"large", "none"}, size : Nat, attempts : Nat]
      BY <2>1 DEF NoRequest
    <2>3. MapsInv'
      BY <1>1, <1>3, <1>5, NewMaps
    <2>4. ~ Fetching' /\ request'.for = "none"
      BY <2>1 DEF Fetching, NoRequest
    <2>5. CASE request.for = "large"
      <3>1. UNCHANGED <<regions, chain>>
        BY <1>5, <2>5 DEF NewAt, HaveRegion
      <3>2. ~ Fetching
        BY <1>1, <2>5 DEF InfoInv
      <3>3. StorageType'
        BY <1>1, <2>1, <2>2, <3>1 DEF StorageType
      <3>4. BlocksInv'
        BY <1>1, <2>1, <2>4, <3>1, BlocksSame
      <3>5. InfoInv'
        <4>1. Fetching = FALSE /\ Fetching' = FALSE
          BY <2>4, <3>2
        <4> QED BY <1>1, <2>1, <3>1, <4>1, InfoSame
      <3> QED BY <2>3, <3>3, <3>4, <3>5 DEF StorageInv
    <2>6. CASE request.for \in Kinds
      <3>1. /\ regions' \in Seq(Region) /\ RegionsGrow
            /\ Placed(Blocks', regions') /\ chain' \in [Kinds -> Seq(Block)]
            /\ \E b : Grabbed(request.for, chain, b)
        BY <1>1, <1>5, <2>6, FirstBlock
      <3>2. PICK b \in Block : Grabbed(request.for, chain, b)
        BY <3>1 DEF Grabbed
      <3>3. PICK k \in Kinds : k = request.for
        BY <2>6
      <3>4. /\ Used(b) = 0 /\ b \notin Range(chain["info"])
            /\ chain' = [chain EXCEPT ![k] = <<b>> \o @]
        BY <3>2, <3>3 DEF Grabbed
      <3>5. chain \in [Kinds -> Seq(Block)]
        BY <1>1 DEF BlocksInv
      <3>6. PICK x \in Seq(Block) : x = <<b>> \o chain[k]
        BY <3>5, InFront
      <3>7. x # << >> /\ Head(x) = b /\ Range(x) = Range(chain[k]) \cup {b}
        BY <3>5, <3>6, InFront, RangeInFront
      <3>8. chain'[k] = x /\ \A l \in Kinds \ {k} : chain'[l] = chain[l]
        BY <3>4, <3>5, <3>6
      <3>9. StorageType'
        <4>1. Len(regions') > 0
          <5>1. 1 \in DOMAIN regions /\ 1 \in DOMAIN regions'
            BY <1>1, <3>1 DEF StorageType, RegionsGrow
          <5> QED BY <3>1, <5>1
        <4> QED BY <1>1, <2>1, <2>2, <3>1, <4>1 DEF StorageType
      <3>10. BlocksInv'
        <4>1. \A l \in Kinds \ {"closures"} : chain'[l] # << >>
          BY <1>1, <3>7, <3>8 DEF BlocksInv
        <4>2. \A c \in DOMAIN used' : c \in Block /\ Exists(c, regions')
          BY <1>1, <2>1, <3>1 DEF BlocksInv, RegionsGrow
        <4>3. ASSUME NEW l \in {"free", "old", "closures"}, NEW c \in Range(Blocks'[l])
              PROVE  Used(c)' = 0
          <5>1. c \in Range(Blocks[l]) \/ c = b
            BY <2>1, <3>7, <3>8, BlocksAt, ListsAre
          <5>2. Used(c) = 0
            BY <1>1, <3>4, <5>1 DEF BlocksInv
          <5> QED BY <2>1, <5>2, UsedSame
        <4>4. want' # "none" => oldHeap' = << >>
          BY <1>1, <2>1 DEF BlocksInv
        <4> QED BY <2>4, <3>1, <4>1, <4>2, <4>3, <4>4 DEF BlocksInv
      <3>11. InfoInv'
        <4>1. CASE k = "info"
          <5>1. Fetching /\ want = "info" /\ level > 0
            BY <1>1, <3>3, <4>1 DEF BlocksInv, InfoInv, Fetching
          <5>2. Infos' = x /\ Infos = chain["info"]
            BY <3>8, <4>1 DEF Infos
          <5>3. readOnly' \subseteq Range(Infos') /\ Head(Infos') \notin readOnly'
            BY <1>1, <2>1, <3>4, <3>7, <4>1, <5>2 DEF InfoInv
          <5>4. ASSUME NEW c \in Range(Infos'), Used(c)' > 0
                PROVE  isPageAligned(c) /\ c \in readOnly'
            <6>1. Used(c) > 0
              BY <2>1, <5>4, UsedSame
            <6>2. c \in Range(Infos)
              BY <3>4, <3>7, <4>1, <5>2, <6>1
            <6> QED BY <1>1, <2>1, <5>1, <6>1, <6>2 DEF InfoInv
          <5> QED BY <1>1, <2>1, <2>4, <5>1, <5>3, <5>4 DEF InfoInv
        <4>2. CASE k # "info"
          <5>1. ~ Fetching
            BY <1>1, <3>3, <4>2 DEF InfoInv
          <5>2. Infos' = Infos
            BY <3>8, <4>2, ListsAre DEF Infos
          <5>3. \A c : Used(c)' = Used(c)
            BY <2>1, UsedSame
          <5> QED BY <1>1, <2>1, <2>4, <5>1, <5>2, <5>3 DEF InfoInv
        <4> QED BY <4>1, <4>2
      <3> QED BY <2>3, <3>9, <3>10, <3>11 DEF StorageInv
    <2> QED BY <1>3, <2>5, <2>6
  <1> QED BY <1>2, <1>4, <1>5

\* The parts of the invariant as they are before a step.
LEMMA Parts ==
  ASSUME StorageInv
  PROVE  /\ StorageType /\ MapsInv /\ BlocksInv /\ InfoInv
         /\ chain \in [Kinds -> Seq(Block)] /\ freeBlocks \in Seq(Block) /\ oldHeap \in Seq(Block)
         /\ Placed(Blocks, regions) /\ Blocks = ListsOf(chain, freeBlocks, oldHeap)
         /\ \A l \in {"free", "old", "closures"} : \A b \in Range(Blocks[l]) : Used(b) = 0
  <1>1. Placed(Blocks, regions) /\ chain \in [Kinds -> Seq(Block)]
    BY DEF StorageInv, BlocksInv
  <1>2. freeBlocks \in Seq(Block) /\ oldHeap \in Seq(Block)
    BY <1>1, BlocksAt, ListsAre DEF Placed
  <1> QED BY <1>1, <1>2, BlocksAre DEF StorageInv, BlocksInv

\* A block is handed out for kind k, with the other blocks as they are.
LEMMA GrabHere ==
  ASSUME StorageInv, NEW k \in Kinds, GrabFreeBlock(k, chain), request = NoRequest,
         UNCHANGED <<mapped, large, used, level, oldHeap>>,
         want' \in Kinds \cup {"none"}, want' # "none" => oldHeap = << >>,
         k = "info" => want' = "info"
  PROVE  /\ StorageType' /\ MapsInv' /\ BlocksInv'
         /\ \/ request' = request /\ \E b : Grabbed(k, chain, b)
            \/ chain' = chain /\ NewRegionFor(k)
  <1>1. /\ StorageType /\ MapsInv /\ BlocksInv
        /\ chain \in [Kinds -> Seq(Block)] /\ oldHeap \in Seq(Block)
        /\ Placed(ListsOf(chain, freeBlocks, oldHeap), regions)
    BY Parts
  <1>2. \A b \in Range(chain["closures"]) \cup Range(oldHeap) : Used(b) = 0
    BY Parts, BlocksAt, ListsAre
  <1>3. StorageType' /\ MapsInv' /\ BlocksInv'
    BY <1>1, <1>2, GrabKeeps
  <1> QED BY <1>1, <1>3, GrabStep

\* Where the blocks of info tables, and their protection, do not change.
LEMMA InfoAside ==
  ASSUME InfoInv, Infos' = Infos, UNCHANGED <<readOnly, level>>,
         \A b \in Range(Infos) : Used(b)' = Used(b),
         ~ Fetching, ~ Fetching', want = "info" \/ isPageAligned(Head(Infos)),
         want' # "info" => isPageAligned(Head(Infos)), want' = "info" => level > 0
  PROVE  InfoInv'
  BY DEF InfoInv

\* A block of one kind goes to no other kind.
LEMMA OtherKind ==
  ASSUME NEW k \in Kinds, NEW ch \in [Kinds -> Seq(Block)], k # "info",
         ch["info"] = chain["info"],
         \/ \E b : Grabbed(k, ch, b)
         \/ chain' = ch
  PROVE  Infos' = Infos
  BY ListsAre DEF Grabbed, Infos

\* So does a request for a region of large objects,
LEMMA StepNewLarge ==
  ASSUME StorageInv, NewLargeRegion
  PROVE  StorageInv'
  <1>1. /\ request = NoRequest /\ want = "none" /\ oldHeap = << >>
        /\ NewRegionFor("large") /\ UNCHANGED <<hint, mapped, regions, large, stopped, blockVars>>
    BY DEF NewLargeRegion, Idle
  <1>2. UNCHANGED <<chain, freeBlocks, used, want, oldHeap, readOnly, level>>
    BY <1>1 DEF blockVars
  <1>3. /\ request' \in [for : Kinds \cup {"large", "none"}, size : Nat, attempts : Nat]
        /\ request'.for = "large" /\ request'.size >= RegionUnits
    BY <1>1, Requested
  <1>4. StorageType /\ MapsInv /\ BlocksInv /\ InfoInv
    BY Parts
  <1>5. Fetching = FALSE /\ Fetching' = FALSE
    BY <1>1, <1>2, ListsAre DEF Fetching
  <1>6. StorageType'
    BY <1>1, <1>2, <1>3, <1>4 DEF StorageType
  <1>7. MapsInv'
    BY <1>1, <1>3, <1>4 DEF MapsInv, BaseOf
  <1>8. BlocksInv'
    BY <1>1, <1>2, <1>3, <1>4, BlocksSame
  <1>9. InfoInv'
    BY <1>2, <1>4, <1>5, InfoSame
  <1> QED BY <1>6, <1>7, <1>8, <1>9 DEF StorageInv

\* a full block of the closures,
LEMMA StepFull ==
  ASSUME StorageInv, BumpAllocatorFull
  PROVE  StorageInv'
  <1>1. /\ request = NoRequest /\ want = "none" /\ oldHeap = << >>
        /\ UNCHANGED <<hint, mapped, large, used, want, readOnly, level, stopped>>
    BY DEF BumpAllocatorFull, Idle
  <1>2. /\ StorageType /\ MapsInv /\ BlocksInv /\ InfoInv
        /\ chain \in [Kinds -> Seq(Block)]
        /\ Placed(Blocks, regions) /\ Blocks = ListsOf(chain, freeBlocks, oldHeap)
        /\ \A b \in Range(chain["closures"]) : Used(b) = 0
    BY Parts, BlocksAt, ListsAre
  <1>3. want' # "info" /\ "closures" # "info" /\ "closures" \in Kinds /\ "info" \in Kinds
    BY <1>1, ListsAre
  <1>4. CASE GrabFreeBlock("closures", chain) /\ UNCHANGED oldHeap
    <2>1. /\ StorageType' /\ MapsInv' /\ BlocksInv'
          /\ \/ request' = request /\ \E b : Grabbed("closures", chain, b)
             \/ chain' = chain /\ NewRegionFor("closures")
      BY <1>1, <1>3, <1>4, GrabHere
    <2>2. Infos' = Infos
      BY <1>2, <1>3, <2>1, OtherKind
    <2>3. InfoInv'
      BY <1>1, <1>2, <1>3, <2>2, InfoAside, UsedSame DEF Fetching, InfoInv
    <2> QED BY <2>1, <2>3 DEF StorageInv
  <1>5. ASSUME GrabFreeBlock("closures", [chain EXCEPT !["closures"] = << >>]),
               oldHeap' = chain["closures"]
        PROVE  StorageInv'
    <2>1. PICK ch : ch = [chain EXCEPT !["closures"] = << >>]
      OBVIOUS
    <2>2. PICK od \in Seq(Block) : od = chain["closures"]
      BY <1>2, <1>3
    <2>3. /\ ch \in [Kinds -> Seq(Block)] /\ ch["closures"] = << >>
          /\ \A l \in Kinds \ {"closures"} : ch[l] = chain[l]
      <3>1. PICK B : B = Seq(Block)
        OBVIOUS
      <3>2. chain \in [Kinds -> B] /\ << >> \in B
        BY <1>2, <3>1
      <3> QED BY <1>3, <2>1, <3>1, <3>2
    <2>4. PICK ls : ls = ListsOf(ch, freeBlocks, od)
      OBVIOUS
    <2>5. Only({"closures", "old"}, Blocks, ls) /\ ls["old"] = Blocks["closures"] /\ ls["closures"] = << >>
      <3>1. ls \in [Lists -> Seq(Block)]
        BY <2>2, <2>3, <2>4, Parts, ListsType
      <3>2. \A m \in Lists \ {"closures", "old"} : ls[m] = Blocks[m]
        BY <2>3, <2>4, ListAt, ListsAre, BlocksAt
      <3>3. ls["old"] = Blocks["closures"] /\ ls["closures"] = << >>
        BY <1>3, <2>2, <2>3, <2>4, ListAt, BlocksAt
      <3> QED BY <3>1, <3>2, <3>3 DEF Only
    <2>6. Placed(ls, regions)
      BY <1>2, <1>3, <2>5, ToOld
    <2>7. \A b \in Range(ch["closures"]) \cup Range(od) : Used(b) = 0
      BY <1>2, <2>2, <2>3 DEF Range
    <2>8. GrabFreeBlock("closures", ch) /\ oldHeap' = od
      BY <1>5, <2>1, <2>2
    <2>9. UNCHANGED <<mapped, large, used, level>> /\ want' = "none"
      BY <1>1
    <2>10. StorageType' /\ MapsInv' /\ BlocksInv'
      BY <1>1, <1>2, <1>3, <2>3, <2>4, <2>6, <2>7, <2>8, <2>9, GrabKeeps
    <2>11. (\E b : Grabbed("closures", ch, b)) \/ chain' = ch
      BY <1>2, <1>3, <2>3, <2>4, <2>6, <2>8, GrabStep
    <2>12. Infos' = Infos
      BY <1>2, <1>3, <2>3, <2>11, OtherKind
    <2>13. InfoInv'
      BY <1>1, <1>2, <1>3, <2>12, InfoAside, UsedSame DEF Fetching, InfoInv
    <2> QED BY <2>10, <2>13 DEF StorageInv
  <1> QED BY <1>4, <1>5 DEF BumpAllocatorFull

\* a full block during a collection,
LEMMA StepEvacuate ==
  ASSUME StorageInv, EvacuateFull
  PROVE  StorageInv'
  <1>1. /\ request = NoRequest /\ oldHeap # << >> /\ GrabFreeBlock("closures", chain)
        /\ UNCHANGED <<hint, mapped, large, used, want, oldHeap, readOnly, level, stopped>>
    BY DEF EvacuateFull
  <1>2. InfoInv /\ chain \in [Kinds -> Seq(Block)] /\ want = "none"
    BY <1>1, Parts DEF BlocksInv
  <1>3. want' # "info" /\ "closures" # "info" /\ "closures" \in Kinds
    BY <1>1, <1>2, ListsAre
  <1>4. /\ StorageType' /\ MapsInv' /\ BlocksInv'
        /\ \/ request' = request /\ \E b : Grabbed("closures", chain, b)
           \/ chain' = chain /\ NewRegionFor("closures")
    BY <1>1, <1>2, <1>3, GrabHere
  <1>5. Infos' = Infos
    BY <1>2, <1>3, <1>4, OtherKind
  <1>6. InfoInv'
    BY <1>1, <1>2, <1>3, <1>5, InfoAside, UsedSame DEF Fetching, InfoInv
  <1> QED BY <1>4, <1>6 DEF StorageInv

\* The old blocks go to the free ones.
LEMMA StepFreeOld ==
  ASSUME StorageInv, FreeOldHeap
  PROVE  StorageInv'
  <1>1. /\ request = NoRequest /\ oldHeap # << >>
        /\ freeBlocks' = Reverse(oldHeap) \o freeBlocks /\ oldHeap' = << >>
        /\ UNCHANGED <<hint, mapped, regions, large, request, stopped>>
        /\ UNCHANGED <<chain, used, want, readOnly, level>>
    BY DEF FreeOldHeap, mapVars
  <1>2. /\ StorageType /\ MapsInv /\ BlocksInv /\ InfoInv
        /\ chain \in [Kinds -> Seq(Block)] /\ freeBlocks \in Seq(Block) /\ oldHeap \in Seq(Block)
        /\ Placed(Blocks, regions)
        /\ \A l \in {"free", "old", "closures"} : \A b \in Range(Blocks[l]) : Used(b) = 0
    BY Parts
  <1>3. PICK v \in Seq(Block) : v = Reverse(oldHeap)
    BY <1>2, ReverseIs
  <1>13. freeBlocks' = v \o freeBlocks
    BY <1>1, <1>3
  <1>4. freeBlocks' \in Seq(Block)
    BY <1>2, <1>13, ConcatProperties
  <1>5. Blocks' = ListsOf(chain', freeBlocks', oldHeap')
    BY BlocksAre
  <1>6. Only({"free", "old"}, Blocks, Blocks')
    <2>1. chain' \in [Kinds -> Seq(Block)] /\ oldHeap' \in Seq(Block)
      BY <1>1, <1>2
    <2>2. Blocks' \in [Lists -> Seq(Block)]
      BY <1>4, <1>5, <2>1, ListsType
    <2>3. \A m \in Lists \ {"free", "old"} : Blocks'[m] = Blocks[m]
      BY <1>1, BlocksAt, ListsAre
    <2> QED BY <2>2, <2>3 DEF Only
  <1>7. Placed(Blocks', regions')
    <2>1. Blocks'["free"] = Reverse(Blocks["old"]) \o Blocks["free"] /\ Blocks'["old"] = << >>
      BY <1>1, BlocksAt
    <2> QED BY <1>1, <1>2, <1>6, <2>1, ToFree
  <1>8. \A b \in Range(freeBlocks') : b \in Range(oldHeap) \cup Range(freeBlocks)
    <2>1. PICK n \in Nat : n = Len(oldHeap)
      BY <1>2
    <2>2. Len(v) = n /\ \A i \in 1..n : v[i] = oldHeap[n - i + 1]
      BY <1>2, <1>3, <2>1, ReverseIs
    <2>3. PICK m \in Nat : m = Len(freeBlocks)
      BY <1>2
    <2>4. /\ Len(freeBlocks') = n + m
          /\ \A i \in 1..(n + m) : freeBlocks'[i] = IF i <= n THEN v[i] ELSE freeBlocks[i - n]
      <3>1. /\ Len(v \o freeBlocks) = Len(v) + Len(freeBlocks)
            /\ \A i \in 1..(Len(v) + Len(freeBlocks)) :
                 (v \o freeBlocks)[i] = IF i <= Len(v) THEN v[i] ELSE freeBlocks[i - Len(v)]
        BY <1>2, ConcatProperties
      <3>2. Len(v) = n /\ Len(freeBlocks) = m
        BY <2>2, <2>3
      <3> QED BY <1>13, <3>1, <3>2
    <2> SUFFICES ASSUME NEW i \in 1..(n + m)
                 PROVE  freeBlocks'[i] \in Range(oldHeap) \cup Range(freeBlocks)
      BY <1>4, <2>4 DEF Range
    <2>5. CASE i <= n
      <3>1. n - i + 1 \in DOMAIN oldHeap /\ freeBlocks'[i] = oldHeap[n - i + 1]
        <4>1. i \in 1..n /\ n - i + 1 \in 1..n
          BY <2>5
        <4>2. DOMAIN oldHeap = 1..n
          BY <1>2, <2>1
        <4> QED BY <2>2, <2>4, <2>5, <4>1, <4>2
      <3> QED BY <3>1 DEF Range
    <2>6. CASE i > n
      <3>1. i - n \in DOMAIN freeBlocks /\ freeBlocks'[i] = freeBlocks[i - n]
        BY <1>2, <2>3, <2>4, <2>6
      <3> QED BY <3>1 DEF Range
    <2> QED BY <2>5, <2>6
  <1>9. StorageType'
    BY <1>1, <1>2 DEF StorageType
  <1>10. MapsInv'
    BY <1>1, <1>2 DEF MapsInv, BaseOf
  <1>11. BlocksInv'
    <2>1. ASSUME NEW l \in {"free", "old", "closures"}, NEW b \in Range(Blocks'[l])
          PROVE  Used(b)' = 0
      <3>1. b \in Range(oldHeap) \/ b \in Range(freeBlocks) \/ b \in Range(chain["closures"])
        <4>1. CASE l = "free"
          BY <1>8, <4>1, BlocksAt
        <4>2. CASE l = "old"
          <5>1. Blocks'[l] = << >>
            BY <1>1, <4>2, BlocksAt
          <5> QED BY <5>1 DEF Range
        <4>3. CASE l = "closures"
          BY <1>1, <4>3, BlocksAt, ListsAre
        <4> QED BY <4>1, <4>2, <4>3
      <3>2. Used(b) = 0
        BY <1>2, <3>1, BlocksAt, ListsAre
      <3> QED BY <1>1, <3>2, UsedSame
    <2>2. /\ \A k \in Kinds \ {"closures"} : chain'[k] # << >>
          /\ \A b \in DOMAIN used' : b \in Block /\ Exists(b, regions')
          /\ chain' \in [Kinds -> Seq(Block)]
          /\ request'.for = "info" => Fetching'
      BY <1>1, <1>2 DEF BlocksInv, Fetching
    <2> QED BY <1>1, <1>7, <2>1, <2>2 DEF BlocksInv
  <1>12. InfoInv'
    <2>1. Fetching' = Fetching
      BY <1>1 DEF Fetching
    <2>2. Fetching' => request'.for = "info"
      BY <1>1, <1>2, <2>1 DEF InfoInv
    <2> QED BY <1>1, <1>2, <2>1, <2>2, InfoSame
  <1> QED BY <1>9, <1>10, <1>11, <1>12 DEF StorageInv

\* The current block of a kind is there, and on no other list.
LEMMA Current ==
  ASSUME StorageInv, NEW k \in Kinds \ {"closures"}
  PROVE  /\ Head(chain[k]) \in Range(chain[k])
         /\ Head(chain[k]) \in Block /\ Exists(Head(chain[k]), regions)
         /\ \A l \in Lists \ {k} : Head(chain[k]) \notin Range(Blocks[l])
  <1>1. PICK s \in Seq(Block) : s = chain[k] /\ s # << >>
    BY DEF StorageInv, BlocksInv
  <1>2. Len(s) \in Nat \ {0} /\ 1 \in DOMAIN s /\ Head(s) = s[1]
    BY <1>1
  <1>3. Placed(Blocks, regions) /\ Blocks[k] = s /\ k \in Lists
    BY <1>1, Parts, BlocksAt, ListsAre
  <1>4. Head(s) \in Range(s) /\ Head(s) \in Block
    BY <1>2 DEF Range
  <1>5. Exists(Head(s), regions)
    BY <1>2, <1>3 DEF Placed
  <1>6. \A l \in Lists \ {k} : Head(s) \notin Range(Blocks[l])
    BY <1>2, <1>3 DEF Placed, Range
  <1> QED BY <1>1, <1>4, <1>5, <1>6

\* An object more in the current block.
LEMMA PutStep ==
  ASSUME StorageInv, NEW k \in Kinds \ {"closures"}, Put(k),
         UNCHANGED <<mapped, regions, large, request, chain, freeBlocks, oldHeap, level>>,
         request = NoRequest, want' = "none"
  PROVE  /\ StorageType' /\ MapsInv' /\ BlocksInv'
         /\ \A b : b # Head(chain[k]) => Used(b)' = Used(b)
  <1>1. PICK h \in Block : h = Head(chain[k]) /\ Exists(h, regions)
    BY Current
  <1>2. /\ \A l \in Lists \ {k} : h \notin Range(Blocks[l])
        /\ StorageType /\ MapsInv /\ BlocksInv /\ Placed(Blocks, regions)
        /\ \A l \in {"free", "old", "closures"} : \A b \in Range(Blocks[l]) : Used(b) = 0
    BY <1>1, Current, Parts
  <1>3. used' = [b \in DOMAIN used \cup {h} |-> IF b = h THEN Used(b) + 1 ELSE used[b]]
    BY <1>1 DEF Put
  <1>4. DOMAIN used' = DOMAIN used \cup {h} /\ \A b \in DOMAIN used \ {h} : used'[b] = used[b]
    BY <1>3
  <1>5. ASSUME NEW b, b # h
        PROVE  Used(b)' = Used(b)
    BY <1>4, <1>5 DEF Used
  <1>6. \A b \in DOMAIN used' : used'[b] \in Nat
    <2>1. Used(h) \in Nat
      BY <1>2 DEF Used, StorageType
    <2>2. used'[h] = Used(h) + 1
      BY <1>3
    <2> QED BY <1>2, <1>4, <2>1, <2>2 DEF StorageType
  <1>7. StorageType'
    BY <1>2, <1>6 DEF StorageType
  <1>8. MapsInv'
    BY <1>2 DEF MapsInv, BaseOf
  <1>9. BlocksInv'
    <2>1. Blocks' = Blocks
      BY BlocksAre
    <2>2. ASSUME NEW l \in {"free", "old", "closures"}, NEW b \in Range(Blocks[l])
          PROVE  Used(b)' = 0
      <3>1. l \in Lists \ {k}
        BY ListsAre
      <3>2. b # h /\ Used(b) = 0
        BY <1>2, <3>1
      <3> QED BY <1>5, <3>2
    <2>3. request'.for # "info"
      BY DEF NoRequest
    <2>4. \A b \in DOMAIN used' : b \in Block /\ Exists(b, regions')
      BY <1>1, <1>2, <1>4 DEF BlocksInv
    <2>5. chain' \in [Kinds -> Seq(Block)] /\ \A l \in Kinds \ {"closures"} : chain'[l] # << >>
      BY <1>2 DEF BlocksInv
    <2> QED BY <1>2, <2>1, <2>2, <2>3, <2>4, <2>5 DEF BlocksInv
  <1> QED BY <1>1, <1>5, <1>7, <1>8, <1>9

\* an allocation of another kind,
LEMMA StepAllocInto ==
  ASSUME StorageInv, NEW k \in Kinds, AllocInto(k)
  PROVE  StorageInv'
  <1>1. /\ k \notin {"info", "closures"} /\ request = NoRequest /\ oldHeap = << >>
        /\ UNCHANGED <<hint, mapped, large, oldHeap, readOnly, level, stopped>>
        /\ want \in {"none", k}
    BY DEF AllocInto
  <1>2. InfoInv /\ chain \in [Kinds -> Seq(Block)] /\ "info" \in Kinds /\ k # "none" /\ "info" # "none"
    BY Parts, ListsAre
  <1>3. ~ Fetching /\ isPageAligned(Head(Infos))
    BY <1>1, <1>2 DEF Fetching, InfoInv
  <1>4. CASE Put(k) /\ want' = "none" /\ UNCHANGED <<chain, freeBlocks, regions, request>>
    <2>1. /\ StorageType' /\ MapsInv' /\ BlocksInv'
          /\ \A b : b # Head(chain[k]) => Used(b)' = Used(b)
      BY <1>1, <1>4, PutStep
    <2>2. \A b \in Range(Infos) : Used(b)' = Used(b)
      <3>1. Head(chain[k]) \notin Range(Blocks["info"])
        BY <1>1, <1>2, Current, ListsAre
      <3> QED BY <1>2, <2>1, <3>1, BlocksAt DEF Infos
    <2>3. ~ Fetching' /\ want' # "info" /\ Infos' = Infos
      BY <1>2, <1>4 DEF Fetching, Infos
    <2>4. InfoInv'
      BY <1>1, <1>2, <1>3, <2>2, <2>3, InfoAside
    <2> QED BY <2>1, <2>4 DEF StorageInv
  <1>5. CASE want = "none" /\ GrabFreeBlock(k, chain) /\ want' = k /\ UNCHANGED used
    <2>1. /\ StorageType' /\ MapsInv' /\ BlocksInv'
          /\ \/ request' = request /\ \E b : Grabbed(k, chain, b)
             \/ chain' = chain /\ NewRegionFor(k)
      BY <1>1, <1>5, GrabHere
    <2>2. Infos' = Infos
      BY <1>1, <1>2, <2>1, OtherKind
    <2>3. ~ Fetching' /\ want' # "info"
      BY <1>1, <1>5 DEF Fetching
    <2>4. InfoInv'
      BY <1>1, <1>2, <1>3, <1>5, <2>2, <2>3, InfoAside, UsedSame
    <2> QED BY <2>1, <2>4 DEF StorageInv
  <1> QED BY <1>4, <1>5 DEF AllocInto

\* Where only the protection of blocks, the nesting of handles and what is
\* wanted change, the lists are as they were.
LEMMA ListsStay ==
  ASSUME StorageInv, UNCHANGED <<mapVars, chain, freeBlocks, used, oldHeap, want>>,
         request = NoRequest, level' \in Nat
  PROVE  /\ StorageType' /\ MapsInv' /\ BlocksInv'
         /\ Infos' = Infos /\ ~ Fetching /\ ~ Fetching'
         /\ \A b : Used(b)' = Used(b)
  <1>1. UNCHANGED <<mapped, regions, large, request>>
    BY DEF mapVars
  <1>2. StorageType /\ MapsInv /\ BlocksInv
    BY Parts
  <1>3. StorageType' /\ MapsInv'
    BY <1>1, <1>2 DEF StorageType, MapsInv, BaseOf
  <1>4. request'.for # "info"
    BY <1>1 DEF NoRequest
  <1>5. BlocksInv'
    BY <1>1, <1>2, <1>4, BlocksSame
  <1>6. Infos' = Infos /\ ~ Fetching /\ ~ Fetching'
    BY <1>1 DEF Infos, Fetching
  <1> QED BY <1>3, <1>5, <1>6, UsedSame

\* the beginning of allocations of info tables, which makes their block
\* writable,
LEMMA StepBegin ==
  ASSUME StorageInv, BeginAllocInfoTable
  PROVE  StorageInv'
  <1>1. /\ request = NoRequest /\ want = "none" /\ level \in Nat
        /\ readOnly' = IF level = 0 THEN markBlockReadWrite(Head(Infos)) ELSE readOnly
        /\ level' = level + 1
        /\ UNCHANGED <<mapVars, chain, freeBlocks, used, want, oldHeap>>
    BY Parts DEF BeginAllocInfoTable, Idle, StorageType, Infos
  <1>2. /\ StorageType' /\ MapsInv' /\ BlocksInv'
        /\ Infos' = Infos /\ ~ Fetching /\ ~ Fetching'
        /\ \A b : Used(b)' = Used(b)
    BY <1>1, ListsStay
  <1>3. InfoInv /\ isPageAligned(Head(Infos))
    BY <1>1, Parts, ListsAre DEF InfoInv
  <1>4. InfoInv'
    <2>1. level' > 0 /\ want' # "info"
      BY <1>1
    <2>2. CASE level = 0
      <3>1. readOnly' = readOnly \ {Head(Infos)}
        BY <1>1, <1>3, <2>2 DEF markBlockReadWrite
      <3> QED BY <1>2, <1>3, <2>1, <3>1 DEF InfoInv
    <2>3. CASE level # 0
      BY <1>1, <1>2, <1>3, <2>1, <2>3 DEF InfoInv
    <2> QED BY <2>2, <2>3
  <1> QED BY <1>2, <1>4 DEF StorageInv

\* their end, which protects it,
LEMMA StepEnd ==
  ASSUME StorageInv, EndAllocInfoTable
  PROVE  StorageInv'
  <1>1. /\ request = NoRequest /\ want = "none" /\ level \in Nat /\ level > 0
        /\ readOnly' = IF level' = 0 THEN markBlockReadOnly(Head(Infos)) ELSE readOnly
        /\ level' = level - 1 /\ level' \in Nat
        /\ UNCHANGED <<mapVars, chain, freeBlocks, used, want, oldHeap>>
    BY Parts DEF EndAllocInfoTable, Idle, StorageType, Infos
  <1>2. /\ StorageType' /\ MapsInv' /\ BlocksInv'
        /\ Infos' = Infos /\ ~ Fetching /\ ~ Fetching'
        /\ \A b : Used(b)' = Used(b)
    BY <1>1, ListsStay
  <1>3. InfoInv /\ isPageAligned(Head(Infos)) /\ want' # "info"
    BY <1>1, Parts, ListsAre DEF InfoInv
  <1>4. Head(Infos) \in Range(Infos)
    BY Current, ListsAre DEF Infos
  <1>5. InfoInv'
    <2>1. CASE level' = 0
      <3>1. readOnly' = readOnly \cup {Head(Infos)}
        BY <1>1, <1>3, <2>1 DEF markBlockReadOnly
      <3>2. \A b \in Range(Infos) : Used(b) > 0 => isPageAligned(b) /\ b \in readOnly'
        BY <1>3, <3>1 DEF InfoInv
      <3> QED BY <1>2, <1>3, <1>4, <2>1, <3>1, <3>2 DEF InfoInv
    <2>2. CASE level' # 0
      BY <1>1, <1>2, <1>3, <2>2 DEF InfoInv
    <2> QED BY <2>1, <2>2
  <1> QED BY <1>2, <1>5 DEF StorageInv

\* an allocation of an info table,
LEMMA StepAllocInfo ==
  ASSUME StorageInv, AllocInfoTable
  PROVE  StorageInv'
  <1>1. /\ request = NoRequest /\ level > 0 /\ want \in {"none", "info"}
        /\ want = "info" => isPageAligned(Head(Infos))
        /\ Put("info") /\ want' = "none"
        /\ UNCHANGED <<mapped, regions, large, request, chain, freeBlocks, oldHeap>>
        /\ UNCHANGED <<readOnly, level>>
    BY DEF AllocInfoTable, mapVars, Infos
  <1>2. "info" \in Kinds \ {"closures"} /\ "info" # "none"
    BY ListsAre
  <1>3. /\ StorageType' /\ MapsInv' /\ BlocksInv'
        /\ \A b : b # Head(Infos) => Used(b)' = Used(b)
    BY <1>1, <1>2, PutStep DEF Infos
  <1>4. InfoInv /\ isPageAligned(Head(Infos))
    BY <1>1, Parts DEF InfoInv
  <1>5. ~ Fetching /\ ~ Fetching' /\ Infos' = Infos /\ want' # "info"
    BY <1>1, <1>2 DEF Fetching, Infos
  <1>6. InfoInv'
    <2>1. \A b \in Range(Infos) : Used(b)' > 0 =>
            /\ isPageAligned(b)
            /\ b \in readOnly \/ b = Head(Infos)
      BY <1>3, <1>4 DEF InfoInv
    <2> QED BY <1>1, <1>4, <1>5, <2>1 DEF InfoInv
  <1> QED BY <1>3, <1>6 DEF StorageInv

\* and a full block of info tables, which is protected and left.
LEMMA StepInfoFull ==
  ASSUME StorageInv, AllocInfoTableFull
  PROVE  StorageInv'
  <1>1. /\ request = NoRequest /\ oldHeap = << >> /\ level > 0
        /\ want = "info" \/ want = "none"
        /\ readOnly' = markBlockReadOnly(Head(Infos))
        /\ GrabFreeBlock("info", chain) /\ want' = "info"
        /\ UNCHANGED <<hint, mapped, large, used, oldHeap, level, stopped>>
    BY DEF AllocInfoTableFull, Infos
  <1>2. "info" \in Kinds \ {"closures"} /\ "info" # "none"
    BY ListsAre
  <1>3. /\ StorageType' /\ MapsInv' /\ BlocksInv'
        /\ \/ request' = request /\ \E b : Grabbed("info", chain, b)
           \/ chain' = chain /\ NewRegionFor("info")
    BY <1>1, <1>2, GrabHere
  <1>4. InfoInv /\ chain \in [Kinds -> Seq(Block)] /\ ~ Fetching
    BY <1>1, Parts DEF Fetching
  <1>5. Head(Infos) \in Range(Infos)
    BY <1>2, Current DEF Infos
  <1>6. /\ readOnly \subseteq readOnly' /\ readOnly' \subseteq Range(Infos)
        /\ \A b \in readOnly' : isPageAligned(b)
        /\ \A b \in Range(Infos) : Used(b) > 0 => isPageAligned(b) /\ b \in readOnly'
    <2>1. CASE isPageAligned(Head(Infos))
      <3>1. readOnly' = readOnly \cup {Head(Infos)}
        BY <1>1, <2>1 DEF markBlockReadOnly
      <3> QED BY <1>4, <1>5, <2>1, <3>1 DEF InfoInv
    <2>2. CASE ~ isPageAligned(Head(Infos))
      <3>1. readOnly' = readOnly
        BY <1>1, <2>2 DEF markBlockReadOnly
      <3> QED BY <1>4, <2>2, <3>1 DEF InfoInv
    <2> QED BY <2>1, <2>2
  <1>7. CASE chain' = chain /\ NewRegionFor("info")
    <2>1. request'.for = "info" /\ request' # NoRequest
      BY <1>2, <1>7, Requested
    <2>2. Infos' = Infos /\ Fetching'
      BY <1>1, <1>7, <2>1 DEF Infos, Fetching
    <2>3. InfoInv'
      BY <1>1, <1>6, <2>1, <2>2, UsedSame DEF InfoInv
    <2> QED BY <1>3, <2>3 DEF StorageInv
  <1>8. ASSUME NEW b, Grabbed("info", chain, b), request' = request
        PROVE  StorageInv'
    <2>1. /\ b \in Block /\ Used(b) = 0 /\ b \notin Range(Infos)
          /\ chain' = [chain EXCEPT !["info"] = <<b>> \o @]
      BY <1>8 DEF Grabbed, Infos
    <2>2. Infos' = <<b>> \o Infos
      BY <1>2, <1>4, <2>1 DEF Infos
    <2>3. Infos \in Seq(Block)
      BY <1>2, <1>4 DEF Infos
    <2>4. Head(Infos') = b /\ Range(Infos') = Range(Infos) \cup {b}
      BY <2>1, <2>2, <2>3, InFront, RangeInFront
    <2>5. ~ Fetching'
      BY <1>1, <1>8 DEF Fetching
    <2>6. \A c \in Range(Infos') : Used(c)' > 0 => isPageAligned(c) /\ c \in readOnly'
      <3> SUFFICES ASSUME NEW c \in Range(Infos'), Used(c)' > 0
                   PROVE  isPageAligned(c) /\ c \in readOnly'
        OBVIOUS
      <3>1. Used(c) > 0
        BY <1>1, UsedSame
      <3>2. c \in Range(Infos)
        BY <2>1, <2>4, <3>1
      <3> QED BY <1>6, <3>1, <3>2
    <2>7. readOnly' \subseteq Range(Infos') /\ Head(Infos') \notin readOnly'
      BY <1>6, <2>1, <2>4
    <2>8. InfoInv'
      BY <1>1, <1>6, <2>5, <2>6, <2>7 DEF InfoInv
    <2> QED BY <1>3, <2>8 DEF StorageInv
  <1> QED BY <1>3, <1>7, <1>8

-----------------------------------------------------------------------------
(***************************************************************************)
(* The initial state, and the theorems.                                    *)
(***************************************************************************)

\* The invariant holds at the start.
LEMMA InitHolds ==
  ASSUME StorageInit
  PROVE  StorageInv
  <1> DEFINE Place(k) == CHOOSE i \in DOMAIN KindOrder : KindOrder[i] = k
  <1>1. \A k \in Kinds : Place(k) \in DOMAIN KindOrder /\ KindOrder[Place(k)] = k
    BY DEF Kinds, Range
  <1>2. KindOrder \in Seq(STRING) /\ KindOrder[1] # "info" /\ RegionUnits \in Nat \ {0}
    BY StorageAssumption
  <1>3. PICK n \in Nat : n = Len(KindOrder) /\ DOMAIN KindOrder = 1..n
    BY <1>2
  <1>4. chain = [k \in Kinds |-> << <<1, Place(k) - 1>> >>]
    BY DEF StorageInit
  <1> HIDE DEF Place
  <1>5. PICK place : \A k \in Kinds : place[k] = Place(k)
    <2>1. \A k \in Kinds : [m \in Kinds |-> Place(m)][k] = Place(k)
      OBVIOUS
    <2> QED BY <2>1
  <1>6. \A k \in Kinds : place[k] \in 1..n /\ KindOrder[place[k]] = k
    BY <1>1, <1>3, <1>5
  <1>7. ASSUME NEW k \in Kinds
        PROVE  \E b \in Block : /\ b = <<1, place[k] - 1>> /\ b[1] = 1 /\ b[2] = place[k] - 1
                                /\ chain[k] = <<b>>
    <2>1. place[k] - 1 \in Nat
      BY <1>6
    <2> QED BY <1>4, <1>5, <2>1 DEF Block
  <1>8. regions = << [base |-> RegionUnits, nextFree |-> n] >>
    BY <1>3 DEF StorageInit
  <1>9. PICK r \in Region : r = [base |-> RegionUnits, nextFree |-> n]
    BY <1>2 DEF Region
  <1>10. /\ regions \in Seq(Region) /\ Len(regions) = 1 /\ DOMAIN regions = {1} /\ regions[1] = r
         /\ r.base = RegionUnits /\ r.nextFree = n
    BY <1>8, <1>9
  <1>11. /\ mapped = RegionBytes(RegionUnits) /\ large = {} /\ request = NoRequest
         /\ freeBlocks = << >> /\ used = << >> /\ want = "none" /\ oldHeap = << >>
         /\ readOnly = {Head(Infos)} /\ level = 0
    BY DEF StorageInit, Infos
  <1>12. \A k \in Kinds :
           /\ chain[k] \in Seq(Block) /\ DOMAIN chain[k] = {1} /\ chain[k] # << >>
           /\ chain[k][1] = <<1, place[k] - 1>> /\ Head(chain[k]) = <<1, place[k] - 1>>
    <2> SUFFICES ASSUME NEW k \in Kinds
                 PROVE  /\ chain[k] \in Seq(Block) /\ DOMAIN chain[k] = {1} /\ chain[k] # << >>
                        /\ chain[k][1] = <<1, place[k] - 1>> /\ Head(chain[k]) = <<1, place[k] - 1>>
      OBVIOUS
    <2>1. PICK b \in Block : b = <<1, place[k] - 1>> /\ chain[k] = <<b>>
      BY <1>7
    <2> QED BY <2>1
  <1>13. StorageType
    <2>1. request \in [for : Kinds \cup {"large", "none"}, size : Nat, attempts : Nat]
      BY <1>11 DEF NoRequest
    <2>2. DOMAIN used = {}
      BY <1>11
    <2> QED BY <1>10, <1>11, <2>1, <2>2 DEF StorageType
  <1>14. MapsInv
    <2>1. Aligned(RegionUnits)
      BY <1>2 DEF Aligned
    <2> QED BY <1>10, <1>11, <2>1 DEF MapsInv, BaseOf
  <1>15. BlocksInv
    <2>1. chain \in [Kinds -> Seq(Block)]
      BY <1>4, <1>12
    <2>2. Blocks \in [Lists -> Seq(Block)]
      <3>1. freeBlocks \in Seq(Block) /\ oldHeap \in Seq(Block)
        BY <1>11
      <3> QED BY <2>1, <3>1, BlocksAre, ListsType
    <2>3. Blocks["free"] = << >> /\ Blocks["old"] = << >> /\ \A k \in Kinds : Blocks[k] = chain[k]
      BY <1>11, BlocksAt
    <2>4. \A l \in Lists : \A i \in DOMAIN Blocks[l] :
            l \in Kinds /\ i = 1 /\ Blocks[l][i] = <<1, place[l] - 1>>
      BY <1>12, <2>3, ListsAre
    <2>5. ASSUME NEW l \in Kinds, NEW m \in Kinds, <<1, place[l] - 1>> = <<1, place[m] - 1>>
          PROVE  l = m
      <3>1. place[l] - 1 = place[m] - 1
        BY <2>5
      <3>2. place[l] = place[m]
        BY <1>6, <3>1
      <3> QED BY <1>6, <3>2
    <2>6. \A l, m \in Lists : \A i \in DOMAIN Blocks[l], j \in DOMAIN Blocks[m] :
            Blocks[l][i] = Blocks[m][j] => l = m /\ i = j
      BY <2>4, <2>5
    <2>7. \A l \in Lists : \A i \in DOMAIN Blocks[l] : Exists(Blocks[l][i], regions)
      <3> SUFFICES ASSUME NEW l \in Kinds
                   PROVE  Exists(<<1, place[l] - 1>>, regions)
        BY <2>4
      <3>1. place[l] - 1 < n
        BY <1>6
      <3> QED BY <1>10, <3>1 DEF Exists
    <2>8. Placed(Blocks, regions)
      BY <2>2, <2>6, <2>7 DEF Placed
    <2>9. DOMAIN used = {}
      BY <1>11
    <2>10. \A b : Used(b) = 0
      BY <2>9 DEF Used
    <2>11. request.for # "info"
      BY <1>11 DEF NoRequest
    <2> QED BY <1>11, <1>12, <2>1, <2>8, <2>9, <2>10, <2>11 DEF BlocksInv
  <1>16. InfoInv
    <2>1. "info" \in Kinds
      BY ListsAre
    <2>2. Infos \in Seq(Block) /\ DOMAIN Infos = {1} /\ Infos[1] = Head(Infos)
      BY <1>12, <2>1 DEF Infos
    <2>3. isPageAligned(Head(Infos))
      <3>1. place["info"] # 1
        BY <1>2, <1>6, <2>1
      <3>2. place["info"] - 1 # 0
        BY <1>6, <2>1, <3>1
      <3>3. Head(Infos) = <<1, place["info"] - 1>>
        BY <1>12, <2>1 DEF Infos
      <3>4. Head(Infos)[2] = place["info"] - 1
        BY <3>3
      <3> QED BY <3>2, <3>4 DEF isPageAligned
    <2>4. Head(Infos) \in Range(Infos)
      BY <2>2 DEF Range
    <2>5. \A b : Used(b) = 0
      BY <1>11 DEF Used
    <2> QED BY <1>11, <2>3, <2>4, <2>5 DEF InfoInv, Fetching
  <1> QED BY <1>13, <1>14, <1>15, <1>16 DEF StorageInv

\* Every step keeps it.
LEMMA StepHolds ==
  ASSUME StorageInv, [StorageNext]_storageVars
  PROVE  StorageInv'
  <1>1. CASE MMap
    BY <1>1, StepMMap
  <1>2. CASE \E k \in Kinds : AllocInto(k)
    BY <1>2, StepAllocInto
  <1>3. CASE BumpAllocatorFull
    BY <1>3, StepFull
  <1>4. CASE EvacuateFull
    BY <1>4, StepEvacuate
  <1>5. CASE FreeOldHeap
    BY <1>5, StepFreeOld
  <1>6. CASE NewLargeRegion
    BY <1>6, StepNewLarge
  <1>7. CASE BeginAllocInfoTable
    BY <1>7, StepBegin
  <1>8. CASE EndAllocInfoTable
    BY <1>8, StepEnd
  <1>9. CASE AllocInfoTable
    BY <1>9, StepAllocInfo
  <1>10. CASE AllocInfoTableFull
    BY <1>10, StepInfoFull
  <1>11. CASE UNCHANGED storageVars
    <2>1. /\ StorageType /\ MapsInv /\ BlocksInv /\ InfoInv
          /\ UNCHANGED <<hint, mapped, regions, large, request, chain, freeBlocks, used>>
          /\ UNCHANGED <<want, oldHeap, readOnly, level>>
      BY <1>11, Parts DEF storageVars
    <2>2. Fetching' = Fetching
      BY <2>1 DEF Fetching
    <2>3. StorageType' /\ MapsInv'
      BY <2>1 DEF StorageType, MapsInv, BaseOf
    <2>4. BlocksInv'
      <3>1. request'.for = "info" => Fetching'
        BY <2>1, <2>2 DEF BlocksInv
      <3> QED BY <2>1, <3>1, BlocksSame
    <2>5. InfoInv'
      <3>1. Fetching' => request'.for = "info"
        BY <2>1, <2>2 DEF InfoInv
      <3> QED BY <2>1, <2>2, <3>1, InfoSame
    <2> QED BY <2>3, <2>4, <2>5 DEF StorageInv
  <1> QED BY <1>1, <1>2, <1>3, <1>4, <1>5, <1>6, <1>7, <1>8, <1>9, <1>10, <1>11 DEF StorageNext

\* The inductive invariant holds in every state, whatever addresses mmap
\* returns and in whatever order blocks are handed out and given back.
THEOREM StorageInvariance == StorageSpec => []StorageInv
  <1>1. StorageInit => StorageInv
    BY InitHolds
  <1>2. StorageInv /\ [StorageNext]_storageVars => StorageInv'
    BY StepHolds
  <1> QED BY <1>1, <1>2, PTL DEF StorageSpec

\* As many bases as regions.
LEMMA CountBases ==
  ASSUME regions \in Seq(Region),
         \A i, k \in DOMAIN regions : BaseOf(i) = BaseOf(k) => i = k
  PROVE  Len(regions) = Cardinality({regions[i].base : i \in DOMAIN regions})
  <1>1. PICK n \in Nat : n = Len(regions) /\ DOMAIN regions = 1..n
    OBVIOUS
  <1>2. PICK S : S = {regions[i].base : i \in DOMAIN regions}
    OBVIOUS
  <1>3. PICK f : f = [i \in 1..n |-> regions[i].base]
    OBVIOUS
  <1>4. f \in [1..n -> S] /\ \A i \in 1..n : f[i] = regions[i].base
    BY <1>1, <1>2, <1>3
  <1>5. \A i, k \in 1..n : f[i] = f[k] => i = k
    BY <1>1, <1>4 DEF BaseOf
  <1>6. \A x \in S : \E i \in 1..n : f[i] = x
    BY <1>1, <1>2, <1>4
  <1>7. f \in Bijection(1..n, S)
    BY <1>4, <1>5, <1>6 DEF Bijection, Injection, Surjection, IsInjective
  <1>8. ExistsBijection(1..n, S)
    BY <1>7 DEF ExistsBijection
  <1> QED BY <1>1, <1>2, <1>8, FS_CountingElements

\* newRegion: every region that the runtime keeps is mapped and aligned, and
\* no two share an address.
THEOREM RegionsAlwaysExact == StorageSpec => []RegionsExact
  <1>1. StorageInv => RegionsExact
    <2> SUFFICES ASSUME StorageInv
                 PROVE  RegionsExact
      OBVIOUS
    <2>1. StorageType /\ MapsInv
      BY Parts
    <2>2. \A a \in Bases : Aligned(a) /\ RegionBytes(a) \subseteq mapped
      BY <2>1 DEF MapsInv, Bases, BaseOf
    <2>3. Len(regions) = Cardinality({regions[i].base : i \in DOMAIN regions})
      BY <2>1, CountBases DEF StorageType, MapsInv
    <2>4. {regions[i].base : i \in DOMAIN regions} \cap large = {}
      BY <2>1 DEF MapsInv, BaseOf
    <2> QED BY <2>2, <2>3, <2>4 DEF RegionsExact
  <1> QED BY <1>1, StorageInvariance, PTL

\* The blocks of info tables are write protected between loads, the one
\* being filled is not while a handle is held, and no block is on two lists
\* or twice on one.
THEOREM InfoTablesAlwaysProtected == StorageSpec => []InfoTablesProtected
  <1>1. StorageInv => InfoTablesProtected
    <2> SUFFICES ASSUME StorageInv
                 PROVE  InfoTablesProtected
      OBVIOUS
    <2>1. StorageType /\ InfoInv /\ Placed(Blocks, regions)
      BY Parts
    <2>2. level = 0 => \A b \in Range(chain["info"]) : Used(b) > 0 => b \in readOnly
      BY <2>1 DEF InfoInv, Infos
    <2>3. level > 0 /\ want = "none" => Head(chain["info"]) \notin readOnly
      BY <2>1, ListsAre DEF InfoInv, Infos, Fetching
    <2>4. readOnly \subseteq Range(chain["info"])
      BY <2>1 DEF InfoInv, Infos
    <2>5. \A l, m \in Lists : \A i \in DOMAIN Blocks[l], j \in DOMAIN Blocks[m] :
            Blocks[l][i] = Blocks[m][j] => l = m /\ i = j
      BY <2>1 DEF Placed
    <2> QED BY <2>2, <2>3, <2>4, <2>5 DEF InfoTablesProtected
  <1> QED BY <1>1, StorageInvariance, PTL
=============================================================================
