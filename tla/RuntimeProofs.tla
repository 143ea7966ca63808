--------------------------- MODULE RuntimeProofs ---------------------------
(***************************************************************************)
(* Proofs about the list of large objects, for any number of objects of    *)
(* any sizes, about the readers of instructions, for every width of bytes  *)
(* and words and every number of alternatives, about the linking of        *)
(* modules, for every set of programs, and about the pointer maps of the   *)
(* closures of the virtual machine, for every width of chunks.             *)
(***************************************************************************)
EXTENDS LargeObjects, Instructions, Loader, MiscClosures, FiniteSetTheorems, SequenceTheorems,
        NaturalsInduction, WellFoundedInduction, TLAPS

-----------------------------------------------------------------------------
(***************************************************************************)
(* Facts about numbers and sequences.                                      *)
(***************************************************************************)

\* Induction over the naturals, for a set of them.
LEMMA SetInduction ==
  ASSUME NEW T \in SUBSET Nat, 0 \in T, \A n \in T : n + 1 \in T
  PROVE  T = Nat
<1>1. PICK R : R = {ss \in Nat \X Nat : ss[1] < ss[2]}
  OBVIOUS
<1>2. \A x, y \in Nat : <<x, y>> \in R <=> x < y
  BY <1>1
<1>3. IsWellFoundedOn(R, Nat)
  BY <1>1, NatLessThanWellFounded DEF OpToRel
<1>4. SUFFICES ASSUME Nat \ T # {} PROVE FALSE
  OBVIOUS
<1>5. PICK x \in Nat \ T : \A y \in Nat \ T : ~ (<<y, x>> \in R)
  BY <1>3, <1>4, WFMin
<1>6. CASE x = 0
  BY <1>6
<1>7. CASE x # 0
  <2>1. x - 1 \in Nat /\ x - 1 < x
    BY <1>7
  <2>2. x - 1 \in T
    BY <1>2, <1>5, <2>1
  <2> QED BY <2>2
<1> QED BY <1>6, <1>7

(***************************************************************************)
(* Large objects. The objects that were marked are linked through next_ in *)
(* the reverse of the order in which they were evacuated, and that order   *)
(* is what the invariant says there is.                                    *)
(***************************************************************************)

\* prev_ is never set to an object.
LargeType ==
  /\ addr \in Seq(Nat) /\ Len(addr) <= MaxObjects
  /\ next \in Seq(Nat) /\ Len(next) = Len(addr)
  /\ prev \in Seq({0}) /\ Len(prev) = Len(addr)
  /\ mark \in Seq(BOOLEAN) /\ Len(mark) = Len(addr)
  /\ largeObjects \in Nat /\ evacuatedLargeObjects \in Nat
  /\ start \in Seq(Nat) /\ free \in Seq(Nat) /\ Len(free) = Len(start)

\* The n objects that were evacuated, in this order.
Chained(n, pos) ==
  /\ pos \in [1..n -> Objects]
  /\ \A j, k \in 1..n : pos[j] = pos[k] => j = k
  /\ \A o \in Objects : mark[o] <=> \E k \in 1..n : pos[k] = o
  /\ evacuatedLargeObjects = IF n = 0 THEN 0 ELSE pos[n]
  /\ \A k \in 1..n : next[pos[k]] = IF k = 1 THEN 0 ELSE pos[k - 1]

LargeInv == LargeType /\ \E n \in Nat : \E pos : Chained(n, pos)

\* Sequences of any values, also of BOOLEANs.
LEMMA AppendAt ==
  ASSUME NEW S, NEW s \in Seq(S), NEW x \in S
  PROVE  /\ Append(s, x) \in Seq(S) /\ Len(Append(s, x)) = Len(s) + 1
         /\ \A i \in 1..Len(s) : Append(s, x)[i] = s[i]
         /\ Append(s, x)[Len(s) + 1] = x
OBVIOUS

\* The same for a sequence of which one element is replaced.
LEMMA ExceptAt ==
  ASSUME NEW S, NEW s \in Seq(S), NEW x \in S, NEW k \in 1..Len(s)
  PROVE  /\ [s EXCEPT ![k] = x] \in Seq(S) /\ Len([s EXCEPT ![k] = x]) = Len(s)
         /\ \A i \in 1..Len(s) : [s EXCEPT ![k] = x][i] = IF i = k THEN x ELSE s[i]
OBVIOUS

\* At the start there are no objects, and the list is empty.
LEMMA LargeInitial == LargeInit => LargeInv
<1> SUFFICES ASSUME LargeInit PROVE LargeInv
  OBVIOUS
<1>1. LargeType
  BY LargeObjectsAssumption DEF LargeInit, LargeType
<1>2. PICK pos : pos = [k \in 1..0 |-> 0]
  OBVIOUS
<1>3. Objects = {}
  BY DEF LargeInit, Objects
<1>4. Chained(0, pos)
  BY <1>2, <1>3 DEF LargeInit, Chained
<1> QED BY <1>1, <1>4 DEF LargeInv

\* A new object is not on the list.
LEMMA NewKeeps ==
  ASSUME LargeInv, Len(addr) < MaxObjects, NEW a \in Nat, NEW n, NewObject(a, n),
         start' \in Seq(Nat), free' \in Seq(Nat), Len(free') = Len(start')
  PROVE  LargeInv'
<1>1. LargeType
  BY DEF LargeInv
<1>2. PICK L \in Nat : Len(addr) = L
  BY <1>1 DEF LargeType
<1>3. LargeType' /\ Len(addr') = L + 1
  <2>1. addr' \in Seq(Nat) /\ Len(addr') = L + 1
    <3>1. addr \in Seq(Nat) /\ Len(addr) = L
      BY <1>1, <1>2 DEF LargeType
    <3> QED BY <3>1, AppendAt DEF NewObject
  <2>2. next' \in Seq(Nat) /\ Len(next') = L + 1
    <3>1. next \in Seq(Nat) /\ Len(next) = L /\ largeObjects \in Nat
      BY <1>1, <1>2 DEF LargeType
    <3> QED BY <3>1, AppendAt DEF NewObject
  <2>3. prev' \in Seq({0}) /\ Len(prev') = L + 1
    <3>1. prev \in Seq({0}) /\ Len(prev) = L /\ 0 \in {0}
      BY <1>1, <1>2 DEF LargeType
    <3> QED BY <3>1, AppendAt DEF NewObject
  <2>4. mark' \in Seq(BOOLEAN) /\ Len(mark') = L + 1
    <3>1. mark \in Seq(BOOLEAN) /\ Len(mark) = L /\ FALSE \in BOOLEAN
      BY <1>1, <1>2 DEF LargeType
    <3> QED BY <3>1, AppendAt DEF NewObject
  <2>5. L + 1 <= MaxObjects
    BY <1>2, LargeObjectsAssumption
  <2>6. evacuatedLargeObjects' \in Nat /\ largeObjects' \in Nat
    BY <1>1, <1>2 DEF LargeType, NewObject
  <2> QED BY <2>1, <2>2, <2>3, <2>4, <2>5, <2>6 DEF LargeType
<1>4. /\ Objects = 1..L /\ Objects' = 1..(L + 1)
      /\ \A o \in Objects : mark'[o] = mark[o] /\ next'[o] = next[o]
      /\ ~ mark'[L + 1]
      /\ evacuatedLargeObjects' = evacuatedLargeObjects
  <2>1. Objects = 1..L /\ Objects' = 1..(L + 1)
    BY <1>2, <1>3 DEF Objects
  <2>2. \A o \in 1..L : next'[o] = next[o]
    BY <1>1, <1>2 DEF LargeType, NewObject
  <2>3. \A o \in 1..L : mark'[o] = mark[o]
    <3>1. mark \in Seq(BOOLEAN) /\ Len(mark) = L
      BY <1>1, <1>2 DEF LargeType
    <3>2. \A o \in 1..Len(mark) : Append(mark, FALSE)[o] = mark[o]
      <4>1. PICK S, x : S = BOOLEAN /\ x = FALSE
        OBVIOUS
      <4>2. mark \in Seq(S) /\ x \in S
        BY <3>1, <4>1
      <4>3. \A o \in 1..Len(mark) : Append(mark, x)[o] = mark[o]
        BY <4>2, AppendAt
      <4> QED BY <4>1, <4>3
    <3>3. mark' = Append(mark, FALSE)
      BY DEF NewObject
    <3> QED BY <3>1, <3>2, <3>3
  <2>4. mark'[L + 1] = FALSE
    <3>1. PICK S, x : S = BOOLEAN /\ x = FALSE
      OBVIOUS
    <3>2. mark \in Seq(S) /\ x \in S
      BY <1>1, <3>1 DEF LargeType
    <3>3. Append(mark, x)[Len(mark) + 1] = x
      BY <3>2, AppendAt
    <3>4. mark' = Append(mark, x) /\ Len(mark) = L
      BY <1>1, <1>2, <3>1 DEF NewObject, LargeType
    <3>5. mark'[L + 1] = x
      BY <3>3, <3>4
    <3> QED BY <3>1, <3>5
  <2> QED BY <2>1, <2>2, <2>3, <2>4 DEF NewObject
<1>5a. PICK k \in Nat : \E pos : Chained(k, pos)
  BY DEF LargeInv
<1>5. PICK pos : Chained(k, pos)
  BY <1>5a
<1>6. \A o \in Objects' : o \in Objects \/ o = L + 1
  BY <1>4
<1>7. pos \in [1..k -> Objects'] /\ \A j \in 1..k : pos[j] \in Objects /\ pos[j] # L + 1
  BY <1>4, <1>5 DEF Chained
<1>8. \A o \in Objects' : mark'[o] <=> \E j \in 1..k : pos[j] = o
  <2>1. ASSUME NEW o \in Objects
        PROVE  mark'[o] <=> \E j \in 1..k : pos[j] = o
    <3>1. mark[o] <=> \E j \in 1..k : pos[j] = o
      BY <1>5 DEF Chained
    <3>2. mark'[o] = mark[o]
      BY <1>4
    <3> QED BY <3>1, <3>2
  <2>2. mark'[L + 1] <=> \E j \in 1..k : pos[j] = L + 1
    BY <1>4, <1>7
  <2> QED BY <1>6, <2>1, <2>2
<1>9. \A j \in 1..k : next'[pos[j]] = IF j = 1 THEN 0 ELSE pos[j - 1]
  <2>1. \A j \in 1..k : next[pos[j]] = IF j = 1 THEN 0 ELSE pos[j - 1]
    BY <1>5 DEF Chained
  <2>2. \A j \in 1..k : next'[pos[j]] = next[pos[j]]
    BY <1>4, <1>7
  <2> QED BY <2>1, <2>2
<1>10. Chained(k, pos)'
  BY <1>4, <1>5, <1>7, <1>8, <1>9 DEF Chained
<1> QED BY <1>3, <1>10 DEF LargeInv

\* An object that is evacuated comes first, and no other link changes.
LEMMA EvacuateKeeps ==
  ASSUME LargeInv, NEW o \in Objects, EvacuateLarge(o)
  PROVE  LargeInv'
<1>1. LargeType /\ addr' = addr
  BY DEF LargeInv, EvacuateLarge
<1>2. PICK L \in Nat : Len(addr) = L
  BY <1>1 DEF LargeType
<1>3. Objects = 1..L /\ Objects' = 1..L
  BY <1>1, <1>2 DEF Objects
<1>4. \A i \in Objects : prev[i] = 0 /\ next[i] \in Nat /\ mark[i] \in BOOLEAN
  BY <1>1, <1>2, <1>3 DEF LargeType
<1>5. ~ mark[o] /\ mark' = [mark EXCEPT ![o] = TRUE] /\ Evacuate(o)
  BY DEF EvacuateLarge, NotEvacuated
<1>6. next' = [i \in 1..L |-> IF i = o THEN evacuatedLargeObjects ELSE next[i]]
  <2>1. \A i \in 1..L : i # prev[o]
    BY <1>3, <1>4
  <2>2. next' = [i \in 1..L |-> CASE i = o -> evacuatedLargeObjects
                                  [] i = prev[o] -> next[o]
                                  [] OTHER -> next[i]]
    BY <1>3, <1>5 DEF Evacuate
  <2> QED BY <2>1, <2>2
<1>7. prev' = [i \in 1..L |-> 0]
  <2>1. prev' = [i \in 1..L |-> CASE i = o -> 0
                                  [] i = next[o] -> prev[o]
                                  [] OTHER -> prev[i]]
    BY <1>3, <1>5 DEF Evacuate
  <2> QED BY <1>3, <1>4, <2>1
<1>8. LargeType'
  <2>1. next' \in Seq(Nat) /\ Len(next') = L
    BY <1>1, <1>3, <1>4, <1>6 DEF LargeType
  <2>2. prev' \in Seq({0}) /\ Len(prev') = L
    BY <1>7
  <2>3. mark' \in Seq(BOOLEAN) /\ Len(mark') = L
    <3>1. mark \in Seq(BOOLEAN) /\ Len(mark) = L
      BY <1>1, <1>2 DEF LargeType
    <3>2. o \in 1..Len(mark) /\ TRUE \in BOOLEAN
      BY <1>3, <3>1
    <3>3. [mark EXCEPT ![o] = TRUE] \in Seq(BOOLEAN) /\ Len([mark EXCEPT ![o] = TRUE]) = Len(mark)
      BY <3>1, <3>2, ExceptAt
    <3> QED BY <1>5, <3>1, <3>3
  <2>4. evacuatedLargeObjects' \in Nat /\ largeObjects' \in Nat
    BY <1>3, <1>4, <1>5 DEF Evacuate
  <2>5. start' = start /\ free' = free
    BY DEF EvacuateLarge, regionVars
  <2> QED BY <1>1, <1>2, <2>1, <2>2, <2>3, <2>4, <2>5 DEF LargeType
<1>9a. PICK n \in Nat : \E pos : Chained(n, pos)
  BY DEF LargeInv
<1>9. PICK pos : Chained(n, pos)
  BY <1>9a
<1>10. PICK p : p = [k \in 1..(n + 1) |-> IF k = n + 1 THEN o ELSE pos[k]]
  OBVIOUS
<1>11. \A k \in 1..n : p[k] = pos[k] /\ pos[k] \in Objects /\ pos[k] # o
  BY <1>5, <1>9, <1>10 DEF Chained
<1>12. p[n + 1] = o
  BY <1>10
<1>13. \A k \in 1..(n + 1) : k = n + 1 \/ k \in 1..n
  OBVIOUS
<1>14. p \in [1..(n + 1) -> Objects']
  BY <1>3, <1>10, <1>11, <1>13
<1>15. \A j, k \in 1..(n + 1) : p[j] = p[k] => j = k
  <2>1. \A j, k \in 1..n : pos[j] = pos[k] => j = k
    BY <1>9 DEF Chained
  <2>2. ASSUME NEW j \in 1..(n + 1), NEW k \in 1..(n + 1), p[j] = p[k]
        PROVE  j = k
    <3>1. CASE j \in 1..n /\ k \in 1..n
      BY <1>11, <2>1, <2>2, <3>1
    <3>2. CASE j = n + 1 /\ k \in 1..n
      BY <1>11, <1>12, <2>2, <3>2
    <3>3. CASE j \in 1..n /\ k = n + 1
      BY <1>11, <1>12, <2>2, <3>3
    <3> QED BY <1>13, <3>1, <3>2, <3>3
  <2> QED BY <2>2
<1>16. \A i \in Objects' : mark'[i] <=> \E k \in 1..(n + 1) : p[k] = i
  <2>1. \A i \in Objects : mark'[i] <=> mark[i] \/ i = o
    BY <1>1, <1>2, <1>3, <1>5 DEF LargeType
  <2>2. \A i \in Objects : mark[i] <=> \E k \in 1..n : pos[k] = i
    BY <1>9 DEF Chained
  <2>3. \A i : (\E k \in 1..(n + 1) : p[k] = i) <=> i = o \/ \E k \in 1..n : pos[k] = i
    BY <1>11, <1>12, <1>13
  <2> QED BY <1>3, <2>1, <2>2, <2>3
<1>17. evacuatedLargeObjects' = p[n + 1]
  BY <1>5, <1>12 DEF Evacuate
<1>18. \A k \in 1..(n + 1) : next'[p[k]] = IF k = 1 THEN 0 ELSE p[k - 1]
  <2>1. ASSUME NEW k \in 1..n
        PROVE  next'[p[k]] = IF k = 1 THEN 0 ELSE p[k - 1]
    <3>1. next'[p[k]] = next[pos[k]]
      BY <1>3, <1>6, <1>11
    <3>2. next[pos[k]] = IF k = 1 THEN 0 ELSE pos[k - 1]
      BY <1>9 DEF Chained
    <3>3. k # 1 => p[k - 1] = pos[k - 1]
      BY <1>11
    <3> QED BY <3>1, <3>2, <3>3
  <2>2. next'[o] = IF n + 1 = 1 THEN 0 ELSE p[n]
    <3>1. next'[o] = evacuatedLargeObjects
      BY <1>3, <1>6
    <3>2. n # 0 => p[n] = pos[n]
      BY <1>11
    <3> QED BY <1>9, <3>1, <3>2 DEF Chained
  <2> QED BY <1>12, <1>13, <2>1, <2>2
<1>19. Chained(n + 1, p)'
  BY <1>14, <1>15, <1>16, <1>17, <1>18 DEF Chained
<1> QED BY <1>8, <1>19 DEF LargeInv

\* To follow next_ from the last object that was evacuated comes to them all,
\* the latest first, and then to the end.
LEMMA FollowExact ==
  ASSUME LargeInv, NEW n \in Nat, NEW pos, Chained(n, pos)
  PROVE  /\ n <= MaxObjects
         /\ Follow(evacuatedLargeObjects) = [i \in 0..MaxObjects |-> IF i < n THEN pos[n - i] ELSE 0]
<1>1. PICK N \in Nat : MaxObjects = N
  BY LargeObjectsAssumption
<1>2. n <= N
  <2>1. pos \in Injection(1..n, Objects)
    BY DEF Chained, Injection, IsInjective
  <2>2. Len(addr) \in Nat /\ Len(addr) <= N
    BY <1>1 DEF LargeInv, LargeType
  <2>3. IsFiniteSet(1..n) /\ Cardinality(1..n) = n
    BY FS_Interval
  <2>4. IsFiniteSet(Objects) /\ Cardinality(Objects) = Len(addr)
    <3>1. PICK L \in Nat : Len(addr) = L
      BY <2>2
    <3>2. IsFiniteSet(1..L) /\ Cardinality(1..L) = L
      BY FS_Interval
    <3> QED BY <3>1, <3>2 DEF Objects
  <2>5. Cardinality(1..n) <= Cardinality(Objects)
    BY <2>1, <2>4, FS_Injection
  <2> QED BY <2>2, <2>3, <2>4, <2>5
<1>3. PICK e : e = evacuatedLargeObjects
  OBVIOUS
<1>4. PICK w : w = [i \in 0..N |-> IF i < n THEN pos[n - i] ELSE 0]
  OBVIOUS
<1> DEFINE Walks(f) == f = [i \in 0..N |-> IF i = 0 THEN e
                              ELSE IF f[i - 1] = 0 THEN 0 ELSE next[f[i - 1]]]
<1>5. Follow(e) = CHOOSE f : Walks(f)
  BY <1>1 DEF Follow
<1>6. \A k \in 1..n : pos[k] \in Objects /\ pos[k] # 0
  BY DEF Chained, Objects
<1>7. Walks(w)
  <2>1. ASSUME NEW i \in 0..N
        PROVE  w[i] = IF i = 0 THEN e ELSE IF w[i - 1] = 0 THEN 0 ELSE next[w[i - 1]]
    <3>1. w[i] = IF i < n THEN pos[n - i] ELSE 0
      BY <1>4
    <3>2. CASE i = 0
      BY <1>3, <3>1, <3>2 DEF Chained
    <3>3. CASE i # 0
      <4>1. i - 1 \in 0..N /\ w[i - 1] = IF i - 1 < n THEN pos[n - (i - 1)] ELSE 0
        BY <1>4, <3>3
      <4>2. CASE i - 1 < n
        <5>1. n - (i - 1) \in 1..n /\ n - (i - 1) - 1 = n - i
          BY <3>3, <4>2
        <5>2. next[pos[n - (i - 1)]] = IF n - (i - 1) = 1 THEN 0 ELSE pos[n - i]
          BY <5>1 DEF Chained
        <5>3. w[i - 1] # 0
          BY <1>6, <4>1, <4>2, <5>1
        <5>4. (n - (i - 1) = 1) <=> ~ (i < n)
          BY <3>3, <4>2
        <5> QED BY <3>1, <3>3, <4>1, <4>2, <5>2, <5>3, <5>4
      <4>3. CASE ~ (i - 1 < n)
        <5>1. ~ (i < n)
          BY <4>3
        <5> QED BY <3>1, <3>3, <4>1, <4>3, <5>1
      <4> QED BY <4>2, <4>3
    <3> QED BY <3>2, <3>3
  <2>2. w = [i \in 0..N |-> w[i]]
    BY <1>4
  <2> QED BY <2>1, <2>2
<1>8. ASSUME NEW f, Walks(f)
      PROVE  f = w
  <2>1. ASSUME NEW g, Walks(g)
        PROVE  /\ g = [i \in 0..N |-> g[i]]
               /\ g[0] = e
               /\ \A i \in 0..N : i # 0 => g[i] = IF g[i - 1] = 0 THEN 0 ELSE next[g[i - 1]]
    <3>1. PICK h : h = [i \in 0..N |-> IF i = 0 THEN e
                                      ELSE IF g[i - 1] = 0 THEN 0 ELSE next[g[i - 1]]]
      OBVIOUS
    <3>2. g = h
      BY <2>1, <3>1
    <3>3. \A i \in 0..N : h[i] = IF i = 0 THEN e ELSE IF g[i - 1] = 0 THEN 0 ELSE next[g[i - 1]]
      BY <3>1
    <3>4. h = [i \in 0..N |-> h[i]]
      BY <3>1
    <3>5. g = [i \in 0..N |-> g[i]]
      BY <3>2, <3>4
    <3>6. 0 \in 0..N
      OBVIOUS
    <3>7. g[0] = e
      BY <3>2, <3>3, <3>6
    <3>8. ASSUME NEW i \in 0..N, i # 0
          PROVE  g[i] = IF g[i - 1] = 0 THEN 0 ELSE next[g[i - 1]]
      BY <3>2, <3>3, <3>8
    <3> HIDE DEF Walks
    <3> QED BY <3>5, <3>7, <3>8
  <2> DEFINE T == {i \in Nat : i <= N => f[i] = w[i]}
  <2> HIDE DEF Walks
  <2>2. 0 \in T
    BY <1>7, <1>8, <2>1
  <2>3. ASSUME NEW i \in T
        PROVE  i + 1 \in T
    <3>1. SUFFICES ASSUME i + 1 <= N PROVE f[i + 1] = w[i + 1]
      OBVIOUS
    <3>2. i + 1 \in 0..N /\ i + 1 # 0 /\ (i + 1) - 1 = i /\ f[i] = w[i]
      BY <3>1
    <3>3. f[i + 1] = IF f[i] = 0 THEN 0 ELSE next[f[i]]
      BY <1>8, <2>1, <3>2
    <3>4. w[i + 1] = IF w[i] = 0 THEN 0 ELSE next[w[i]]
      BY <1>7, <2>1, <3>2
    <3> QED BY <3>2, <3>3, <3>4
  <2>4. T = Nat
    <3> HIDE DEF T
    <3>1. T \in SUBSET Nat
      BY DEF T
    <3> QED BY <2>2, <2>3, <3>1, SetInduction
  <2>5. \A i \in 0..N : f[i] = w[i]
    <3>1. \A i \in 0..N : i \in T
      BY <2>4
    <3> QED BY <3>1
  <2>6. f = [i \in 0..N |-> f[i]] /\ w = [i \in 0..N |-> w[i]]
    BY <1>7, <1>8, <2>1
  <2> QED BY <2>5, <2>6
<1>9. Follow(e) = w
  <2> HIDE DEF Walks
  <2> QED BY <1>5, <1>7, <1>8
<1> QED BY <1>1, <1>2, <1>3, <1>4, <1>9

\* The list so described is that of the marked objects.
LEMMA LargeInvExact == LargeInv => EvacuatedExact
<1> SUFFICES ASSUME LargeInv PROVE EvacuatedExact
  OBVIOUS
<1>1a. PICK n \in Nat : \E pos : Chained(n, pos)
  BY DEF LargeInv
<1>1. PICK pos : Chained(n, pos)
  BY <1>1a
<1>2. PICK w : w = Follow(evacuatedLargeObjects)
  OBVIOUS
<1>3. PICK N \in Nat : MaxObjects = N
  BY LargeObjectsAssumption
<1>4. n <= N /\ w = [i \in 0..N |-> IF i < n THEN pos[n - i] ELSE 0]
  BY <1>1, <1>2, <1>3, FollowExact
<1>5. w[N] = 0
  BY <1>4
<1>6. {w[i] : i \in 0..N} \ {0} = {o \in Objects : mark[o]}
  <2>1. ASSUME NEW o \in Objects, mark[o]
        PROVE  o # 0 /\ \E i \in 0..N : w[i] = o
    <3>1. PICK k \in 1..n : pos[k] = o
      BY <1>1, <2>1 DEF Chained
    <3>2. n - k \in 0..N /\ n - k < n /\ n - (n - k) = k
      BY <1>4
    <3>3. w[n - k] = o
      BY <1>4, <3>1, <3>2
    <3>4. o # 0
      BY DEF Objects
    <3> QED BY <3>2, <3>3, <3>4
  <2>2. ASSUME NEW i \in 0..N, w[i] # 0
        PROVE  w[i] \in Objects /\ mark[w[i]]
    <3>1. i < n /\ w[i] = pos[n - i]
      BY <1>4, <2>2
    <3>2. n - i \in 1..n
      BY <3>1
    <3>3. w[i] \in Objects
      BY <1>1, <3>1, <3>2 DEF Chained
    <3> QED BY <1>1, <3>1, <3>2, <3>3 DEF Chained
  <2> QED BY <2>1, <2>2
<1> QED BY <1>2, <1>3, <1>5, <1>6 DEF EvacuatedExact, OnList

\* Every step of the allocator and of the collector keeps the invariant.
LEMMA LargeKept == LargeInv /\ [LargeNext]_largeVars => LargeInv'
<1> SUFFICES ASSUME LargeInv, [LargeNext]_largeVars PROVE LargeInv'
  OBVIOUS
<1>1. /\ start \in Seq(Nat) /\ free \in Seq(Nat) /\ Len(free) = Len(start)
      /\ RegionSize \in Nat /\ HeaderSize \in Nat /\ NumRegions \in Nat /\ Sizes \subseteq Nat
  BY LargeObjectsAssumption DEF LargeInv, LargeType
<1>2. ASSUME NEW n \in Sizes, AllocInRegion(n)
      PROVE  LargeInv'
  <2>1. PICK r \in Region : free' = Advanced(r, n) /\ NewObject(free[r], n)
    BY <1>2 DEF AllocInRegion
  <2>2. Len(addr) < MaxObjects /\ start' = start
    BY <1>2 DEF AllocInRegion
  <2>3. r \in 1..Len(free) /\ 1 \in 1..Len(free)
    BY <1>1 DEF Region
  <2>4. free[r] \in Nat /\ free[r] + n \in Nat
    BY <1>1, <2>3
  <2>5. free' \in Seq(Nat) /\ Len(free') = Len(free)
    BY <1>1, <2>1, <2>3, <2>4 DEF Advanced
  <2> QED BY <1>1, <2>1, <2>2, <2>4, <2>5, NewKeeps
<1>3. ASSUME NEW n \in Sizes, NEW s \in {i * RegionSize : i \in 1..NumRegions}, AllocNewRegion(n, s)
      PROVE  LargeInv'
  <2>1. PICK i \in Nat : s = i * RegionSize
    OBVIOUS
  <2>2. s \in Nat
    BY <1>1, <2>1
  <2>3. s + HeaderSize \in Nat /\ s + HeaderSize + n \in Nat
    BY <1>1, <2>2
  <2>4. /\ Len(addr) < MaxObjects /\ NewObject(s + HeaderSize, n)
        /\ start' = <<s>> \o start /\ free' = <<s + HeaderSize + n>> \o free
    BY <1>3 DEF AllocNewRegion
  <2>5. start' \in Seq(Nat) /\ Len(start') = Len(start) + 1
    BY <1>1, <2>2, <2>4
  <2>6. free' \in Seq(Nat) /\ Len(free') = Len(free) + 1
    <3>1. PICK x \in Nat : x = s + HeaderSize + n
      BY <2>3
    <3> QED BY <1>1, <2>4, <3>1
  <2> QED BY <1>1, <2>3, <2>4, <2>5, <2>6, NewKeeps
<1>4. ASSUME NEW o \in Objects, EvacuateLarge(o)
      PROVE  LargeInv'
  BY <1>4, EvacuateKeeps
<1>5. CASE UNCHANGED largeVars
  <2>1. LargeType'
    BY <1>5 DEF LargeInv, LargeType, largeVars, regionVars
  <2>2a. PICK n \in Nat : \E pos : Chained(n, pos)
    BY DEF LargeInv
  <2>2. PICK pos : Chained(n, pos)
    BY <2>2a
  <2>3. Chained(n, pos)'
    BY <1>5, <2>2 DEF Chained, Objects, largeVars
  <2> QED BY <2>1, <2>3 DEF LargeInv
<1> QED BY <1>2, <1>3, <1>4, <1>5 DEF LargeNext

\* The list of evacuated objects holds exactly the marked objects and ends
\* (evacuateLarge, allocLarge): the property EvacuatedExact.
THEOREM EvacuatedAlways == LargeSpec => []EvacuatedExact
<1>1. LargeSpec => []LargeInv
  BY LargeInitial, LargeKept, PTL DEF LargeSpec
<1> QED BY <1>1, LargeInvExact, PTL

-----------------------------------------------------------------------------
(***************************************************************************)
(* Instructions: their operands, the offsets of branches, and where they   *)
(* end.                                                                    *)
(***************************************************************************)

\* A quotient and remainder are those of the number they make up.
LEMMA ModUnique ==
  ASSUME NEW d \in Nat \ {0}, NEW q \in Nat, NEW r \in 0..(d - 1)
  PROVE  ((d * q) + r) % d = r /\ ((d * q) + r) \div d = q
OBVIOUS

\* A number of three digits, or more, and its digits.
LEMMA Digits ==
  ASSUME NEW d \in Nat \ {0}, NEW lo \in 0..(d - 1), NEW hi \in Nat, NEW x, x = (d * hi) + lo
  PROVE  x \in Nat /\ x % d = lo /\ x \div d = hi
<1>1. d * hi \in Nat
  OBVIOUS
<1> QED BY <1>1, ModUnique

\* A number of two digits is less than the product of their bases.
LEMMA Pair ==
  ASSUME NEW d \in Nat \ {0}, NEW e \in Nat \ {0}, NEW lo \in 0..(d - 1), NEW hi \in 0..(e - 1)
  PROVE  (d * hi) + lo \in 0..((d * e) - 1) /\ d * e \in Nat \ {0}
<1>1. d * hi <= d * (e - 1)
  OBVIOUS
<1>2. d * (e - 1) = (d * e) - d
  OBVIOUS
<1>3. d * hi \in Nat /\ d * e \in Nat
  OBVIOUS
<1> QED BY <1>1, <1>2, <1>3

\* The operands of an instruction.
LEMMA FieldsExact ==
  ASSUME NEW op \in 0..(ByteSize - 1), NEW a \in 0..(ByteSize - 1),
         NEW b \in 0..(ByteSize - 1), NEW c \in 0..(ByteSize - 1)
  PROVE  /\ DecodeBC(abc(op, a, b, c)) = [op |-> op, a |-> a, b |-> b, c |-> c]
         /\ InsABC(abc(op, a, b, c)) = [op |-> op, a |-> a, b |-> b, c |-> c]
<1>1. PICK B \in Nat \ {0} : ByteSize = B
  BY InstructionsAssumption
<1>2. PICK H \in Nat \ {0} : HalfSize = H /\ H = B * B
  BY <1>1 DEF HalfSize
<1>3. PICK d : d = (B * b) + c
  OBVIOUS
<1>4. PICK l : l = (B * a) + op
  OBVIOUS
<1>5. PICK x : x = abc(op, a, b, c)
  OBVIOUS
<1>6. l \in 0..(H - 1) /\ d \in 0..(H - 1)
  BY <1>1, <1>2, <1>3, <1>4, Pair
<1>7. l % B = op /\ l \div B = a /\ d % B = c /\ d \div B = b
  BY <1>1, <1>3, <1>4, Digits
<1>8. x = (H * d) + l
  <2>1. x = op + B * a + H * c + H * B * b
    BY <1>1, <1>2, <1>5 DEF abc
  <2>2. H * d = H * c + H * B * b
    <3>1. H * ((B * b) + c) = (H * B * b) + (H * c)
      BY <1>1, <1>2
    <3> QED BY <1>1, <1>2, <1>3, <3>1
  <2> QED BY <1>1, <1>2, <1>4, <2>1, <2>2
<1>9. x \in Nat /\ x % H = l /\ x \div H = d
  <2>1. H \in Nat \ {0} /\ l \in 0..(H - 1) /\ d \in Nat
    BY <1>2, <1>6
  <2> QED BY ONLY <2>1, <1>8, Digits
<1>10. x % B = op /\ (x \div B) % B = a
  <2>1. PICK k \in Nat : k = (B * d) + a
    BY <1>1, <1>6
  <2>2. x = (B * k) + op
    <3>1. B * ((B * d) + a) = (B * B * d) + (B * a)
      BY <1>1, <1>6
    <3> QED BY <1>1, <1>2, <1>4, <1>6, <1>8, <2>1, <3>1
  <2>3. x % B = op /\ x \div B = k
    BY <1>1, <2>1, <2>2, Digits
  <2>4. k % B = a
    BY <1>1, <1>6, <2>1, Digits
  <2> QED BY <2>3, <2>4
<1>11. x \div (H * B) = b
  <2>1. PICK m : m = (H * c) + l
    OBVIOUS
  <2>2. m \in 0..((H * B) - 1) /\ H * B \in Nat \ {0}
    BY <1>1, <1>2, <1>6, <2>1, Pair
  <2>3. x = ((H * B) * b) + m
    <3>1. H * ((B * b) + c) = ((H * B) * b) + (H * c)
      BY <1>1, <1>2
    <3> QED BY <1>1, <1>2, <1>3, <1>6, <1>8, <2>1, <2>2, <3>1
  <2>4. PICK D \in Nat \ {0} : D = H * B
    BY <2>2
  <2>5. D \in Nat \ {0} /\ b \in Nat /\ m \in 0..(D - 1) /\ x = (D * b) + m
    BY <1>1, <2>2, <2>3, <2>4
  <2>6. x \div D = b
    BY ONLY <2>5, Digits
  <2> QED BY <2>4, <2>6
<1>12. DecodeBC(x) = [op |-> op, a |-> a, b |-> b, c |-> c]
  BY <1>1, <1>2, <1>7, <1>9, <1>10 DEF DecodeBC, InsD
<1>13. InsABC(x) = [op |-> op, a |-> a, b |-> b, c |-> c]
  BY <1>1, <1>2, <1>7, <1>9, <1>10, <1>11 DEF InsABC
<1> QED BY <1>5, <1>12, <1>13

\* The offset of a branch or jump.
LEMMA OffsetDecoded ==
  ASSUME NEW a \in 0..(ByteSize - 1), NEW j \in (- kBranchBias)..(kBranchBias - 1)
  PROVE  /\ kBranchBias \in Nat /\ j \in Int /\ InsD(aj(0, a, j)) = kBranchBias + j
         /\ kBranchBias <= HalfSize /\ HalfSize \in Nat
<1>1. PICK B \in Nat \ {0} : ByteSize = B
  BY InstructionsAssumption
<1>2. PICK H \in Nat \ {0} : HalfSize = H /\ H = B * B
  BY <1>1 DEF HalfSize
<1>3. PICK h \in Nat : kBranchBias = h /\ H = 2 * h
  <2>1. PICK k \in Nat : B = 2 * k
    BY <1>1, InstructionsAssumption
  <2>2. B * B = 2 * (k * B)
    BY <1>1, <2>1
  <2>3. PICK m \in Nat : m = k * B
    BY <1>1
  <2>4. H \div 2 = m /\ H = 2 * m
    BY <1>2, <2>2, <2>3
  <2> QED BY <1>2, <2>4 DEF kBranchBias
<1>4. PICK k \in 0..(H - 1) : k = h + j /\ (h + j) % H = k
  BY <1>2, <1>3
<1>5. (B * a) + 0 \in 0..(H - 1)
  BY <1>1, <1>2, Pair
<1>6. aj(0, a, j) = (H * k) + ((B * a) + 0)
  BY <1>1, <1>2, <1>3, <1>4 DEF aj, ad
<1>7. aj(0, a, j) \div H = k
  <2>1. PICK l, x : l = (B * a) + 0 /\ x = aj(0, a, j)
    OBVIOUS
  <2>2. H \in Nat \ {0} /\ l \in 0..(H - 1) /\ k \in Nat /\ x = (H * k) + l
    BY <1>2, <1>4, <1>5, <1>6, <2>1
  <2>3. x \div H = k
    BY ONLY <2>2, Digits
  <2> QED BY <2>1, <2>3
<1> QED BY <1>2, <1>3, <1>4, <1>7 DEF InsD

\* A conditional branch goes where it was told.
LEMMA OffsetExact ==
  ASSUME NEW a \in 0..(ByteSize - 1), NEW j \in (- kBranchBias)..(kBranchBias - 1)
  PROVE  BranchTarget(aj(0, a, j)) = 2 + j
<1>1. PICK h \in Nat : kBranchBias = h
  BY OffsetDecoded
<1>2. j \in Int /\ InsD(aj(0, a, j)) = h + j
  BY <1>1, OffsetDecoded
<1> QED BY <1>1, <1>2 DEF BranchTarget, InsJ

\* So does JMP, whose operand is unsigned, if it goes ahead; one that goes
\* back goes AddressSize further.
LEMMA JumpExact ==
  ASSUME NEW j \in (- kBranchBias)..(kBranchBias - 1)
  PROVE  JumpTarget(aj(0, 0, j)) = 1 + j + (IF j < 0 THEN AddressSize ELSE 0)
<1>0. 0 \in 0..(ByteSize - 1)
  BY InstructionsAssumption
<1>1. PICK h \in Nat, H \in Nat : kBranchBias = h /\ HalfSize = H /\ h <= H
  BY <1>0, OffsetDecoded
<1>2. j \in Int /\ - h <= j /\ j < h /\ InsD(aj(0, 0, j)) - h = j
  BY <1>0, <1>1, OffsetDecoded
<1>3. PICK S \in Nat : S = H * H /\ H <= S /\ S > 0
  <2>1. H > 0
    BY <1>1, <1>2
  <2>2. H <= H * H /\ H * H \in Nat
    BY <1>1, <2>1
  <2> QED BY <1>1, <2>1, <2>2
<1>4. j % S = IF j < 0 THEN j + S ELSE j
  <2>1. CASE j < 0
    <3>1. j + S \in 0..(S - 1)
      BY <1>1, <1>2, <1>3, <2>1
    <3>2. j = (S * (- 1)) + (j + S)
      BY <1>2, <1>3
    <3>3. j % S = j + S
      BY <1>2, <1>3, <3>1, <3>2, SMTT(30)
    <3> QED BY <2>1, <3>3
  <2>2. CASE ~ j < 0
    <3>1. j \in 0..(S - 1)
      BY <1>1, <1>2, <1>3, <2>2
    <3> QED BY <1>3, <2>2, <3>1
  <2> QED BY <2>1, <2>2
<1>5. JumpTarget(aj(0, 0, j)) = 1 + (j % S)
  BY <1>1, <1>2, <1>3 DEF JumpTarget, AddressSize
<1>6. AddressSize = S
  BY <1>1, <1>3 DEF AddressSize
<1> QED BY <1>2, <1>3, <1>4, <1>5, <1>6

\* Where an instruction ends.
LEMMA LengthExact ==
  ASSUME NEW op \in {"CALL", "ALLOC", "ALLOCAP", "ALLOC1", "EVAL"}, NEW n \in Nat \ {0}
  PROVE  /\ MapWord(op, n) = NextPc(op, n) - 1
         /\ 4 * ArgsBegin(op) + ArgBytes(op, n) <= 4 * MapWord(op, n)
         /\ debugPrint(op, n) = NextPc(op, n)
         /\ (IF op = "CALL" THEN RecordedReturnPc(n) ELSE NextPc(op, n)) = NextPc(op, n)
<1>1. PICK p \in Nat : BcRound(n) = p /\ n <= 4 * p
  BY DEF BcRound
<1>2. PICK q \in Nat : BcRound(n + 1) = q /\ n + 1 <= 4 * q
  BY DEF BcRound
<1>3. CASE op = "CALL"
  BY <1>1, <1>3 DEF MapWord, NextPc, ReturnPcCall, ArgsBegin, ArgBytes, debugPrint, RecordedReturnPc
<1>4. CASE op = "ALLOC"
  BY <1>1, <1>4 DEF MapWord, NextPc, NextPcAlloc, ArgsBegin, ArgBytes, debugPrint, topFrameBitmask
<1>5. CASE op = "ALLOCAP"
  BY <1>2, <1>5 DEF MapWord, NextPc, NextPcAllocAp, ArgsBegin, ArgBytes, debugPrint, topFrameBitmask
<1>6. CASE op = "ALLOC1" \/ op = "EVAL"
  BY <1>6 DEF MapWord, NextPc, ReturnPcEval, ArgsBegin, ArgBytes, debugPrint, topFrameBitmask
<1> QED BY <1>3, <1>4, <1>5, <1>6

\* Tags and targets fit into half a word.
LEMMA Halves ==
  /\ HalfSize \in Nat \ {0}
  /\ MaxCases \in Nat /\ MaxTag \in Nat
  /\ 2 * MaxCases < HalfSize /\ 2 * MaxTag < HalfSize
<1>1. PICK B \in Nat \ {0} : ByteSize = B
  BY InstructionsAssumption
<1>2. PICK H \in Nat \ {0} : HalfSize = H
  BY <1>1 DEF HalfSize
<1>3. {2 * MaxTag, 2 * MaxCases} \subseteq 1..(H - 1)
  BY <1>1, <1>2, InstructionsAssumption DEF HalfSize
<1>4. MaxCases \in Nat /\ MaxTag \in Nat
  BY InstructionsAssumption
<1> QED BY <1>2, <1>3, <1>4

\* CASE: the halves of the words of the table.
LEMMA CaseExact ==
  ASSUME NEW n \in 1..MaxCases, NEW tag \in 1..n,
         NEW alts, alts = Alts([i \in 1..n |-> i])
  PROVE  /\ Len(alts) = n /\ alts[tag][2] = 2 * tag - 1
         /\ CaseTarget(n, CaseTable(alts), tag) = 1 + BcRound(2 * n) + 2 * tag - 1
<1>1. PICK H \in Nat \ {0} : HalfSize = H
  BY Halves
<1>2. n \in Nat /\ tag \in Nat /\ 2 * n < H /\ 1 <= tag /\ tag <= n
  BY <1>1, Halves
<1>3. alts = [i \in 1..n |-> <<i, 2 * i - 1>>]
  BY DEF Alts
<1>4. Len(alts) = n /\ \A i \in 1..n : alts[i][2] = 2 * i - 1
  <2>1. n \in Nat /\ DOMAIN alts = 1..n
    BY <1>2, <1>3
  <2>2. \A i \in 1..n : alts[i] = <<i, 2 * i - 1>>
    BY <1>3
  <2>3. Len(alts) = n
    BY ONLY <2>1, <1>3
  <2>4. \A i \in 1..n : alts[i][2] = 2 * i - 1
    BY ONLY <2>2
  <2> QED BY <2>3, <2>4
<1>5. BcRound(2 * n) = (n + 1) \div 2
  BY <1>2 DEF BcRound
<1>6. PICK table : table = CaseTable(alts)
  OBVIOUS
<1>7. \A w \in 1..((n + 1) \div 2) :
        table[w] = alts[2 * w - 1][2] + H * (IF 2 * w <= n THEN alts[2 * w][2] ELSE 0)
  BY <1>1, <1>4, <1>5, <1>6 DEF CaseTable
<1>8. PICK m \in Nat : (tag - 1) \div 2 = m /\ m + 1 \in 1..((n + 1) \div 2)
      /\ ((tag - 1) % 2 = 0 => 2 * (m + 1) - 1 = tag)
      /\ ((tag - 1) % 2 # 0 => 2 * (m + 1) = tag)
      /\ 2 * (m + 1) - 1 \in 1..n
  BY <1>2
<1>9. PICK k \in 1..n, g \in Nat : k = 2 * (m + 1) - 1 /\ g = 2 * (m + 1)
  BY <1>8
<1>10. PICK lo, hi : lo = 2 * k - 1 /\ hi = IF g <= n THEN 2 * g - 1 ELSE 0
  OBVIOUS
<1>11. table[m + 1] = (H * hi) + lo
  <2>1. table[m + 1] = alts[k][2] + H * (IF g <= n THEN alts[g][2] ELSE 0)
    BY <1>7, <1>8, <1>9
  <2>2. alts[k][2] = lo
    BY <1>4, <1>9, <1>10
  <2>3. (IF g <= n THEN alts[g][2] ELSE 0) = hi
    <3>1. g <= n => g \in 1..n
      BY <1>2, <1>9
    <3> QED BY <1>4, <1>10, <3>1
  <2>4. lo \in Int /\ hi \in Int
    BY <1>2, <1>9, <1>10
  <2>5. table[m + 1] = lo + H * hi
    BY ONLY <2>1, <2>2, <2>3
  <2>6. lo + H * hi = (H * hi) + lo
    BY <1>1, <2>4
  <2> QED BY ONLY <2>5, <2>6
<1>12. table[m + 1] % H = lo /\ table[m + 1] \div H = hi
  <2>1. H \in Nat \ {0} /\ lo \in 0..(H - 1) /\ hi \in Nat
    BY <1>1, <1>2, <1>9, <1>10
  <2>2. PICK word : word = table[m + 1]
    OBVIOUS
  <2>3. word = (H * hi) + lo
    BY <1>11, <2>2
  <2>4. word % H = lo /\ word \div H = hi
    BY ONLY <2>1, <2>3, Digits
  <2> QED BY <2>2, <2>4
<1>13. (IF (tag - 1) % 2 = 0 THEN table[m + 1] % H ELSE table[m + 1] \div H) = 2 * tag - 1
  <2>1. CASE (tag - 1) % 2 = 0
    <3>1. k = tag
      BY <1>8, <1>9, <2>1
    <3> QED BY <1>10, <1>12, <2>1, <3>1
  <2>2. CASE (tag - 1) % 2 # 0
    <3>1. g = tag
      BY <1>8, <1>9, <2>2
    <3>2. hi = 2 * tag - 1
      BY <1>2, <1>10, <3>1
    <3> QED BY <1>12, <2>2, <3>2
  <2> QED BY <2>1, <2>2
<1>14. CaseTarget(n, table, tag) =
         1 + ((n + 1) \div 2) + IF (tag - 1) % 2 = 0 THEN table[m + 1] % H ELSE table[m + 1] \div H
  <2>1. tag - 1 < n
    BY <1>2
  <2> QED BY <1>1, <1>8, <2>1 DEF CaseTarget
<1>15. CaseTarget(n, table, tag) = 1 + ((n + 1) \div 2) + 2 * tag - 1
  BY <1>2, <1>13, <1>14
<1> QED BY <1>2, <1>4, <1>5, <1>6, <1>15

-----------------------------------------------------------------------------
(***************************************************************************)
(* Instructions: the tables of CASE and CASE_S. The binary search is a     *)
(* recursive function; that what it finds is the place of the tag is       *)
(* proved by induction on how many alternatives are left.                  *)
(***************************************************************************)

\* The parts of the table the binary search comes to, what it does with one of
\* them, and what it finds there if the tag is at place p, or nowhere (p = 0).
Ranges(N, w) == {s \in (0..N) \X (-1..(N - 1)) : s[2] - s[1] + 1 <= w}
Finds(f, w, r, targets, tag) ==
  IF r[2] - r[1] < 0 THEN 0
  ELSE LET mid == r[1] + ((r[2] - r[1]) \div 2)
           alt == targets[mid + 1]
           alttag == alt \div HalfSize
       IN IF tag = alttag THEN (alt % HalfSize) + 1
          ELSE IF tag < alttag THEN f[w - 1][<<r[1], mid - 1>>]
          ELSE f[w - 1][<<mid + 1, r[2]>>]
Hit(p, r) == IF r[1] < p /\ p <= r[2] + 1 THEN 2 * p ELSE 0
Searches(f, N, targets, tag) ==
  f = [w \in 0..N |-> [r \in Ranges(N, w) |-> Finds(f, w, r, targets, tag)]]
Placed(N, targets, tag, p) ==
  \A i \in 1..N :
    /\ targets[i] % HalfSize = 2 * i - 1
    /\ targets[i] \div HalfSize \in Int
    /\ (tag = targets[i] \div HalfSize) <=> (i = p)
    /\ p # 0 => ((tag < targets[i] \div HalfSize) <=> (p < i))

\* One step of the search is right if those it goes on with are.
LEMMA SearchStep ==
  ASSUME NEW N \in Nat, NEW targets, NEW tag \in Int, NEW p \in 0..N,
         Placed(N, targets, tag, p),
         NEW w \in 0..N, NEW r \in Ranges(N, w), NEW f,
         w # 0 => \A s \in Ranges(N, w - 1) : f[w - 1][s] = Hit(p, s)
  PROVE  Finds(f, w, r, targets, tag) = Hit(p, r)
<1>1. PICK lo \in 0..N, hi \in -1..(N - 1) : r = <<lo, hi>> /\ hi - lo + 1 <= w
  BY DEF Ranges
<1>2. CASE hi - lo < 0
  BY <1>1, <1>2 DEF Finds, Hit
<1>3. CASE ~ (hi - lo < 0)
  <2>1. PICK mid \in 0..(N - 1) : mid = lo + ((hi - lo) \div 2) /\ lo <= mid /\ mid <= hi
                                 /\ mid - lo <= w - 1 /\ hi - mid <= w - 1
    BY <1>1, <1>3
  <2>2. PICK alt : alt = targets[mid + 1]
    OBVIOUS
  <2>3. PICK alttag \in Int : alttag = alt \div HalfSize
    BY <2>1, <2>2 DEF Placed
  <2>4. /\ alt % HalfSize = 2 * (mid + 1) - 1
        /\ (tag = alttag) <=> (mid + 1 = p)
        /\ p # 0 => ((tag < alttag) <=> (p < mid + 1))
    BY <2>1, <2>2, <2>3 DEF Placed
  <2>5. Finds(f, w, r, targets, tag) =
          IF tag = alttag THEN (alt % HalfSize) + 1
          ELSE IF tag < alttag THEN f[w - 1][<<lo, mid - 1>>]
          ELSE f[w - 1][<<mid + 1, hi>>]
    <3>1. r[1] = lo /\ r[2] = hi
      BY <1>1
    <3>2. mid = r[1] + ((r[2] - r[1]) \div 2)
      BY <2>1, <3>1
    <3>3. ~ (r[2] - r[1] < 0)
      BY <1>3, <3>1
    <3> QED BY <2>2, <2>3, <3>1, <3>2, <3>3, Zenon DEF Finds
  <2>6. w # 0
    BY <1>1, <1>3
  <2>7. <<lo, mid - 1>> \in Ranges(N, w - 1) /\ <<mid + 1, hi>> \in Ranges(N, w - 1)
    BY <2>1, <2>6 DEF Ranges
  <2>8. f[w - 1][<<lo, mid - 1>>] = Hit(p, <<lo, mid - 1>>)
        /\ f[w - 1][<<mid + 1, hi>>] = Hit(p, <<mid + 1, hi>>)
    BY <2>6, <2>7
  <2>9. /\ Hit(p, <<lo, mid - 1>>) = IF lo < p /\ p <= mid THEN 2 * p ELSE 0
        /\ Hit(p, <<mid + 1, hi>>) = IF mid + 1 < p /\ p <= hi + 1 THEN 2 * p ELSE 0
        /\ Hit(p, r) = IF lo < p /\ p <= hi + 1 THEN 2 * p ELSE 0
    BY <1>1, <2>1 DEF Hit
  <2>10. CASE tag = alttag
    BY <2>1, <2>4, <2>5, <2>9, <2>10
  <2>11. CASE tag # alttag /\ tag < alttag
    <3>1. p = 0 \/ p <= mid
      BY <2>1, <2>4, <2>11
    <3>2. Finds(f, w, r, targets, tag) = Hit(p, <<lo, mid - 1>>)
      BY <2>5, <2>8, <2>11
    <3> QED BY <2>1, <2>9, <3>1, <3>2
  <2>12. CASE tag # alttag /\ ~ (tag < alttag)
    <3>1. p = 0 \/ mid + 1 < p
      BY <2>1, <2>4, <2>12
    <3>2. Finds(f, w, r, targets, tag) = Hit(p, <<mid + 1, hi>>)
      BY <2>5, <2>8, <2>12
    <3> QED BY <2>1, <2>9, <3>1, <3>2
  <2> QED BY <2>10, <2>11, <2>12
<1> QED BY <1>2, <1>3

\* What a search says of one of its values.
LEMMA SearchValue ==
  ASSUME NEW N \in Nat, NEW targets, NEW tag, NEW f, Searches(f, N, targets, tag),
         NEW w \in 0..N, NEW r \in Ranges(N, w)
  PROVE  f[w][r] = Finds(f, w, r, targets, tag)
<1>1. PICK g : g = [v \in 0..N |-> [s \in Ranges(N, v) |-> Finds(f, v, s, targets, tag)]]
  OBVIOUS
<1>2. f = g
  BY <1>1 DEF Searches
<1>3. g[w] = [s \in Ranges(N, w) |-> Finds(f, w, s, targets, tag)]
  BY <1>1
<1>4. g[w][r] = Finds(f, w, r, targets, tag)
  BY <1>3
<1> QED BY <1>2, <1>4

\* The binary search of CASE_S finds the alternative of the tag.
LEMMA SearchExact ==
  ASSUME NEW N \in Nat \ {0}, NEW targets, Len(targets) = N,
         NEW tag \in Int, NEW p \in 0..N, Placed(N, targets, tag, p)
  PROVE  SearchFrom(targets, tag) = 2 * p
<1> DEFINE S(f) == Searches(f, N, targets, tag)
<1>1. SearchFrom(targets, tag) = (CHOOSE f : S(f))[N][<<0, N - 1>>]
  BY DEF SearchFrom, Searches, Ranges, Finds
<1>2. PICK F : F = [w \in 0..N |-> [r \in Ranges(N, w) |-> Hit(p, r)]]
  OBVIOUS
<1>3. S(F)
  <2>1. ASSUME NEW w \in 0..N, NEW r \in Ranges(N, w)
        PROVE  Hit(p, r) = Finds(F, w, r, targets, tag)
    <3>1. w # 0 => w - 1 \in 0..N
      OBVIOUS
    <3>2. w # 0 => \A s \in Ranges(N, w - 1) : F[w - 1][s] = Hit(p, s)
      BY <1>2, <3>1
    <3> QED BY <3>2, SearchStep
  <2>2. [w \in 0..N |-> [r \in Ranges(N, w) |-> Hit(p, r)]]
        = [w \in 0..N |-> [r \in Ranges(N, w) |-> Finds(F, w, r, targets, tag)]]
    BY <2>1, Zenon
  <2> QED BY <1>2, <2>2 DEF Searches
<1>4. ASSUME NEW f, S(f)
      PROVE  f[N][<<0, N - 1>>] = 2 * p
  <2> DEFINE T == {w \in Nat : w <= N => \A r \in Ranges(N, w) : f[w][r] = Hit(p, r)}
  <2> HIDE DEF S
  <2>1. \A w \in 0..N : \A r \in Ranges(N, w) : f[w][r] = Finds(f, w, r, targets, tag)
    BY <1>4, SearchValue DEF S
  <2>2. 0 \in T
    <3>1. 0 \in 0..N
      OBVIOUS
    <3>2. ASSUME NEW r \in Ranges(N, 0)
          PROVE  f[0][r] = Hit(p, r)
      BY <2>1, <3>1, SearchStep
    <3> QED BY <3>2
  <2>3. ASSUME NEW w \in T
        PROVE  w + 1 \in T
    <3>1. w \in Nat /\ (w <= N => \A r \in Ranges(N, w) : f[w][r] = Hit(p, r))
      BY <2>3
    <3>2. ASSUME w + 1 <= N, NEW r \in Ranges(N, w + 1)
          PROVE  f[w + 1][r] = Hit(p, r)
      <4>1. PICK v \in 0..N : v = w + 1 /\ v - 1 = w /\ v # 0
        BY <3>1, <3>2
      <4>2. \A s \in Ranges(N, v - 1) : f[v - 1][s] = Hit(p, s)
        BY <3>1, <3>2, <4>1
      <4>3. r \in Ranges(N, v)
        BY <3>2, <4>1
      <4>4. Finds(f, v, r, targets, tag) = Hit(p, r)
        BY <4>2, <4>3, SearchStep
      <4>5. f[v][r] = Hit(p, r)
        BY <2>1, <4>3, <4>4
      <4> QED BY <4>1, <4>5
    <3> QED BY <3>1, <3>2
  <2>4. T = Nat
    <3> HIDE DEF T
    <3>1. T \in SUBSET Nat
      BY DEF T
    <3> QED BY <2>2, <2>3, <3>1, SetInduction
  <2>5. N \in T
    BY <2>4
  <2>6. <<0, N - 1>> \in Ranges(N, N)
    BY DEF Ranges
  <2>7. f[N][<<0, N - 1>>] = Hit(p, <<0, N - 1>>)
    BY <2>5, <2>6
  <2>8. Hit(p, <<0, N - 1>>) = 2 * p
    BY DEF Hit
  <2> QED BY <2>7, <2>8
<1> HIDE DEF S
<1>5. S(CHOOSE f : S(f))
  BY <1>3
<1> QED BY <1>1, <1>4, <1>5

\* CASE_S: the alternative of the tag, or the end of the instruction.
LEMMA CaseSExact ==
  ASSUME NEW n \in 1..MaxTag, NEW t \in Ascending(n), NEW tag \in 1..MaxTag,
         NEW alts, alts = Alts(t)
  PROVE  /\ Len(alts) = n /\ DOMAIN alts = 1..n
         /\ \A i \in 1..n : alts[i] = <<t[i], 2 * i - 1>>
         /\ \E p \in 0..n :
              /\ \A i \in 1..n : (t[i] = tag) <=> (i = p)
              /\ CaseSTarget(n, CaseSTable(alts), tag) = 2 + n + 2 * p
<1>1. PICK H \in Nat \ {0} : HalfSize = H /\ 2 * MaxTag < H /\ MaxTag \in Nat
  BY Halves
<1>2. n \in Nat \ {0} /\ tag \in Nat /\ 2 * n < H
  BY <1>1
<1>3. /\ DOMAIN t = 1..n
      /\ \A i \in 1..n : t[i] \in 1..MaxTag
      /\ \A i, k \in 1..n : i < k => t[i] < t[k]
  BY DEF Ascending
<1>4. alts = [i \in 1..n |-> <<t[i], 2 * i - 1>>]
  BY <1>3 DEF Alts
<1>5. Len(alts) = n /\ DOMAIN alts = 1..n /\ \A i \in 1..n : alts[i] = <<t[i], 2 * i - 1>>
  BY <1>2, <1>4
<1>6. PICK p \in 0..n : /\ \A i \in 1..n : (t[i] = tag) <=> (i = p)
                        /\ p # 0 => t[p] = tag
  <2>1. CASE \E i \in 1..n : t[i] = tag
    <3>1. PICK i \in 1..n : t[i] = tag
      BY <2>1
    <3>2. \A k \in 1..n : (t[k] = tag) <=> (k = i)
      BY <1>2, <1>3, <3>1
    <3>3. i \in 0..n
      BY <3>1
    <3> QED BY <3>1, <3>2, <3>3
  <2>2. CASE ~ \E i \in 1..n : t[i] = tag
    BY <1>2, <2>2
  <2> QED BY <2>1, <2>2
<1>7. PICK targets : targets = [i \in 1..n |-> (H * t[i]) + (2 * i - 1)]
  OBVIOUS
<1>8. Len(targets) = n /\ targets \in Seq(Int)
  <2>1. \A i \in 1..n : (H * t[i]) + (2 * i - 1) \in Int
    BY <1>1, <1>2, <1>3
  <2> QED BY <1>2, <1>7, <2>1
<1>9. \A i \in 1..n : targets[i] % H = 2 * i - 1 /\ targets[i] \div H = t[i]
  <2>1. TAKE i \in 1..n
  <2>1a. PICK lo \in 0..(H - 1), hi \in Nat : lo = 2 * i - 1 /\ hi = t[i]
    BY <1>1, <1>2, <1>3
  <2>2. PICK x : lo = 2 * i - 1 /\ hi = t[i] /\ x = targets[i]
    BY <2>1a
  <2>3. H \in Nat \ {0} /\ lo \in 0..(H - 1) /\ hi \in Nat /\ x = (H * hi) + lo
    BY <1>1, <1>7, <2>2
  <2>4. x % H = lo /\ x \div H = hi
    BY ONLY <2>3, Digits
  <2> QED BY <2>2, <2>4
<1>10. PICK first, last : first = t[1] /\ last = t[n]
  OBVIOUS
<1>11. first \in 1..MaxTag /\ last \in 1..MaxTag
  BY <1>2, <1>3, <1>10
<1>12. PICK bounds \in Int : bounds = (H * last) + first
  BY <1>1, <1>11
<1>13. bounds % H = first /\ bounds \div H = last
  <2>1. H \in Nat \ {0} /\ first \in 0..(H - 1) /\ last \in Nat
    BY <1>1, <1>11
  <2> QED BY ONLY <1>12, <2>1, Digits
<1>14. CaseSTable(alts) = <<bounds>> \o targets
  <2>1. alts[1][1] = first /\ alts[n][1] = last
    BY <1>2, <1>5, <1>10
  <2>2. [i \in 1..n |-> alts[i][2] + HalfSize * alts[i][1]] = targets
    <3>1. \A i \in 1..n : alts[i][2] + HalfSize * alts[i][1] = (H * t[i]) + (2 * i - 1)
      <4>1. TAKE i \in 1..n
      <4>2. alts[i][2] = 2 * i - 1 /\ alts[i][1] = t[i]
        BY <1>5
      <4>3. PICK y \in Int : y = H * t[i]
        BY <1>1, <1>3
      <4> QED BY <1>1, <1>2, <4>2, <4>3
    <3> QED BY <1>7, <3>1
  <2>3. first + HalfSize * last = bounds
    <3>1. PICK y \in Int : y = H * last
      BY <1>1, <1>11
    <3> QED BY <1>1, <1>11, <1>12, <3>1
  <2> QED BY <1>5, <2>1, <2>2, <2>3 DEF CaseSTable
<1>15. PICK table : table = CaseSTable(alts)
  OBVIOUS
<1>16. table[1] = bounds /\ Tail(table) = targets
  <2>1. (<<bounds>> \o targets)[1] = bounds
    BY <1>8
  <2>2. Tail(<<bounds>> \o targets) = targets
    BY <1>8
  <2> QED BY <1>14, <1>15, <2>1, <2>2
<1>17. CaseSTarget(n, table, tag) =
         1 + n + 1 + (IF first <= tag /\ tag <= last THEN SearchFrom(targets, tag) ELSE 0)
  BY <1>1, <1>13, <1>16 DEF CaseSTarget, InRange
<1>18. ASSUME first <= tag, tag <= last
       PROVE  CaseSTarget(n, table, tag) = 2 + n + 2 * p
  <2>1. Placed(n, targets, tag, p)
    <3> SUFFICES ASSUME NEW i \in 1..n
                 PROVE  /\ targets[i] % HalfSize = 2 * i - 1
                        /\ targets[i] \div HalfSize \in Int
                        /\ (tag = targets[i] \div HalfSize) <=> (i = p)
                        /\ p # 0 => ((tag < targets[i] \div HalfSize) <=> (p < i))
      BY DEF Placed
    <3>2. PICK v \in Nat : targets[i] \div H = v /\ t[i] = v
      BY <1>3, <1>9
    <3>3. (tag = v) <=> (i = p)
      BY <1>6, <3>2
    <3>4. ASSUME p # 0 PROVE (tag < v) <=> (p < i)
      <4>1. p \in 1..n /\ t[p] = tag
        BY <1>2, <1>6, <3>4
      <4>2. (p < i => tag < v) /\ (i < p => v < tag) /\ (i = p => v = tag)
        BY <1>3, <3>2, <4>1
      <4> QED BY <1>2, <3>2, <4>1, <4>2
    <3>5. targets[i] % HalfSize = 2 * i - 1
      BY <1>1, <1>9
    <3> QED BY <1>1, <3>2, <3>3, <3>4, <3>5
  <2>2. SearchFrom(targets, tag) = 2 * p
    <3>1. tag \in Int /\ n \in Nat \ {0}
      BY <1>2
    <3> QED BY <1>8, <2>1, <3>1, SearchExact
  <2> QED BY <1>2, <1>17, <1>18, <2>2
<1>19. ASSUME ~ (first <= tag /\ tag <= last)
       PROVE  CaseSTarget(n, table, tag) = 2 + n + 2 * p
  <2>1. p = 0
    <3>1. SUFFICES ASSUME p # 0 PROVE FALSE
      OBVIOUS
    <3>2. p \in 1..n /\ t[p] = tag /\ 1 \in 1..n /\ n \in 1..n
      BY <1>2, <1>6, <3>1
    <3>3. (1 < p => first < tag) /\ (p < n => tag < last)
      BY <1>3, <1>10, <3>2
    <3>4. (1 = p => first = tag) /\ (p = n => tag = last)
      BY <1>10, <3>2
    <3> QED BY <1>2, <1>11, <1>19, <3>2, <3>3, <3>4
  <2> QED BY <1>2, <1>17, <1>19, <2>1
<1>20. CaseSTarget(n, CaseSTable(alts), tag) = 2 + n + 2 * p
  BY <1>15, <1>18, <1>19
<1> QED BY <1>5, <1>6, <1>20

-----------------------------------------------------------------------------
(***************************************************************************)
(* Instructions: conditional branches and the guards made of them.         *)
(***************************************************************************)

\* The place of a condition, and of a condition code, in their orders.
LEMMA CondPlace ==
  ASSUME NEW i \in 1..10
  PROVE  Cond[i] \in {"LT", "GE", "LE", "GT", "EQ", "NE", "LTU", "GEU", "LEU", "GTU"} /\ CondIndex(Cond[i]) = i - 1
<1>1. DOMAIN Cond = 1..10
  BY DEF Cond
<1>2. \A k \in 1..10 : Cond[k] = Cond[i] => k = i
  BY DEF Cond
<1>3. (CHOOSE k \in DOMAIN Cond : Cond[k] = Cond[i]) = i
  BY <1>1, <1>2
<1>4. CondIndex(Cond[i]) = i - 1
  BY <1>3 DEF CondIndex
<1> QED BY <1>4 DEF Cond

Codes == {"B", "AE", "E", "NE", "BE", "A", "L", "GE", "LE", "G"}
CodePlace(cc) == (CHOOSE k \in DOMAIN CC : CC[k] = cc) - 1
\* The places of the condition codes the assembler uses.
LEMMA CodePlaces ==
  /\ CodePlace("B") = 2 /\ CodePlace("AE") = 3 /\ CodePlace("E") = 4 /\ CodePlace("NE") = 5
  /\ CodePlace("BE") = 6 /\ CodePlace("A") = 7 /\ CodePlace("L") = 12 /\ CodePlace("GE") = 13
  /\ CodePlace("LE") = 14 /\ CodePlace("G") = 15
<1>1. DOMAIN CC = 1..16
  BY DEF CC
<1>2. ASSUME NEW i \in 1..16
      PROVE  CodePlace(CC[i]) = i - 1
  <2>1. \A k \in 1..16 : CC[k] = CC[i] => k = i
    BY DEF CC
  <2>2. (CHOOSE k \in DOMAIN CC : CC[k] = CC[i]) = i
    BY <1>1, <2>1
  <2> QED BY <2>2 DEF CodePlace
<1>3. /\ CC[3] = "B" /\ CC[4] = "AE" /\ CC[5] = "E" /\ CC[6] = "NE" /\ CC[7] = "BE" /\ CC[8] = "A"
      /\ CC[13] = "L" /\ CC[14] = "GE" /\ CC[15] = "LE" /\ CC[16] = "G"
  BY DEF CC
<1>4. CodePlace(CC[3]) = 2 /\ CodePlace(CC[4]) = 3 /\ CodePlace(CC[5]) = 4 /\ CodePlace(CC[6]) = 5
      /\ CodePlace(CC[7]) = 6 /\ CodePlace(CC[8]) = 7 /\ CodePlace(CC[13]) = 12
      /\ CodePlace(CC[14]) = 13 /\ CodePlace(CC[15]) = 14 /\ CodePlace(CC[16]) = 15
  BY <1>2
<1> QED BY <1>3, <1>4

\* When the conditions hold of the flags.
LEMMA Satisfied ==
  ASSUME NEW f
  PROVE  /\ Satisfies(f, "B") <=> f.C
         /\ Satisfies(f, "AE") <=> ~ f.C
         /\ Satisfies(f, "E") <=> f.Z
         /\ Satisfies(f, "NE") <=> ~ f.Z
         /\ Satisfies(f, "BE") <=> f.C \/ f.Z
         /\ Satisfies(f, "A") <=> ~ (f.C \/ f.Z)
         /\ Satisfies(f, "L") <=> f.S # f.O
         /\ Satisfies(f, "GE") <=> ~ (f.S # f.O)
         /\ Satisfies(f, "LE") <=> (f.Z \/ f.S # f.O)
         /\ Satisfies(f, "G") <=> ~ (f.Z \/ f.S # f.O)
<1> DEFINE test == <<f.O, f.C, f.Z, f.C \/ f.Z, f.S, f.P, f.S # f.O, f.Z \/ f.S # f.O>>
<1>1. ASSUME NEW cc, NEW i, CodePlace(cc) = i
      PROVE  Satisfies(f, cc) <=> IF i % 2 = 0 THEN test[(i \div 2) + 1] ELSE ~ test[(i \div 2) + 1]
  BY <1>1 DEF Satisfies, CodePlace
<1>2. /\ 2 % 2 = 0 /\ (2 \div 2) + 1 = 2 /\ 3 % 2 = 1 /\ (3 \div 2) + 1 = 2
      /\ 4 % 2 = 0 /\ (4 \div 2) + 1 = 3 /\ 5 % 2 = 1 /\ (5 \div 2) + 1 = 3
      /\ 6 % 2 = 0 /\ (6 \div 2) + 1 = 4 /\ 7 % 2 = 1 /\ (7 \div 2) + 1 = 4
      /\ 12 % 2 = 0 /\ (12 \div 2) + 1 = 7 /\ 13 % 2 = 1 /\ (13 \div 2) + 1 = 7
      /\ 14 % 2 = 0 /\ (14 \div 2) + 1 = 8 /\ 15 % 2 = 1 /\ (15 \div 2) + 1 = 8
  OBVIOUS
<1>3. /\ (test[2] <=> f.C) /\ (test[3] <=> f.Z) /\ (test[4] <=> f.C \/ f.Z)
      /\ (test[7] <=> f.S # f.O) /\ (test[8] <=> (f.Z \/ f.S # f.O))
  OBVIOUS
<1> HIDE DEF test
<1> QED BY <1>1, <1>2, <1>3, CodePlaces

\* The guard of a condition leaves the trace when it does not hold.
LEMMA GuardCodes ==
  /\ GuardCode("LT") = "GE" /\ GuardCode("GE") = "L" /\ GuardCode("LE") = "G"
  /\ GuardCode("GT") = "LE" /\ GuardCode("EQ") = "NE" /\ GuardCode("NE") = "E"
  /\ GuardCode("LTU") = "AE" /\ GuardCode("GEU") = "B" /\ GuardCode("LEU") = "A"
  /\ GuardCode("GTU") = "BE"
<1>1. /\ CondIndex("LT") = 0 /\ CondIndex("GE") = 1 /\ CondIndex("LE") = 2 /\ CondIndex("GT") = 3
      /\ CondIndex("EQ") = 4 /\ CondIndex("NE") = 5 /\ CondIndex("LTU") = 6 /\ CondIndex("GEU") = 7
      /\ CondIndex("LEU") = 8 /\ CondIndex("GTU") = 9
  <2>1. /\ Cond[1] = "LT" /\ Cond[2] = "GE" /\ Cond[3] = "LE" /\ Cond[4] = "GT" /\ Cond[5] = "EQ"
        /\ Cond[6] = "NE" /\ Cond[7] = "LTU" /\ Cond[8] = "GEU" /\ Cond[9] = "LEU" /\ Cond[10] = "GTU"
    BY DEF Cond
  <2>2. /\ CondIndex(Cond[1]) = 0 /\ CondIndex(Cond[2]) = 1 /\ CondIndex(Cond[3]) = 2
        /\ CondIndex(Cond[4]) = 3 /\ CondIndex(Cond[5]) = 4 /\ CondIndex(Cond[6]) = 5
        /\ CondIndex(Cond[7]) = 6 /\ CondIndex(Cond[8]) = 7 /\ CondIndex(Cond[9]) = 8
        /\ CondIndex(Cond[10]) = 9
    BY CondPlace
  <2> QED BY <2>1, <2>2
<1>2. /\ asm_compmap[1][1] = "GE" /\ asm_compmap[2][1] = "L" /\ asm_compmap[3][1] = "G"
      /\ asm_compmap[4][1] = "LE" /\ asm_compmap[5][1] = "NE" /\ asm_compmap[6][1] = "E"
      /\ asm_compmap[1][2] = "AE" /\ asm_compmap[2][2] = "B" /\ asm_compmap[3][2] = "A"
      /\ asm_compmap[4][2] = "BE"
  BY DEF asm_compmap
<1>3. ASSUME NEW c, NEW i \in 0..9, CondIndex(c) = i
      PROVE  GuardCode(c) = IF i < 6 THEN asm_compmap[1 + i][1] ELSE asm_compmap[i - 5][2]
  <2>1. 1 + i - CondIndex("LTU") = i - 5
    BY <1>1
  <2> QED BY <1>3, <2>1 DEF GuardCode
<1> QED BY <1>1, <1>2, <1>3

\* What the processor finds of two words.
LEMMA FlagsExact ==
  ASSUME NEW u \in 0..(WordValues - 1), NEW v \in 0..(WordValues - 1)
  PROVE  /\ Flags(u, v).C <=> u < v
         /\ Flags(u, v).Z <=> u = v
         /\ (Flags(u, v).S # Flags(u, v).O) <=> AsInt(u) < AsInt(v)
<1>1. PICK h \in Nat : WordValues = 2 * h /\ WordValues \div 2 = h /\ h > 0
  BY InstructionsAssumption
<1>2. PICK W \in Nat : WordValues = W /\ W = 2 * h
  BY <1>1
<1>3. u \in Nat /\ v \in Nat /\ u < W /\ v < W
  BY <1>2
<1>4. PICK d \in Int : d = AsInt(u) - AsInt(v)
  <2>1. AsInt(u) \in Int /\ AsInt(v) \in Int
    BY <1>1, <1>2, <1>3 DEF AsInt
  <2> QED BY <2>1
<1>5. PICK r \in 0..(W - 1) : r = (u - v) % W /\ r = IF u >= v THEN u - v ELSE (u - v) + W
  <2>1. u >= v => (u - v) % W = u - v
    BY <1>1, <1>2, <1>3
  <2>2. u < v => (u - v) % W = (u - v) + W
    BY <1>1, <1>2, <1>3
  <2> QED BY <1>2, <1>3, <2>1, <2>2
<1>6. /\ AsInt(u) = IF u < h THEN u ELSE u - W
      /\ AsInt(v) = IF v < h THEN v ELSE v - W
      /\ AsInt(r) = IF r < h THEN r ELSE r - W
  BY <1>1, <1>2 DEF AsInt
<1>7. /\ Flags(u, v).C = (u < v) /\ Flags(u, v).Z = (r = 0) /\ Flags(u, v).S = (r >= h)
      /\ Flags(u, v).O = (d # AsInt(r))
  BY <1>1, <1>2, <1>4, <1>5 DEF Flags
<1>8. r = 0 <=> u = v
  BY <1>2, <1>3, <1>5
<1>9. ((r >= h) # (d # AsInt(r))) <=> AsInt(u) < AsInt(v)
  <2>1. ((r >= h) # (d # AsInt(r))) <=> d < 0
    BY <1>2, <1>3, <1>4, <1>5, <1>6
  <2> QED BY <1>2, <1>3, <1>4, <1>6, <2>1
<1> QED BY <1>7, <1>8, <1>9

\* With the processor's flags a guard leaves the trace exactly when the
\* condition it was made of does not hold.
LEMMA GuardExact ==
  ASSUME NEW i \in 1..10, NEW u \in 0..(WordValues - 1), NEW v \in 0..(WordValues - 1)
  PROVE  Satisfies(Flags(u, v), GuardCode(Cond[i])) <=> ~ Holds(Cond[i], u, v)
<1>1. PICK f : f = Flags(u, v)
  OBVIOUS
<1>2. (f.C <=> u < v) /\ (f.Z <=> u = v) /\ ((f.S # f.O) <=> AsInt(u) < AsInt(v))
  BY <1>1, FlagsExact
<1>3. u \in Int /\ v \in Int /\ AsInt(u) \in Int /\ AsInt(v) \in Int /\ (AsInt(u) = AsInt(v) <=> u = v)
  BY InstructionsAssumption DEF AsInt
<1>4. ASSUME NEW cc PROVE Satisfies(f, cc) <=> Satisfies(Flags(u, v), cc)
  BY <1>1
<1>5. Cond[i] \in {"LT", "GE", "LE", "GT", "EQ", "NE", "LTU", "GEU", "LEU", "GTU"}
  BY CondPlace
<1>6. CASE Cond[i] = "LT"
  BY <1>2, <1>3, <1>4, <1>6, GuardCodes, Satisfied DEF Holds
<1>7. CASE Cond[i] = "GE"
  BY <1>2, <1>3, <1>4, <1>7, GuardCodes, Satisfied DEF Holds
<1>8. CASE Cond[i] = "LE"
  BY <1>2, <1>3, <1>4, <1>8, GuardCodes, Satisfied DEF Holds
<1>9. CASE Cond[i] = "GT"
  BY <1>2, <1>3, <1>4, <1>9, GuardCodes, Satisfied DEF Holds
<1>10. CASE Cond[i] = "EQ"
  BY <1>2, <1>3, <1>4, <1>10, GuardCodes, Satisfied DEF Holds
<1>11. CASE Cond[i] = "NE"
  BY <1>2, <1>3, <1>4, <1>11, GuardCodes, Satisfied DEF Holds
<1>12. CASE Cond[i] = "LTU"
  BY <1>2, <1>3, <1>4, <1>12, GuardCodes, Satisfied DEF Holds
<1>13. CASE Cond[i] = "GEU"
  BY <1>2, <1>3, <1>4, <1>13, GuardCodes, Satisfied DEF Holds
<1>14. CASE Cond[i] = "LEU"
  BY <1>2, <1>3, <1>4, <1>14, GuardCodes, Satisfied DEF Holds
<1>15. CASE Cond[i] = "GTU"
  BY <1>2, <1>3, <1>4, <1>15, GuardCodes, Satisfied DEF Holds
<1> QED BY <1>5, <1>6, <1>7, <1>8, <1>9, <1>10, <1>11, <1>12, <1>13, <1>14, <1>15

\* To flip the last bit of a condition is to negate it.
LEMMA Negations ==
  ASSUME NEW u \in 0..(WordValues - 1), NEW v \in 0..(WordValues - 1)
  PROVE  /\ Holds("GE", u, v) <=> ~ Holds("LT", u, v)
         /\ Holds("GT", u, v) <=> ~ Holds("LE", u, v)
         /\ Holds("NE", u, v) <=> ~ Holds("EQ", u, v)
         /\ Holds("GEU", u, v) <=> ~ Holds("LTU", u, v)
         /\ Holds("GTU", u, v) <=> ~ Holds("LEU", u, v)
<1>1. u \in Int /\ v \in Int
  BY InstructionsAssumption
<1>2. PICK a \in Int, b \in Int : a = AsInt(u) /\ b = AsInt(v)
  BY <1>1, InstructionsAssumption DEF AsInt
<1>3. /\ Holds("GE", u, v) <=> a >= b
      /\ Holds("LT", u, v) <=> a < b
      /\ Holds("GT", u, v) <=> a > b
      /\ Holds("LE", u, v) <=> a <= b
  BY <1>2 DEF Holds
<1>4. /\ Holds("GEU", u, v) <=> u >= v
      /\ Holds("LTU", u, v) <=> u < v
      /\ Holds("GTU", u, v) <=> u > v
      /\ Holds("LEU", u, v) <=> u <= v
      /\ Holds("EQ", u, v) <=> u = v
      /\ Holds("NE", u, v) <=> u # v
  BY DEF Holds
<1> QED BY <1>1, <1>2, <1>3, <1>4

\* The inverted condition is another, and holds when the first does not.
LEMMA Inverted ==
  ASSUME NEW i \in 1..10, NEW u \in 0..(WordValues - 1), NEW v \in 0..(WordValues - 1)
  PROVE  \E k \in 1..10 : /\ bcCond2irCond(Cond[i], TRUE) = Cond[k]
                          /\ Holds(Cond[k], u, v) <=> ~ Holds(Cond[i], u, v)
<1>1. PICK k \in 1..10 : k = 1 + IF (i - 1) % 2 = 0 THEN i ELSE i - 2
  OBVIOUS
<1>2. bcCond2irCond(Cond[i], TRUE) = Cond[k]
  <2>1. CondIndex(Cond[i]) = i - 1
    BY CondPlace
  <2>2. (i - 1) + 1 = i /\ (i - 1) - 1 = i - 2
    OBVIOUS
  <2> QED BY <1>1, <2>1, <2>2 DEF bcCond2irCond
<1>3. /\ Cond[1] = "LT" /\ Cond[2] = "GE" /\ Cond[3] = "LE" /\ Cond[4] = "GT" /\ Cond[5] = "EQ"
      /\ Cond[6] = "NE" /\ Cond[7] = "LTU" /\ Cond[8] = "GEU" /\ Cond[9] = "LEU" /\ Cond[10] = "GTU"
  BY DEF Cond
<1>4. <<i, k>> \in {<<1, 2>>, <<2, 1>>, <<3, 4>>, <<4, 3>>, <<5, 6>>, <<6, 5>>, <<7, 8>>, <<8, 7>>,
                    <<9, 10>>, <<10, 9>>}
  BY <1>1
<1>5. <<Cond[i], Cond[k]>> \in
        {<<"LT", "GE">>, <<"GE", "LT">>, <<"LE", "GT">>, <<"GT", "LE">>, <<"EQ", "NE">>, <<"NE", "EQ">>,
         <<"LTU", "GEU">>, <<"GEU", "LTU">>, <<"LEU", "GTU">>, <<"GTU", "LEU">>}
  BY <1>3, <1>4
<1>6. Holds(Cond[k], u, v) <=> ~ Holds(Cond[i], u, v)
  BY <1>5, Negations
<1> QED BY <1>2, <1>6

\* A condition holds or does not.
LEMMA HoldsBoolean ==
  ASSUME NEW i \in 1..10, NEW u \in 0..(WordValues - 1), NEW v \in 0..(WordValues - 1)
  PROVE  Holds(Cond[i], u, v) \in BOOLEAN
<1>1. Cond[i] \in {"LT", "GE", "LE", "GT", "EQ", "NE", "LTU", "GEU", "LEU", "GTU"}
  BY CondPlace
<1>2. u \in Int /\ v \in Int /\ AsInt(u) \in Int /\ AsInt(v) \in Int
  BY InstructionsAssumption DEF AsInt
<1>3. PICK a \in Int, b \in Int : a = AsInt(u) /\ b = AsInt(v)
  BY <1>2
<1>4. (a < b) \in BOOLEAN /\ (a >= b) \in BOOLEAN /\ (a <= b) \in BOOLEAN /\ (a > b) \in BOOLEAN
      /\ (u < v) \in BOOLEAN /\ (u >= v) \in BOOLEAN /\ (u <= v) \in BOOLEAN /\ (u > v) \in BOOLEAN
      /\ (u = v) \in BOOLEAN /\ (u # v) \in BOOLEAN
  OBVIOUS
<1>5. \/ Holds(Cond[i], u, v) = (a < b) \/ Holds(Cond[i], u, v) = (a >= b)
      \/ Holds(Cond[i], u, v) = (a <= b) \/ Holds(Cond[i], u, v) = (a > b)
      \/ Holds(Cond[i], u, v) = (u = v) \/ Holds(Cond[i], u, v) = (u # v)
      \/ Holds(Cond[i], u, v) = (u < v) \/ Holds(Cond[i], u, v) = (u >= v)
      \/ Holds(Cond[i], u, v) = (u <= v) \/ Holds(Cond[i], u, v) = (u > v)
  BY <1>1, <1>3 DEF Holds
<1> QED BY <1>4, <1>5

\* A guard leaves the trace when the branch goes the other way.
LEMMA GuardAgrees ==
  ASSUME NEW i \in 1..10, NEW x \in 0..(WordValues - 1), NEW y \in 0..(WordValues - 1), NEW u \in 0..(WordValues - 1), NEW v \in 0..(WordValues - 1)
  PROVE  GuardExits(Cond[i], x, y, u, v) <=> (Holds(Cond[i], u, v) # Holds(Cond[i], x, y))
<1>0. Holds(Cond[i], u, v) \in BOOLEAN /\ Holds(Cond[i], x, y) \in BOOLEAN
  BY HoldsBoolean
<1>1. CASE Holds(Cond[i], x, y)
  <2>1. bcCond2irCond(Cond[i], FALSE) = Cond[i]
    <3>1. CondIndex(Cond[i]) = i - 1 /\ 1 + (i - 1) = i
      BY CondPlace
    <3> QED BY <3>1 DEF bcCond2irCond
  <2>2. GuardExits(Cond[i], x, y, u, v) <=> Satisfies(Flags(u, v), GuardCode(Cond[i]))
    BY <1>1, <2>1 DEF GuardExits, evalCond
  <2> QED BY <1>0, <1>1, <2>2, GuardExact
<1>2. CASE ~ Holds(Cond[i], x, y)
  <2>1. PICK k \in 1..10 : /\ bcCond2irCond(Cond[i], TRUE) = Cond[k]
                           /\ Holds(Cond[k], u, v) <=> ~ Holds(Cond[i], u, v)
    BY Inverted
  <2>2. GuardExits(Cond[i], x, y, u, v) <=> Satisfies(Flags(u, v), GuardCode(Cond[k]))
    BY <1>2, <2>1 DEF GuardExits, evalCond
  <2> QED BY <1>0, <1>2, <2>1, <2>2, GuardExact
<1> QED BY <1>1, <1>2

-----------------------------------------------------------------------------
(***************************************************************************)
(* Every instruction that can be asked about.                              *)
(***************************************************************************)

\* A question about an instruction is answered as DecodingExact says.
LEMMA AskedDecoding ==
  ASSUME InsNext
  PROVE  DecodingExact'
<1>1. CASE AskFields
  <2>1. PICK op \in 0..(ByteSize - 1), a \in 0..(ByteSize - 1), b \in 0..(ByteSize - 1), c \in 0..(ByteSize - 1) :
          /\ question' = [what |-> "fields", op |-> op, a |-> a, b |-> b, c |-> c]
          /\ reading' = <<DecodeBC(abc(op, a, b, c)), InsABC(abc(op, a, b, c))>>
    BY <1>1 DEF AskFields, Ask
  <2>2. /\ DecodeBC(abc(op, a, b, c)) = [op |-> op, a |-> a, b |-> b, c |-> c]
        /\ InsABC(abc(op, a, b, c)) = [op |-> op, a |-> a, b |-> b, c |-> c]
    BY FieldsExact
  <2>3. \A i \in 1..2 : reading'[i] = [op |-> op, a |-> a, b |-> b, c |-> c]
    BY <2>1, <2>2
  <2> QED BY <2>1, <2>3 DEF DecodingExact
<1>2. CASE AskBranch
  <2>1. PICK a \in 0..(ByteSize - 1), j \in (- kBranchBias)..(kBranchBias - 1) :
          question' = [what |-> "offset", j |-> j] /\ reading' = BranchTarget(aj(0, a, j))
    BY <1>2 DEF AskBranch, Ask
  <2>2. reading' = 2 + j
    BY <2>1, OffsetExact
  <2> QED BY <2>1, <2>2 DEF DecodingExact
<1>3. CASE AskJump
  <2>1. PICK j \in (- kBranchBias)..(kBranchBias - 1) :
          question' = [what |-> "jump", j |-> j] /\ reading' = JumpTarget(aj(0, 0, j))
    BY <1>3 DEF AskJump, Ask
  <2>2. reading' = 1 + j + (IF j < 0 THEN AddressSize ELSE 0)
    BY <2>1, JumpExact
  <2> QED BY <2>1, <2>2 DEF DecodingExact
<1>4. CASE AskLength
  <2>1. PICK op \in {"CALL", "ALLOC", "ALLOCAP", "ALLOC1", "EVAL"}, n \in 1..MaxInsArgs :
          /\ question' = [what |-> "length", op |-> op, n |-> n]
          /\ reading' = [next |-> NextPc(op, n), map |-> MapWord(op, n), print |-> debugPrint(op, n),
                         recorded |-> IF op = "CALL" THEN RecordedReturnPc(n) ELSE NextPc(op, n)]
    BY <1>4 DEF AskLength, Ask
  <2>2. n \in Nat \ {0}
    BY InstructionsAssumption
  <2>3. /\ MapWord(op, n) = NextPc(op, n) - 1
        /\ 4 * ArgsBegin(op) + ArgBytes(op, n) <= 4 * MapWord(op, n)
        /\ debugPrint(op, n) = NextPc(op, n)
        /\ (IF op = "CALL" THEN RecordedReturnPc(n) ELSE NextPc(op, n)) = NextPc(op, n)
    BY <2>2, LengthExact
  <2>4. /\ reading'.map = reading'.next - 1
        /\ 4 * ArgsBegin(op) + ArgBytes(op, n) <= 4 * reading'.map
        /\ reading'.print = reading'.next /\ reading'.recorded = reading'.next
    BY <2>1, <2>3
  <2> QED BY <2>1, <2>4 DEF DecodingExact
<1>5. CASE AskCase
  <2>0. PICK n \in 1..MaxCases : \E tag \in 1..(MaxCases + 1) : \E alts :
          /\ alts = Alts([i \in 1..n |-> i])
          /\ question' = [what |-> "case", alts |-> alts, tag |-> tag]
          /\ reading' = CaseTarget(n, CaseTable(alts), tag)
    BY <1>5 DEF AskCase, Ask
  <2>1. PICK tag \in 1..(MaxCases + 1) : \E alts :
          /\ alts = Alts([i \in 1..n |-> i])
          /\ question' = [what |-> "case", alts |-> alts, tag |-> tag]
          /\ reading' = CaseTarget(n, CaseTable(alts), tag)
    BY <2>0
  <2>5. PICK alts :
          /\ alts = Alts([i \in 1..n |-> i])
          /\ question' = [what |-> "case", alts |-> alts, tag |-> tag]
          /\ reading' = CaseTarget(n, CaseTable(alts), tag)
    BY <2>1
  <2>2. n \in Nat /\ tag \in Nat \ {0} /\ DOMAIN alts = 1..n
    BY <2>5, Halves DEF Alts
  <2>3. CASE tag \in 1..n
    <3>1. /\ Len(alts) = n /\ alts[tag][2] = 2 * tag - 1
          /\ CaseTarget(n, CaseTable(alts), tag) = 1 + BcRound(2 * n) + 2 * tag - 1
      BY <2>3, <2>5, CaseExact
    <3>2. BcRound(2 * n) \in Int
      BY <2>2 DEF BcRound
    <3>3. reading' = 1 + BcRound(2 * Len(alts)) + alts[tag][2]
      BY <2>2, <2>5, <3>1, <3>2
    <3> QED BY <2>2, <2>3, <2>5, <3>3 DEF DecodingExact
  <2>4. CASE tag \notin 1..n
    <3>1. ~ (tag - 1 < n)
      BY <2>2, <2>4
    <3>2. reading' = Stopped
      BY <2>5, <3>1 DEF CaseTarget
    <3> QED BY <2>2, <2>4, <2>5, <3>2 DEF DecodingExact
  <2> QED BY <2>3, <2>4
<1>6. CASE AskCaseS
  <2>0. PICK n \in 1..MaxTag : \E t \in Ascending(n), tag \in 1..MaxTag : \E alts :
          /\ alts = Alts(t)
          /\ question' = [what |-> "case_s", alts |-> alts, tag |-> tag]
          /\ reading' = CaseSTarget(n, CaseSTable(alts), tag)
    BY <1>6 DEF AskCaseS, Ask
  <2>0a. PICK t \in Ascending(n), tag \in 1..MaxTag : \E alts :
          /\ alts = Alts(t)
          /\ question' = [what |-> "case_s", alts |-> alts, tag |-> tag]
          /\ reading' = CaseSTarget(n, CaseSTable(alts), tag)
    BY <2>0
  <2>1. PICK alts :
          /\ alts = Alts(t)
          /\ question' = [what |-> "case_s", alts |-> alts, tag |-> tag]
          /\ reading' = CaseSTarget(n, CaseSTable(alts), tag)
    BY <2>0a
  <2>2. Len(alts) = n /\ DOMAIN alts = 1..n /\ \A i \in 1..n : alts[i] = <<t[i], 2 * i - 1>>
    BY <2>1, CaseSExact
  <2>3. PICK p \in 0..n : (\A i \in 1..n : (t[i] = tag) <=> (i = p)) /\ reading' = 2 + n + 2 * p
    BY <2>1, CaseSExact
  <2>4. n \in Nat
    BY Halves
  <2>5. PICK hit : hit = {i \in DOMAIN alts : alts[i][1] = tag}
    OBVIOUS
  <2>6. \A i : i \in hit <=> (i \in 1..n /\ i = p)
    <3>1. \A i \in 1..n : alts[i][1] = t[i]
      BY <2>2
    <3> QED BY <2>2, <2>3, <2>5, <3>1
  <2>7. hit = {} => reading' = 1 + 1 + Len(alts)
    <3>1. ASSUME hit = {} PROVE p = 0
      BY <2>4, <2>6, <3>1
    <3> QED BY <2>2, <2>3, <2>4, <3>1
  <2>8. \A i \in hit : reading' = 1 + 1 + Len(alts) + alts[i][2] + 1
    <3>1. TAKE i \in hit
    <3>2. i \in 1..n /\ i = p
      BY <2>6
    <3>3. alts[i][2] = 2 * i - 1
      BY <2>2, <3>2
    <3> QED BY <2>2, <2>3, <2>4, <3>2, <3>3
  <2>9. IF hit = {} THEN reading' = 1 + 1 + Len(alts)
        ELSE \A i \in hit : reading' = 1 + 1 + Len(alts) + alts[i][2] + 1
    BY <2>7, <2>8
  <2> QED BY <2>1, <2>5, <2>9 DEF DecodingExact
<1>7. CASE AskGuard
  <2>1. question'.what = "guard"
    BY <1>7 DEF AskGuard, Ask
  <2> QED BY <2>1 DEF DecodingExact
<1> QED BY <1>1, <1>2, <1>3, <1>4, <1>5, <1>6, <1>7 DEF InsNext

\* A question about a guard is answered as BranchesAgree says.
LEMMA AskedBranches ==
  ASSUME InsNext
  PROVE  BranchesAgree'
<1>1. CASE AskGuard
  <2>1. PICK c \in Range(Cond), x \in 0..(WordValues - 1), y \in 0..(WordValues - 1),
             u \in 0..(WordValues - 1), v \in 0..(WordValues - 1) :
          /\ question' = [what |-> "guard", c |-> c, recorded |-> <<x, y>>, now |-> <<u, v>>]
          /\ reading' = GuardExits(c, x, y, u, v)
    BY <1>1 DEF AskGuard, Ask
  <2>2. PICK i \in 1..10 : c = Cond[i]
    <3>1. DOMAIN Cond = 1..10
      BY DEF Cond
    <3>2. c \in {Cond[i] : i \in DOMAIN Cond}
      BY <2>1 DEF Range
    <3> QED BY <3>1, <3>2
  <2>3. GuardExits(c, x, y, u, v) <=> (Holds(c, u, v) # Holds(c, x, y))
    BY <2>2, GuardAgrees
  <2>4. question'.now[1] = u /\ question'.now[2] = v /\ question'.recorded[1] = x /\ question'.recorded[2] = y
        /\ question'.c = c
    BY <2>1
  <2> QED BY <2>1, <2>3, <2>4 DEF BranchesAgree
<1>2. CASE AskFields \/ AskBranch \/ AskJump \/ AskLength \/ AskCase \/ AskCaseS
  <2>1. question'.what # "guard"
    <3>1. AskFields => question'.what = "fields"
      BY DEF AskFields, Ask
    <3>2. AskBranch => question'.what = "offset"
      BY DEF AskBranch, Ask
    <3>3. AskJump => question'.what = "jump"
      BY DEF AskJump, Ask
    <3>4. AskLength => question'.what = "length"
      BY DEF AskLength, Ask
    <3>5. AskCase => question'.what = "case"
      BY DEF AskCase, Ask
    <3>6. AskCaseS => question'.what = "case_s"
      BY DEF AskCaseS, Ask
    <3> QED BY <1>2, <3>1, <3>2, <3>3, <3>4, <3>5, <3>6
  <2> QED BY <2>1 DEF BranchesAgree
<1> QED BY <1>1, <1>2 DEF InsNext

\* The readers of an instruction agree, whatever it is and however many
\* alternatives a case has (DISPATCH_NEXT, topFrameBitmask, CASE, CASE_S and
\* the branches of capability.cc, jit.cc and bytecode.cc).  The exceptions are
\* exactly a JMP back and a CASE of a tag without alternative: the property
\* DecodingExact.
THEOREM ReadersAgree == InsSpec => []DecodingExact
<1>1. InsInit => DecodingExact
  BY DEF InsInit, NoQuestion, DecodingExact
<1>2. DecodingExact /\ [InsNext]_insVars => DecodingExact'
  <2>1. CASE InsNext
    BY <2>1, AskedDecoding
  <2>2. ASSUME DecodingExact, UNCHANGED insVars PROVE DecodingExact'
    BY <2>2 DEF insVars, DecodingExact
  <2> QED BY <2>1, <2>2
<1> QED BY <1>1, <1>2, PTL DEF InsSpec

\* A compiled branch stays on its trace exactly when the interpreter would go
\* the recorded way, for every comparison and all words, of any width
\* (bcCond2irCond, asm_compmap): the property BranchesAgree.
THEOREM GuardsAgree == InsSpec => []BranchesAgree
<1>1. InsInit => BranchesAgree
  BY DEF InsInit, NoQuestion, BranchesAgree
<1>2. BranchesAgree /\ [InsNext]_insVars => BranchesAgree'
  <2>1. CASE InsNext
    BY <2>1, AskedBranches
  <2>2. ASSUME BranchesAgree, UNCHANGED insVars PROVE BranchesAgree'
    BY <2>2 DEF insVars, BranchesAgree
  <2> QED BY <2>1, <2>2
<1> QED BY <1>1, <1>2, PTL DEF InsSpec

-----------------------------------------------------------------------------
(***************************************************************************)
(* The loader. A missing name has a list of the locations that refer to    *)
(* it, linked through the locations themselves, the one that was added     *)
(* last first: the invariant says that the list has every location of a    *)
(* name that is not loaded and no other, and that the locations of a name  *)
(* that is loaded have its address. It is stated of the tables, a set of   *)
(* words and a set of names, and only then of the program's state.         *)
(***************************************************************************)

\* The locations of a set of words with the content r.
RefsIn(W, r) == {w[1] : w \in {v \in W : v[2] = r}}

\* The n locations p of R are linked from h on, the one that was added last
\* first.
ListOf(f, h, R, n, p) ==
  /\ n > 0 /\ p \in [1..n -> R]
  /\ \A j, k \in 1..n : p[j] = p[k] => j = k
  /\ \A l \in R : \E k \in 1..n : p[k] = l
  /\ h = p[n]
  /\ \A k \in 1..n : f[p[k]] = IF k = 1 THEN Null ELSE p[k - 1]
HasList(f, h, R) == \E n \in Nat : \E p : ListOf(f, h, R, n, p)

\* A list depends on its locations only.
LEMMA ListFrame ==
  ASSUME NEW f, NEW g, NEW h, NEW R, HasList(f, h, R), \A l \in R : g[l] = f[l]
  PROVE  HasList(g, h, R)
<1>1. PICK n \in Nat : \E p : ListOf(f, h, R, n, p)
  BY DEF HasList
<1>2. PICK p : ListOf(f, h, R, n, p)
  BY <1>1
<1>3. ListOf(g, h, R, n, p)
  BY <1>2 DEF ListOf
<1> QED BY <1>3 DEF HasList

\* A list begins at one of its locations.
LEMMA ListHead ==
  ASSUME NEW f, NEW h, NEW R, HasList(f, h, R)
  PROVE  h \in R
<1>1. PICK n \in Nat : \E p : ListOf(f, h, R, n, p)
  BY DEF HasList
<1>2. PICK p : ListOf(f, h, R, n, p)
  BY <1>1
<1>3. n > 0 /\ p \in [1..n -> R] /\ h = p[n]
  BY <1>2 DEF ListOf
<1>4. n \in 1..n
  BY <1>3
<1> QED BY <1>3, <1>4

\* A list with a single location.
LEMMA ListFirst ==
  ASSUME NEW f, NEW l, f[l] = Null
  PROVE  HasList(f, l, {l})
<1>1. PICK p : p = [k \in 1..1 |-> l]
  OBVIOUS
<1>2. ListOf(f, l, {l}, 1, p)
  BY <1>1 DEF ListOf
<1> QED BY <1>2 DEF HasList

\* A location is added in front of a list.
LEMMA ListAdd ==
  ASSUME NEW f, NEW g, NEW h, NEW R, HasList(f, h, R), NEW l, l \notin R, g[l] = h,
         \A x \in R : g[x] = f[x]
  PROVE  HasList(g, l, R \cup {l})
<1>1. PICK n \in Nat : \E p : ListOf(f, h, R, n, p)
  BY DEF HasList
<1>2. PICK p : ListOf(f, h, R, n, p)
  BY <1>1
<1>3. PICK q : q = [k \in 1..(n + 1) |-> IF k = n + 1 THEN l ELSE p[k]]
  OBVIOUS
<1>4. /\ n > 0 /\ p \in [1..n -> R] /\ h = p[n]
      /\ \A j, k \in 1..n : p[j] = p[k] => j = k
      /\ \A x \in R : \E k \in 1..n : p[k] = x
      /\ \A k \in 1..n : f[p[k]] = IF k = 1 THEN Null ELSE p[k - 1]
  BY <1>2 DEF ListOf
<1>5. \A k \in 1..(n + 1) : k # n + 1 => k \in 1..n
  OBVIOUS
<1>6. \A k \in 1..n : q[k] = p[k] /\ k # n + 1 /\ k \in 1..(n + 1) /\ p[k] \in R
  BY <1>3, <1>4
<1>7. n + 1 \in 1..(n + 1) /\ q[n + 1] = l
  BY <1>3
<1>8. q \in [1..(n + 1) -> R \cup {l}]
  BY <1>3, <1>4, <1>5
<1>9. ASSUME NEW j \in 1..(n + 1), NEW k \in 1..(n + 1), q[j] = q[k] PROVE j = k
  BY <1>4, <1>5, <1>6, <1>7, <1>9
<1>10. \A x \in R \cup {l} : \E k \in 1..(n + 1) : q[k] = x
  BY <1>4, <1>6, <1>7
<1>11. ASSUME NEW k \in 1..(n + 1)
       PROVE  g[q[k]] = IF k = 1 THEN Null ELSE q[k - 1]
  <2>1. CASE k = n + 1
    <3>1. k # 1 /\ k - 1 = n /\ n \in 1..n
      BY <1>4, <2>1
    <3> QED BY <1>4, <1>6, <1>7, <2>1, <3>1
  <2>2. CASE k # n + 1
    <3>1. k \in 1..n
      BY <1>5, <2>2
    <3>2. g[q[k]] = f[p[k]]
      BY <1>6, <3>1
    <3>3. k # 1 => k - 1 \in 1..n /\ q[k - 1] = p[k - 1]
      BY <1>6, <3>1
    <3> QED BY <1>4, <3>1, <3>2, <3>3
  <2> QED BY <2>1, <2>2
<1>12. n + 1 \in Nat /\ n + 1 > 0
  BY <1>4
<1>13. ListOf(g, l, R \cup {l}, n + 1, q)
  BY <1>7, <1>8, <1>9, <1>10, <1>11, <1>12 DEF ListOf
<1> QED BY <1>12, <1>13 DEF HasList

\* A list has one end.
LEMMA ListEnd ==
  ASSUME NEW f, NEW h, NEW R, HasList(f, h, R), \A l \in R : IsLoc(l)
  PROVE  Cardinality({l \in R : f[l] = Null}) = 1
<1>1. PICK n \in Nat : \E p : ListOf(f, h, R, n, p)
  BY DEF HasList
<1>2. PICK p : ListOf(f, h, R, n, p)
  BY <1>1
<1>3. 1 \in 1..n /\ p[1] \in R /\ f[p[1]] = Null
  BY <1>2 DEF ListOf
<1>4. ASSUME NEW l \in R, f[l] = Null PROVE l = p[1]
  <2>1. PICK k \in 1..n : p[k] = l
    BY <1>2 DEF ListOf
  <2>2. CASE k # 1
    <3>1. k - 1 \in 1..n
      BY <2>2
    <3>2. p[k - 1] \in R /\ f[p[k]] = p[k - 1]
      BY <1>2, <2>2, <3>1 DEF ListOf
    <3>3. IsLoc(Null)
      BY <1>4, <2>1, <3>2
    <3> QED BY <3>3 DEF IsLoc, Null
  <2> QED BY <2>1, <2>2
<1>5. {l \in R : f[l] = Null} = {p[1]}
  BY <1>3, <1>4
<1> QED BY <1>5, FS_Singleton


\* A list of locations has as many as it has, and no more than memory.
LEMMA ListLength ==
  ASSUME NEW f, NEW h, NEW R, NEW n \in Nat, NEW p, ListOf(f, h, R, n, p),
         NEW M, IsFiniteSet(M), R \subseteq M
  PROVE  n <= Cardinality(M) /\ Cardinality(M) \in Nat
<1>1. p \in [1..n -> M] /\ \A j, k \in 1..n : p[j] = p[k] => j = k
  BY DEF ListOf
<1>2. p \in Injection(1..n, M)
  BY <1>1 DEF Injection, IsInjective
<1>3. IsFiniteSet(1..n) /\ Cardinality(1..n) = n
  BY FS_Interval
<1>4. Cardinality(1..n) <= Cardinality(M)
  BY <1>2, FS_Injection
<1> QED BY <1>3, <1>4, FS_CardinalityType

\* The walk of Linked along a list comes by all its locations and stops.
LEMMA ListLinked ==
  ASSUME NEW s, NEW h, NEW R, HasList(s.mem, h, R), IsFiniteSet(DOMAIN s.mem),
         R \subseteq DOMAIN s.mem, \A l \in R : IsLoc(l)
  PROVE  Linked(s, h) = R
<1>1. PICK n \in Nat : \E p : ListOf(s.mem, h, R, n, p)
  BY DEF HasList
<1>2. PICK p : ListOf(s.mem, h, R, n, p)
  BY <1>1
<1>3. PICK N \in Nat : Cardinality(DOMAIN s.mem) = N
  BY FS_CardinalityType
<1>4. n <= N /\ n > 0
  <2>1. n > 0
    BY <1>2 DEF ListOf
  <2>2. n <= Cardinality(DOMAIN s.mem)
    BY <1>2, ListLength
  <2> QED BY <1>3, <2>1, <2>2
<1>5. PICK f : f = s.mem
  OBVIOUS
<1>6. /\ \A k \in 1..n : p[k] \in R /\ IsLoc(p[k])
      /\ \A k \in 1..n : f[p[k]] = IF k = 1 THEN Null ELSE p[k - 1]
      /\ h = p[n] /\ \A l \in R : \E k \in 1..n : p[k] = l
  BY <1>2, <1>5 DEF ListOf
<1>7. ~ IsLoc(Null)
  BY DEF IsLoc, Null
<1> DEFINE Next1(X) == {s.mem[l] : l \in {x \in X : IsLoc(x)}}
           Walks(u) == u = [j \in 0..Cardinality(DOMAIN s.mem) |-> IF j = 0 THEN {h} ELSE Next1(u[j - 1])]
<1>8. PICK u : u = CHOOSE v : Walks(v)
  OBVIOUS
<1>9. Linked(s, h) = {l \in UNION {u[j] : j \in DOMAIN u} : IsLoc(l)}
  BY <1>8 DEF Linked
<1>10. PICK w : w = [j \in 0..N |-> IF j < n THEN {p[n - j]} ELSE IF j = n THEN {Null} ELSE {}]
  OBVIOUS
<1>11. ASSUME NEW j \in 0..N
       PROVE  w[j] = IF j = 0 THEN {h} ELSE Next1(w[j - 1])
  <2>1. CASE j = 0
    <3>1. w[j] = {p[n - 0]} /\ n - 0 = n
      BY <1>4, <1>10, <2>1
    <3> QED BY <1>6, <2>1, <3>1
  <2>2. CASE j # 0 /\ j - 1 < n
    <3>1. n - (j - 1) \in 1..n /\ j - 1 \in 0..N
      BY <2>2
    <3>2. w[j - 1] = {p[n - (j - 1)]}
      BY <1>10, <2>2, <3>1
    <3>3. Next1(w[j - 1]) = {f[p[n - (j - 1)]]}
      BY <1>5, <1>6, <3>1, <3>2
    <3>4. CASE j < n
      <4>1. n - (j - 1) # 1 /\ n - (j - 1) - 1 = n - j
        BY <2>2, <3>4
      <4>2. f[p[n - (j - 1)]] = p[n - j]
        BY <1>6, <3>1, <4>1
      <4>3. w[j] = {p[n - j]}
        BY <1>10, <3>4
      <4> QED BY <2>2, <3>3, <4>2, <4>3
    <3>5. CASE ~ (j < n)
      <4>1. j = n /\ n - (j - 1) = 1
        BY <1>4, <2>2, <3>5
      <4>2. f[p[n - (j - 1)]] = Null
        BY <1>6, <3>1, <4>1
      <4>3. w[j] = {Null}
        BY <1>10, <4>1
      <4> QED BY <2>2, <3>3, <4>2, <4>3
    <3> QED BY <3>4, <3>5
  <2>3. CASE j # 0 /\ ~ (j - 1 < n)
    <3>1. j - 1 \in 0..N /\ ~ (j < n) /\ j # n
      BY <1>4, <2>3
    <3>2. w[j - 1] \subseteq {Null} /\ w[j] = {}
      BY <1>10, <2>3, <3>1
    <3>3. Next1(w[j - 1]) = {}
      BY <1>7, <3>2
    <3> QED BY <2>3, <3>2, <3>3
  <2> QED BY <2>1, <2>2, <2>3
<1>12. Walks(w)
  <2> HIDE DEF Next1
  <2>1. w = [j \in 0..N |-> w[j]]
    BY <1>10
  <2>2. w = [j \in 0..N |-> IF j = 0 THEN {h} ELSE Next1(w[j - 1])]
    BY <1>11, <2>1
  <2> QED BY <1>3, <2>2
<1>13. Walks(u)
  BY <1>8, <1>12
<1>14. \A j \in 0..N : u[j] = IF j = 0 THEN {h} ELSE Next1(u[j - 1])
  <2> HIDE DEF Next1
  <2> QED BY <1>3, <1>13
<1>15. u = w
  <2> HIDE DEF Next1
  <2> DEFINE T == {j \in Nat : j <= N => u[j] = w[j]}
  <2>1. 0 \in T
    BY <1>11, <1>14
  <2>2. ASSUME NEW j \in T PROVE j + 1 \in T
    <3> SUFFICES ASSUME j + 1 <= N PROVE u[j + 1] = w[j + 1]
      OBVIOUS
    <3>1. j + 1 \in 0..N /\ j + 1 # 0 /\ j + 1 - 1 = j /\ j <= N
      OBVIOUS
    <3>2. w[j + 1] = Next1(w[j])
      BY <1>11, <3>1
    <3>3. u[j + 1] = Next1(u[j])
      BY <1>14, <3>1
    <3> QED BY <3>1, <3>2, <3>3
  <2>3. T = Nat
    <3> HIDE DEF T
    <3>1. T \in SUBSET Nat
      BY DEF T
    <3> QED BY <2>1, <2>2, <3>1, SetInduction
  <2>4. \A j \in 0..N : u[j] = w[j]
    BY <2>3
  <2>5. u = [j \in 0..N |-> u[j]] /\ w = [j \in 0..N |-> w[j]]
    BY <1>3, <1>10, <1>13
  <2> QED BY <2>4, <2>5
<1>16. Linked(s, h) = {l \in UNION {w[j] : j \in 0..N} : IsLoc(l)}
  <2> HIDE DEF Walks
  <2>1. DOMAIN w = 0..N
    BY <1>10
  <2> QED BY <1>15, <1>9, <2>1
<1>17. ASSUME NEW j \in 0..N, NEW l \in w[j], IsLoc(l) PROVE l \in R
  <2>1. CASE j < n
    <3>1. n - j \in 1..n
      BY <2>1
    <3> QED BY <1>6, <1>10, <1>17, <2>1, <3>1
  <2>2. CASE ~ (j < n)
    BY <1>7, <1>10, <1>17, <2>2
  <2> QED BY <2>1, <2>2
<1>18. ASSUME NEW l \in R PROVE IsLoc(l) /\ \E j \in 0..N : l \in w[j]
  <2>1. PICK k \in 1..n : p[k] = l
    BY <1>6
  <2>2. n - k \in 0..N /\ n - k < n /\ n - (n - k) = k
    BY <1>4
  <2>3. w[n - k] = {p[k]}
    BY <1>10, <2>2
  <2> QED BY <1>6, <2>1, <2>2, <2>3
<1> QED BY <1>16, <1>17, <1>18

\* The words of W are in memory, those that refer to names of D have their
\* addresses, those of data their values.
WordInv(f, W, D) ==
  /\ IsFiniteSet(DOMAIN f)
  /\ \A w \in W : w[1] \in DOMAIN f /\ IsLoc(w[1])
  /\ \A v, w \in W : v[1] = w[1] => v[2] = w[2]
  /\ \A w \in W : w[2][1] = "word" => f[w[1]] = w[2]
  /\ \A w \in W : w[2] \in D => f[w[1]] = Addr(w[2][1], w[2][2])

\* The entry of an info table and of a closure.
InfoEntry(it, f, W, D, n) ==
  LET R == RefsIn(W, <<"info", n>>) IN
  /\ <<"info", n>> \in D => n \in DOMAIN it /\ it[n] = RealTable
  /\ <<"info", n>> \notin D /\ R = {} => n \notin DOMAIN it
  /\ <<"info", n>> \notin D /\ R # {} => n \in DOMAIN it /\ HasList(f, it[n], R)
ClosEntry(ct, f, W, D, n) ==
  LET R == RefsIn(W, <<"clos", n>>) IN
  /\ <<"clos", n>> \in D =>
       /\ n \in DOMAIN ct
       /\ \E m, i, x : /\ ct[n] = <<"real", m, i>>
                       /\ <<Loc(m, i, 0), <<"info", x>>>> \in W
                       /\ <<"info", x>> \in D
  /\ <<"clos", n>> \notin D /\ R = {} => n \notin DOMAIN ct
  /\ <<"clos", n>> \notin D /\ R # {} =>
       /\ n \in DOMAIN ct /\ ct[n] = Dummy(n)
       /\ Dummy(n) \in DOMAIN f /\ HasList(f, f[Dummy(n)], R)

\* The tables and the memory s after the words W and the items with the names
\* D were loaded.
LinkInv(s, W, D) ==
  /\ s = [itab |-> s.itab, ctab |-> s.ctab, mem |-> s.mem]
  /\ WordInv(s.mem, W, D)
  /\ \A n : InfoEntry(s.itab, s.mem, W, D, n)
  /\ \A n : ClosEntry(s.ctab, s.mem, W, D, n)

\* What Store does.
LEMMA StoreDomain ==
  \A f, l, w : DOMAIN Store(f, l, w) = DOMAIN f \cup {l}
BY DEF Store

\* What the location has afterwards.
LEMMA StoreAt ==
  \A f, l, w : Store(f, l, w)[l] = w
BY DEF Store

\* The other locations keep what they had.
LEMMA StoreElse ==
  \A f, l, w, x : x \in DOMAIN f /\ x # l => Store(f, l, w)[x] = f[x]
BY DEF Store

\* A finite memory stays finite.
LEMMA StoreFinite ==
  ASSUME NEW f, NEW l, NEW w, IsFiniteSet(DOMAIN f)
  PROVE  IsFiniteSet(DOMAIN Store(f, l, w))
<1>1. IsFiniteSet(DOMAIN f \cup {l})
  BY FS_AddElement
<1> QED BY <1>1, StoreDomain

\* V has the words of W and one more, with content c at l.
OneMore(V, W, l, c) == V = W \cup {<<l, c>>}

\* The locations of a content are those of the words that have it.
LEMMA RefsInMember ==
  \A V, r, x : x \in RefsIn(V, r) <=> \E w \in V : w[1] = x /\ w[2] = r
BY DEF RefsIn

\* With one more word, a location has a content if it had it or is the new one.
LEMMA RefsInMore ==
  ASSUME NEW W, NEW V, NEW l, NEW c, OneMore(V, W, l, c)
  PROVE  \A r, x : x \in RefsIn(V, r) <=> x \in RefsIn(W, r) \/ (x = l /\ c = r)
<1> SUFFICES ASSUME NEW r, NEW x
             PROVE  x \in RefsIn(V, r) <=> x \in RefsIn(W, r) \/ (x = l /\ c = r)
  OBVIOUS
<1>1. PICK q : q = <<l, c>>
  OBVIOUS
<1>2. q[1] = l /\ q[2] = c /\ V = W \cup {q}
  BY <1>1 DEF OneMore
<1>3. x \in RefsIn(V, r) <=> \E w \in V : w[1] = x /\ w[2] = r
  BY RefsInMember
<1>4. x \in RefsIn(W, r) <=> \E w \in W : w[1] = x /\ w[2] = r
  BY RefsInMember
<1> QED BY <1>2, <1>3, <1>4

\* The content of the new word gets its location.
LEMMA RefsInSame ==
  ASSUME NEW W, NEW V, NEW l, NEW c, OneMore(V, W, l, c)
  PROVE  RefsIn(V, c) = RefsIn(W, c) \cup {l}
<1>1. \A x : x \in RefsIn(V, c) <=> x \in RefsIn(W, c) \/ (x = l /\ c = c)
  BY RefsInMore
<1> QED BY <1>1

\* The other contents keep their locations.
LEMMA RefsInOther ==
  ASSUME NEW W, NEW V, NEW l, NEW c, OneMore(V, W, l, c)
  PROVE  \A r : r # c => RefsIn(V, r) = RefsIn(W, r)
<1>1. \A r, x : x \in RefsIn(V, r) <=> x \in RefsIn(W, r) \/ (x = l /\ c = r)
  BY RefsInMore
<1>2. ASSUME NEW r, r # c PROVE RefsIn(V, r) = RefsIn(W, r)
  <2>1. \A x : x \in RefsIn(V, r) <=> x \in RefsIn(W, r)
    BY <1>1, <1>2
  <2> QED BY <2>1
<1> QED BY <1>2

\* The locations of a content are in memory.
LEMMA RefsInMemory ==
  ASSUME NEW f, NEW W, NEW D, WordInv(f, W, D), NEW r, NEW x \in RefsIn(W, r)
  PROVE  x \in DOMAIN f /\ IsLoc(x) /\ \E w \in W : w[1] = x
BY RefsInMember DEF WordInv

\* The entry of an info table with another name is not affected by a new word.
LEMMA OtherInfo ==
  ASSUME NEW it, NEW it2, NEW f, NEW g, NEW W, NEW W2, NEW D, NEW D2, NEW n,
         InfoEntry(it, f, W, D, n), <<"info", n>> \in D2 <=> <<"info", n>> \in D,
         RefsIn(W2, <<"info", n>>) = RefsIn(W, <<"info", n>>),
         \A x \in RefsIn(W, <<"info", n>>) : g[x] = f[x],
         n \in DOMAIN it2 <=> n \in DOMAIN it, n \in DOMAIN it => it2[n] = it[n]
  PROVE  InfoEntry(it2, g, W2, D2, n)
<1> DEFINE R == RefsIn(W, <<"info", n>>)
<1>1. \A h : HasList(f, h, R) => HasList(g, h, R)
  BY ListFrame
<1> QED BY <1>1 DEF InfoEntry

\* The entry of a closure with another name is not affected by a new word.
LEMMA OtherClos ==
  ASSUME NEW ct, NEW ct2, NEW f, NEW g, NEW W, NEW W2, NEW D, NEW D2, NEW n,
         ClosEntry(ct, f, W, D, n), <<"clos", n>> \in D2 <=> <<"clos", n>> \in D,
         W \subseteq W2, D \subseteq D2,
         RefsIn(W2, <<"clos", n>>) = RefsIn(W, <<"clos", n>>),
         \A x \in RefsIn(W, <<"clos", n>>) : g[x] = f[x],
         Dummy(n) \in DOMAIN f => Dummy(n) \in DOMAIN g /\ g[Dummy(n)] = f[Dummy(n)],
         n \in DOMAIN ct2 <=> n \in DOMAIN ct, n \in DOMAIN ct => ct2[n] = ct[n]
  PROVE  ClosEntry(ct2, g, W2, D2, n)
<1> DEFINE R == RefsIn(W, <<"clos", n>>)
<1>1. \A h : HasList(f, h, R) => HasList(g, h, R)
  BY ListFrame
<1> QED BY <1>1 DEF ClosEntry

\* The words after one more.
LEMMA MoreWordInv ==
  ASSUME NEW f, NEW g, NEW W, NEW W2, NEW D, WordInv(f, W, D), NEW l, NEW c, \A w \in W : w[1] # l,
         OneMore(W2, W, l, c),
         IsLoc(l), IsFiniteSet(DOMAIN g), DOMAIN f \cup {l} \subseteq DOMAIN g,
         \A w \in W : g[w[1]] = f[w[1]],
         c[1] = "word" => g[l] = c,
         c \in D => g[l] = Addr(c[1], c[2])
  PROVE  WordInv(g, W2, D)
BY DEF WordInv, OneMore

\* A reference to an info table: its location holds the address, or is put
\* on the list of the dummy.
LEMMA InfoReference ==
  ASSUME NEW s, NEW W, NEW D, LinkInv(s, W, D), NEW n, NEW l, IsLoc(l), \A w \in W : w[1] # l,
         NEW W2, OneMore(W2, W, l, <<"info", n>>)
  PROVE  LinkInv(loadInfoTableReference(s, n, l), W2, D)
<1>1. PICK c : c = <<"info", n>>
  OBVIOUS
<1>2. OneMore(W2, W, l, c)
  BY <1>1
<1>3. PICK t : t = loadInfoTableReference(s, n, l)
  OBVIOUS
<1>4. PICK f : f = s.mem
  OBVIOUS
<1>5. PICK it : it = s.itab
  OBVIOUS
<1>6. PICK ct : ct = s.ctab
  OBVIOUS
<1>7. /\ s = [itab |-> it, ctab |-> ct, mem |-> f] /\ WordInv(f, W, D)
      /\ \A x : InfoEntry(it, f, W, D, x)
      /\ \A x : ClosEntry(ct, f, W, D, x)
  BY <1>4, <1>5, <1>6 DEF LinkInv
<1>8. PICK b : b = IF n \notin DOMAIN it THEN Null ELSE IF it[n] # RealTable THEN it[n] ELSE Addr("info", n)
  OBVIOUS
<1>9. PICK g : g = Store(f, l, b)
  OBVIOUS
<1>10. PICK it2 : it2 = IF n \notin DOMAIN it THEN Store(it, n, l)
                        ELSE IF it[n] # RealTable THEN [it EXCEPT ![n] = l] ELSE it
  OBVIOUS
<1>11. t = [itab |-> it2, ctab |-> ct, mem |-> g]
  BY <1>3, <1>7, <1>8, <1>9, <1>10 DEF loadInfoTableReference
<1>12. /\ DOMAIN g = DOMAIN f \cup {l} /\ g[l] = b /\ IsFiniteSet(DOMAIN g)
       /\ \A x \in DOMAIN f : x # l => g[x] = f[x]
  <2>1. IsFiniteSet(DOMAIN f)
    BY <1>7 DEF WordInv
  <2>2. IsFiniteSet(DOMAIN g)
    BY <1>9, <2>1, StoreFinite
  <2>3. DOMAIN g = DOMAIN f \cup {l}
    BY <1>9, StoreDomain
  <2>4. g[l] = b
    BY <1>9, StoreAt
  <2>5. \A x \in DOMAIN f : x # l => g[x] = f[x]
    BY <1>9, StoreElse
  <2> QED BY <2>2, <2>3, <2>5, <2>4
<1>13. /\ RefsIn(W2, c) = RefsIn(W, c) \cup {l}
       /\ \A r : r # c => RefsIn(W2, r) = RefsIn(W, r)
       /\ \A r : l \notin RefsIn(W, r) /\ RefsIn(W, r) \subseteq DOMAIN f
  <2>1. RefsIn(W2, c) = RefsIn(W, c) \cup {l}
    BY <1>2, RefsInSame
  <2>2. \A r : r # c => RefsIn(W2, r) = RefsIn(W, r)
    BY <1>2, RefsInOther
  <2>3. ASSUME NEW r, NEW x \in RefsIn(W, r) PROVE x # l /\ x \in DOMAIN f
    BY <1>7, RefsInMemory
  <2> QED BY <2>1, <2>2, <2>3
<1>14. \A r : \A x \in RefsIn(W, r) : g[x] = f[x]
  BY <1>12, <1>13
<1>15. InfoEntry(it, f, W, D, n)
  BY <1>7
<1>16. WordInv(g, W2, D)
  <2>1. c \in D => b = Addr("info", n)
    BY <1>1, <1>8, <1>15 DEF InfoEntry
  <2>2. c[1] = "info" /\ c[2] = n
    BY <1>1
  <2>3. \A w \in W : g[w[1]] = f[w[1]]
    BY <1>7, <1>12 DEF WordInv
  <2> QED BY <1>7, <1>12, <1>2, <2>1, <2>2, <2>3, MoreWordInv
<1>17. ASSUME NEW x PROVE ClosEntry(ct, g, W2, D, x)
  <2>1. <<"clos", x>> # c
    BY <1>1
  <2>2. RefsIn(W2, <<"clos", x>>) = RefsIn(W, <<"clos", x>>)
    BY <1>13, <2>1
  <2>3. Dummy(x) # l
    BY DEF Dummy, IsLoc
  <2>4. ClosEntry(ct, f, W, D, x) /\ W \subseteq W2
    BY <1>7, <1>2 DEF OneMore
  <2>5. Dummy(x) \in DOMAIN f => Dummy(x) \in DOMAIN g /\ g[Dummy(x)] = f[Dummy(x)]
    BY <1>12, <2>3
  <2>6. \A y \in RefsIn(W, <<"clos", x>>) : g[y] = f[y]
    BY <1>14
  <2> QED BY <2>2, <2>4, <2>5, <2>6, OtherClos
<1>18. ASSUME NEW x, x # n PROVE InfoEntry(it2, g, W2, D, x)
  <2>1. <<"info", x>> # c
    BY <1>1, <1>18
  <2>2. RefsIn(W2, <<"info", x>>) = RefsIn(W, <<"info", x>>)
    BY <1>13, <2>1
  <2>3. (x \in DOMAIN it2 <=> x \in DOMAIN it) /\ (x \in DOMAIN it => it2[x] = it[x])
    <3>1. DOMAIN Store(it, n, l) = DOMAIN it \cup {n}
      BY StoreDomain
    <3>2. x \in DOMAIN it => Store(it, n, l)[x] = it[x]
      BY <1>18, StoreElse
    <3> QED BY <1>10, <1>18, <3>1, <3>2
  <2>4. InfoEntry(it, f, W, D, x)
    BY <1>7
  <2>5. \A y \in RefsIn(W, <<"info", x>>) : g[y] = f[y]
    BY <1>14
  <2> QED BY <2>2, <2>3, <2>4, <2>5, OtherInfo
<1>19. InfoEntry(it2, g, W2, D, n)
  <2>1. CASE c \in D
    <3>1. n \in DOMAIN it /\ it[n] = RealTable
      BY <1>1, <1>15, <2>1 DEF InfoEntry
    <3> QED BY <1>1, <1>10, <2>1, <3>1 DEF InfoEntry
  <2>2. CASE c \notin D /\ RefsIn(W, c) = {}
    <3>1. n \notin DOMAIN it
      BY <1>1, <1>15, <2>2 DEF InfoEntry
    <3>2. it2 = Store(it, n, l) /\ g[l] = Null
      BY <1>8, <1>10, <1>12, <3>1
    <3>3. n \in DOMAIN it2 /\ it2[n] = l
      <4>1. DOMAIN Store(it, n, l) = DOMAIN it \cup {n}
        BY StoreDomain
      <4>2. Store(it, n, l)[n] = l
        BY StoreAt
      <4> QED BY <3>2, <4>1, <4>2
    <3>4. HasList(g, l, {l})
      BY <3>2, ListFirst
    <3>5. RefsIn(W2, c) = {l}
      BY <1>13, <2>2
    <3> QED BY <1>1, <2>2, <3>3, <3>4, <3>5 DEF InfoEntry
  <2>3. CASE c \notin D /\ RefsIn(W, c) # {}
    <3>1. n \in DOMAIN it /\ HasList(f, it[n], RefsIn(W, c))
      BY <1>1, <1>15, <2>3 DEF InfoEntry
    <3>2. it[n] \in RefsIn(W, c)
      BY <3>1, ListHead
    <3>3. IsLoc(it[n])
      BY <1>7, <3>2 DEF RefsIn, WordInv
    <3>4. it[n] # RealTable
      BY <3>3 DEF IsLoc, RealTable
    <3>5. n \in DOMAIN it2 /\ it2[n] = l /\ g[l] = it[n]
      BY <1>8, <1>10, <1>12, <3>1, <3>4
    <3>6. HasList(g, l, RefsIn(W, c) \cup {l})
      BY <1>13, <1>14, <3>1, <3>5, ListAdd
    <3> QED BY <1>1, <1>13, <2>3, <3>5, <3>6 DEF InfoEntry
  <2> QED BY <2>1, <2>2, <2>3
<1> QED
  <2>1. t.itab = it2 /\ t.ctab = ct /\ t.mem = g
    BY <1>11
  <2>2. \A x : InfoEntry(it2, g, W2, D, x)
    BY <1>18, <1>19
  <2>3. LinkInv(t, W2, D)
    BY <1>11, <1>16, <1>17, <2>1, <2>2 DEF LinkInv
  <2> QED BY <1>3, <2>3
\* A reference to a closure.
LEMMA ClosReference ==
  ASSUME NEW s, NEW W, NEW D, LinkInv(s, W, D), NEW n, NEW l, IsLoc(l), \A w \in W : w[1] # l,
         NEW W2, OneMore(W2, W, l, <<"clos", n>>)
  PROVE  LinkInv(loadClosureReference(s, n, l), W2, D)
<1>1. PICK c : c = <<"clos", n>>
  OBVIOUS
<1>2. PICK t : t = loadClosureReference(s, n, l)
  OBVIOUS
<1>3. PICK f : f = s.mem
  OBVIOUS
<1>4. PICK it : it = s.itab
  OBVIOUS
<1>5. PICK ct : ct = s.ctab
  OBVIOUS
<1>6. /\ s = [itab |-> it, ctab |-> ct, mem |-> f] /\ WordInv(f, W, D)
      /\ \A x : InfoEntry(it, f, W, D, x)
      /\ \A x : ClosEntry(ct, f, W, D, x)
  BY <1>3, <1>4, <1>5 DEF LinkInv
<1>7. OneMore(W2, W, l, c)
  BY <1>1
<1>8. /\ RefsIn(W2, c) = RefsIn(W, c) \cup {l}
      /\ \A r : r # c => RefsIn(W2, r) = RefsIn(W, r)
      /\ \A r : l \notin RefsIn(W, r) /\ RefsIn(W, r) \subseteq DOMAIN f
  <2>1. RefsIn(W2, c) = RefsIn(W, c) \cup {l}
    BY <1>7, RefsInSame
  <2>2. \A r : r # c => RefsIn(W2, r) = RefsIn(W, r)
    BY <1>7, RefsInOther
  <2>3. ASSUME NEW r, NEW x \in RefsIn(W, r) PROVE x # l /\ x \in DOMAIN f
    BY <1>6, RefsInMemory
  <2> QED BY <2>1, <2>2, <2>3
<1>9. PICK d : d = Dummy(n)
  OBVIOUS
<1>10. ~ IsLoc(d) /\ d # l
  BY <1>9 DEF Dummy, IsLoc
<1>11. ClosEntry(ct, f, W, D, n) /\ IsFiniteSet(DOMAIN f)
  BY <1>6 DEF WordInv
\* What the three cases have in common.
<1>12. ASSUME NEW g, NEW ct2, t = [itab |-> it, ctab |-> ct2, mem |-> g],
              IsFiniteSet(DOMAIN g), DOMAIN f \cup {l} \subseteq DOMAIN g,
              \A x \in DOMAIN f : x # l /\ x # d => g[x] = f[x],
              \A x : x # n => (x \in DOMAIN ct2 <=> x \in DOMAIN ct) /\ (x \in DOMAIN ct => ct2[x] = ct[x]),
              c \in D => g[l] = Addr("clos", n),
              ClosEntry(ct2, g, W2, D, n)
       PROVE  LinkInv(t, W2, D)
  <2>1. \A w \in W : g[w[1]] = f[w[1]]
    BY <1>6, <1>10, <1>12 DEF WordInv
  <2>2. \A r : \A x \in RefsIn(W, r) : g[x] = f[x]
    <3>1. ASSUME NEW r, NEW x \in RefsIn(W, r) PROVE g[x] = f[x]
      <4>1. x \in DOMAIN f /\ IsLoc(x)
        BY <1>6, RefsInMemory
      <4>2. x # l
        BY <1>8
      <4> QED BY <1>10, <1>12, <4>1, <4>2
    <3> QED BY <3>1
  <2>3. WordInv(g, W2, D)
    <3>1. c[1] = "clos" /\ c[2] = n
      BY <1>1
    <3>2. IsFiniteSet(DOMAIN g) /\ DOMAIN f \cup {l} \subseteq DOMAIN g
      BY <1>12
    <3>3. c \in D => g[l] = Addr(c[1], c[2])
      BY <1>12, <3>1
    <3> QED BY <1>6, <1>7, <2>1, <3>1, <3>2, <3>3, MoreWordInv
  <2>4. ASSUME NEW x PROVE InfoEntry(it, g, W2, D, x)
    <3>1. <<"info", x>> # c
      BY <1>1
    <3>2. RefsIn(W2, <<"info", x>>) = RefsIn(W, <<"info", x>>)
      BY <1>8, <3>1
    <3>3. InfoEntry(it, f, W, D, x)
      BY <1>6
    <3>4. \A y \in RefsIn(W, <<"info", x>>) : g[y] = f[y]
      BY <2>2
    <3> QED BY <3>2, <3>3, <3>4, OtherInfo
  <2>5. ASSUME NEW x, x # n PROVE ClosEntry(ct2, g, W2, D, x)
    <3>1. <<"clos", x>> # c
      BY <1>1, <2>5
    <3>2. RefsIn(W2, <<"clos", x>>) = RefsIn(W, <<"clos", x>>)
      BY <1>8, <3>1
    <3>3. ClosEntry(ct, f, W, D, x) /\ W \subseteq W2
      BY <1>6, <1>7 DEF OneMore
    <3>4. Dummy(x) # l /\ Dummy(x) # d
      BY <1>9, <2>5 DEF Dummy, IsLoc
    <3>5. Dummy(x) \in DOMAIN f => Dummy(x) \in DOMAIN g /\ g[Dummy(x)] = f[Dummy(x)]
      BY <1>12, <3>4
    <3>6. \A y \in RefsIn(W, <<"clos", x>>) : g[y] = f[y]
      BY <2>2
    <3>7. (x \in DOMAIN ct2 <=> x \in DOMAIN ct) /\ (x \in DOMAIN ct => ct2[x] = ct[x])
      BY <1>12, <2>5
    <3> QED BY <3>2, <3>3, <3>5, <3>6, <3>7, OtherClos
  <2>6. \A x : ClosEntry(ct2, g, W2, D, x)
    BY <1>12, <2>5
  <2>7. t.itab = it /\ t.ctab = ct2 /\ t.mem = g
    BY <1>12
  <2> QED BY <1>12, <2>3, <2>4, <2>6, <2>7 DEF LinkInv
<1>13. CASE c \in D
  <2>1. PICK m, i, x : /\ n \in DOMAIN ct /\ ct[n] = <<"real", m, i>>
                       /\ <<Loc(m, i, 0), <<"info", x>>>> \in W
                       /\ <<"info", x>> \in D
    BY <1>1, <1>11, <1>13 DEF ClosEntry
  <2>2. PICK w : w = <<Loc(m, i, 0), <<"info", x>>>>
    OBVIOUS
  <2>3. w \in W /\ w[1] = Loc(m, i, 0) /\ w[2] = <<"info", x>> /\ w[2][1] = "info" /\ w[2] \in D
    BY <2>1, <2>2
  <2>4. f[Loc(m, i, 0)] = Addr("info", w[2][2])
    BY <1>6, <2>3 DEF WordInv
  <2>5. Info(s, ct[n]) # Null
    <3>1. ct[n][1] = "real" /\ ct[n][2] = m /\ ct[n][3] = i
      BY <2>1
    <3>2. Info(s, ct[n]) = f[Loc(m, i, 0)]
      BY <1>3, <3>1 DEF Info
    <3> QED BY <2>4, <3>2 DEF Addr, Null
  <2>6. PICK g : g = Store(f, l, Addr("clos", n))
    OBVIOUS
  <2>7. t = [itab |-> it, ctab |-> ct, mem |-> g]
    BY <1>2, <1>6, <2>1, <2>5, <2>6 DEF loadClosureReference
  <2>8. DOMAIN g = DOMAIN f \cup {l}
    BY <2>6, StoreDomain
  <2>9. g[l] = Addr("clos", n)
    BY <2>6, StoreAt
  <2>10. \A x1 \in DOMAIN f : x1 # l => g[x1] = f[x1]
    BY <2>6, StoreElse
  <2>11. IsFiniteSet(DOMAIN g)
    BY <1>11, <2>6, StoreFinite
  <2>12. ClosEntry(ct, g, W2, D, n)
    <3>1. W \subseteq W2
      BY <1>7 DEF OneMore
    <3>2. <<Loc(m, i, 0), <<"info", x>>>> \in W2
      BY <2>1, <3>1
    <3> QED BY <1>1, <1>13, <2>1, <3>2 DEF ClosEntry
  <2>13. LinkInv(t, W2, D)
    BY <1>12, <2>7, <2>8, <2>9, <2>10, <2>11, <2>12
  <2> QED BY <1>2, <2>13
<1>14. CASE c \notin D /\ RefsIn(W, c) = {}
  <2>1. n \notin DOMAIN ct
    BY <1>1, <1>11, <1>14 DEF ClosEntry
  <2>2. PICK e : e = Store(f, d, l)
    OBVIOUS
  <2>3. PICK g : g = Store(e, l, Null)
    OBVIOUS
  <2>4. PICK ct2 : ct2 = Store(ct, n, d)
    OBVIOUS
  <2>5. t = [itab |-> it, ctab |-> ct2, mem |-> g]
    BY <1>2, <1>6, <1>9, <2>1, <2>2, <2>3, <2>4 DEF loadClosureReference
  <2>6. DOMAIN e = DOMAIN f \cup {d} /\ DOMAIN g = DOMAIN e \cup {l}
    BY <2>2, <2>3, StoreDomain
  <2>7. e[d] = l /\ g[l] = Null
    BY <2>2, <2>3, StoreAt
  <2>8. \A x \in DOMAIN e : x # l => g[x] = e[x]
    BY <2>3, StoreElse
  <2>9. \A x \in DOMAIN f : x # d => e[x] = f[x]
    BY <2>2, StoreElse
  <2>10. IsFiniteSet(DOMAIN g)
    BY <1>11, <2>2, <2>3, StoreFinite
  <2>11. g[d] = l /\ d \in DOMAIN g
    BY <1>10, <2>6, <2>7, <2>8
  <2>12. DOMAIN ct2 = DOMAIN ct \cup {n}
    BY <2>4, StoreDomain
  <2>13. ct2[n] = d
    BY <2>4, StoreAt
  <2>14. \A x \in DOMAIN ct : x # n => ct2[x] = ct[x]
    BY <2>4, StoreElse
  <2>15. ClosEntry(ct2, g, W2, D, n)
    <3>1. HasList(g, l, {l})
      BY <2>7, ListFirst
    <3>2. RefsIn(W2, c) = {l}
      BY <1>8, <1>14
    <3> QED BY <1>1, <1>9, <1>14, <2>11, <2>12, <2>13, <3>1, <3>2 DEF ClosEntry
  <2>16. \A x \in DOMAIN f : x # l /\ x # d => g[x] = f[x]
    BY <2>6, <2>8, <2>9
  <2>17. \A x : x # n => (x \in DOMAIN ct2 <=> x \in DOMAIN ct) /\ (x \in DOMAIN ct => ct2[x] = ct[x])
    BY <2>12, <2>14
  <2>18. DOMAIN f \cup {l} \subseteq DOMAIN g
    BY <2>6
  <2>19. LinkInv(t, W2, D)
    BY <1>12, <1>14, <2>5, <2>10, <2>15, <2>16, <2>17, <2>18
  <2> QED BY <1>2, <2>19
<1>15. CASE c \notin D /\ RefsIn(W, c) # {}
  <2>1. n \in DOMAIN ct /\ ct[n] = d /\ d \in DOMAIN f /\ HasList(f, f[d], RefsIn(W, c))
    BY <1>1, <1>9, <1>11, <1>15 DEF ClosEntry
  <2>2. Info(s, ct[n]) = Null /\ Payload0(ct[n]) = d
    <3>1. ct[n][1] = "dummy"
      BY <1>9, <2>1 DEF Dummy
    <3> QED BY <2>1, <3>1 DEF Info, Payload0
  <2>3. PICK e : e = Store(f, l, f[d])
    OBVIOUS
  <2>4. PICK g : g = Store(e, d, l)
    OBVIOUS
  <2>5. t = [itab |-> it, ctab |-> ct, mem |-> g]
    BY <1>2, <1>3, <1>6, <2>1, <2>2, <2>3, <2>4 DEF loadClosureReference
  <2>6. DOMAIN e = DOMAIN f \cup {l} /\ DOMAIN g = DOMAIN e \cup {d}
    BY <2>3, <2>4, StoreDomain
  <2>7. e[l] = f[d] /\ g[d] = l
    BY <2>3, <2>4, StoreAt
  <2>8. \A x \in DOMAIN e : x # d => g[x] = e[x]
    BY <2>4, StoreElse
  <2>9. \A x \in DOMAIN f : x # l => e[x] = f[x]
    BY <2>3, StoreElse
  <2>10. IsFiniteSet(DOMAIN g)
    BY <1>11, <2>3, <2>4, StoreFinite
  <2>11. g[l] = f[d]
    BY <1>10, <2>6, <2>7, <2>8
  <2>12. \A x \in DOMAIN f : x # l /\ x # d => g[x] = f[x]
    BY <2>6, <2>8, <2>9
  <2>13. \A x \in RefsIn(W, c) : g[x] = f[x]
    <3>1. ASSUME NEW x \in RefsIn(W, c) PROVE g[x] = f[x]
      <4>1. x \in DOMAIN f /\ IsLoc(x)
        BY <1>6, RefsInMemory
      <4>2. x # l
        BY <1>8
      <4> QED BY <1>10, <2>12, <4>1, <4>2
    <3> QED BY <3>1
  <2>14. HasList(g, l, RefsIn(W2, c))
    <3>1. HasList(g, l, RefsIn(W, c) \cup {l})
      BY <1>8, <2>1, <2>11, <2>13, ListAdd
    <3> QED BY <1>8, <3>1
  <2>15. ClosEntry(ct, g, W2, D, n)
    BY <1>1, <1>9, <1>15, <2>1, <2>6, <2>7, <1>8, <2>14 DEF ClosEntry
  <2>16. DOMAIN f \cup {l} \subseteq DOMAIN g
    BY <2>6
  <2>17. LinkInv(t, W2, D)
    BY <1>12, <1>15, <2>5, <2>10, <2>12, <2>15, <2>16
  <2> QED BY <1>2, <2>17
<1> QED BY <1>13, <1>14, <1>15

\* A word of data.
LEMMA DataWord ==
  ASSUME NEW s, NEW W, NEW D, LinkInv(s, W, D), NEW c, NEW l, IsLoc(l), \A w \in W : w[1] # l,
         c[1] = "word", c \notin D,
         NEW W2, OneMore(W2, W, l, c)
  PROVE  LinkInv([s EXCEPT !.mem = Store(s.mem, l, c)], W2, D)
<1>1. PICK t : t = [s EXCEPT !.mem = Store(s.mem, l, c)]
  OBVIOUS
<1>2. PICK f : f = s.mem
  OBVIOUS
<1>3. PICK it : it = s.itab
  OBVIOUS
<1>4. PICK ct : ct = s.ctab
  OBVIOUS
<1>5. /\ s = [itab |-> it, ctab |-> ct, mem |-> f] /\ WordInv(f, W, D)
      /\ \A x : InfoEntry(it, f, W, D, x)
      /\ \A x : ClosEntry(ct, f, W, D, x)
  BY <1>2, <1>3, <1>4 DEF LinkInv
<1>6. \A r : r # c => RefsIn(W2, r) = RefsIn(W, r)
  BY RefsInOther
<1>7. PICK g : g = Store(f, l, c)
  OBVIOUS
<1>8. t = [itab |-> it, ctab |-> ct, mem |-> g]
  BY <1>1, <1>2, <1>5, <1>7
<1>9. DOMAIN g = DOMAIN f \cup {l}
  BY <1>7, StoreDomain
<1>10. g[l] = c
  BY <1>7, StoreAt
<1>11. \A x \in DOMAIN f : x # l => g[x] = f[x]
  BY <1>7, StoreElse
<1>12. IsFiniteSet(DOMAIN g)
  <2>1. IsFiniteSet(DOMAIN f)
    BY <1>5 DEF WordInv
  <2> QED BY <1>7, <2>1, StoreFinite
<1>13. \A w \in W : g[w[1]] = f[w[1]]
  BY <1>5, <1>11 DEF WordInv
<1>14. WordInv(g, W2, D)
  <2>1. DOMAIN f \cup {l} \subseteq DOMAIN g
    BY <1>9
  <2> QED BY <1>5, <1>10, <1>12, <1>13, <2>1, MoreWordInv
<1>15. \A r : \A x \in RefsIn(W, r) : g[x] = f[x]
  <2>1. ASSUME NEW r, NEW x \in RefsIn(W, r) PROVE g[x] = f[x]
    <3>1. \E w \in W : w[1] = x
      BY <1>5, RefsInMemory
    <3> QED BY <1>13, <3>1
  <2> QED BY <2>1
<1>16. ASSUME NEW x PROVE InfoEntry(it, g, W2, D, x)
  <2>1. <<"info", x>> # c
    OBVIOUS
  <2>2. RefsIn(W2, <<"info", x>>) = RefsIn(W, <<"info", x>>)
    BY <1>6, <2>1
  <2>3. InfoEntry(it, f, W, D, x)
    BY <1>5
  <2>4. \A y \in RefsIn(W, <<"info", x>>) : g[y] = f[y]
    BY <1>15
  <2> QED BY <2>2, <2>3, <2>4, OtherInfo
<1>17. ASSUME NEW x PROVE ClosEntry(ct, g, W2, D, x)
  <2>1. <<"clos", x>> # c
    OBVIOUS
  <2>2. RefsIn(W2, <<"clos", x>>) = RefsIn(W, <<"clos", x>>)
    BY <1>6, <2>1
  <2>3. ClosEntry(ct, f, W, D, x) /\ W \subseteq W2
    BY <1>5 DEF OneMore
  <2>4. \A y \in RefsIn(W, <<"clos", x>>) : g[y] = f[y]
    BY <1>15
  <2>5. Dummy(x) # l
    BY DEF Dummy, IsLoc
  <2>6. Dummy(x) \in DOMAIN f => Dummy(x) \in DOMAIN g /\ g[Dummy(x)] = f[Dummy(x)]
    BY <1>9, <1>11, <2>5
  <2> QED BY <2>2, <2>3, <2>4, <2>6, OtherClos
<1>18. t.itab = it /\ t.ctab = ct /\ t.mem = g
  BY <1>8
<1>19. LinkInv(t, W2, D)
  BY <1>8, <1>14, <1>16, <1>17, <1>18 DEF LinkInv
<1> QED BY <1>1, <1>19

\* A reference or a word of data: a pair, and no name is one of data.
IsRef(r, D) ==
  /\ r = <<r[1], r[2]>>
  /\ r[1] \in {"info", "clos", "word"}
  /\ r[1] = "word" => r \notin D

\* A literal, or a word of the payload.
LEMMA LiteralLoaded ==
  ASSUME NEW s, NEW W, NEW D, LinkInv(s, W, D), NEW r, IsRef(r, D), NEW l, IsLoc(l),
         \A w \in W : w[1] # l, NEW W2, OneMore(W2, W, l, r)
  PROVE  LinkInv(loadLiteral(s, r, l), W2, D)
<1>1. CASE r[1] = "info"
  <2>1. PICK n : n = r[2]
    OBVIOUS
  <2>2. r = <<"info", n>>
    BY <1>1, <2>1 DEF IsRef
  <2>3. OneMore(W2, W, l, <<"info", n>>)
    BY <2>2
  <2>4. LinkInv(loadInfoTableReference(s, n, l), W2, D)
    BY <2>3, InfoReference
  <2>5. loadLiteral(s, r, l) = loadInfoTableReference(s, n, l)
    BY <1>1, <2>1 DEF loadLiteral
  <2> QED BY <2>4, <2>5
<1>2. CASE r[1] = "clos"
  <2>1. PICK n : n = r[2]
    OBVIOUS
  <2>2. r = <<"clos", n>>
    BY <1>2, <2>1 DEF IsRef
  <2>3. OneMore(W2, W, l, <<"clos", n>>)
    BY <2>2
  <2>4. LinkInv(loadClosureReference(s, n, l), W2, D)
    BY <2>3, ClosReference
  <2>5. loadLiteral(s, r, l) = loadClosureReference(s, n, l)
    BY <1>2, <2>1 DEF loadLiteral
  <2> QED BY <2>4, <2>5
<1>3. CASE r[1] = "word"
  <2>1. LinkInv([s EXCEPT !.mem = Store(s.mem, l, r)], W2, D)
    BY <1>3, DataWord DEF IsRef
  <2>2. loadLiteral(s, r, l) = [s EXCEPT !.mem = Store(s.mem, l, r)]
    BY <1>3 DEF loadLiteral
  <2> QED BY <2>1, <2>2
<1> QED BY <1>1, <1>2, <1>3 DEF IsRef

\* The words of the references of an item up to number j.
RefWords(m, i, refs, j) == {<<Loc(m, i, x), refs[x]>> : x \in 1..j}

\* The recursive function of loadRefs.
LEMMA RefRounds ==
  ASSUME NEW s, NEW m, NEW i, NEW L \in Nat, Len(Item(m, i).refs) = L
  PROVE  \E u : /\ u[0] = s
                /\ \A j \in 1..L : u[j] = loadLiteral(u[j - 1], Item(m, i).refs[j], Loc(m, i, j))
                /\ loadRefs(s, m, i) = u[L]
<1> DEFINE Step(t, j) == loadLiteral(t, Item(m, i).refs[j], Loc(m, i, j))
           F(f, n) == f = [j \in 0..n |-> IF j = 0 THEN s ELSE Step(f[j - 1], j)]
           T == {n \in Nat : \E f : F(f, n)}
<1>1. 0 \in T
  <2> HIDE DEF Step
  <2>1. PICK f : f = [j \in 0..0 |-> s]
    OBVIOUS
  <2>2. f = [j \in 0..0 |-> IF j = 0 THEN s ELSE Step(f[j - 1], j)]
    BY <2>1
  <2> QED BY <2>2
<1>2. ASSUME NEW n \in T PROVE n + 1 \in T
  <2> HIDE DEF Step
  <2>1. PICK f : F(f, n)
    OBVIOUS
  <2>2. PICK g : g = [j \in 0..(n + 1) |-> IF j = n + 1 THEN Step(f[n], n + 1) ELSE f[j]]
    OBVIOUS
  <2>3. ASSUME NEW j \in 0..(n + 1)
        PROVE  g[j] = IF j = 0 THEN s ELSE Step(g[j - 1], j)
    <3>1. CASE j = n + 1
      <4>1. j - 1 = n /\ n \in 0..(n + 1) /\ n # n + 1
        BY <3>1
      <4>2. g[n] = f[n] /\ g[j] = Step(f[n], j) /\ j # 0
        BY <2>2, <3>1, <4>1
      <4> QED BY <4>1, <4>2
    <3>2. CASE j # n + 1 /\ j # 0
      <4>1. j \in 0..n /\ j - 1 \in 0..n /\ j - 1 # n + 1 /\ j - 1 \in 0..(n + 1)
        BY <3>2
      <4>2. f[j] = Step(f[j - 1], j)
        BY <2>1, <3>2, <4>1
      <4>3. g[j - 1] = f[j - 1] /\ g[j] = f[j]
        BY <2>2, <3>2, <4>1
      <4> QED BY <3>2, <4>2, <4>3
    <3>3. CASE j = 0
      <4>1. 0 \in 0..n /\ j # n + 1
        BY <3>3
      <4>2. f[0] = s
        BY <2>1, <4>1
      <4> QED BY <2>2, <3>3, <4>1, <4>2
    <3> QED BY <3>1, <3>2, <3>3
  <2>4. F(g, n + 1)
    <3>1. g = [j \in 0..(n + 1) |-> g[j]]
      BY <2>2
    <3> QED BY <2>3, <3>1
  <2> QED BY <2>4
<1>3. T = Nat
  <2> HIDE DEF T
  <2>1. T \in SUBSET Nat
    BY DEF T
  <2> QED BY <1>1, <1>2, <2>1, SetInduction
<1>4. \E f : F(f, L)
  BY <1>3
<1>5. PICK u : u = CHOOSE f : F(f, L)
  OBVIOUS
<1>6. F(u, L)
  BY <1>4, <1>5
<1>7. loadRefs(s, m, i) = u[L]
  BY <1>5 DEF loadRefs
<1>8. u[0] = s
  BY <1>6
<1>9. \A j \in 1..L : u[j] = Step(u[j - 1], j)
  <2> HIDE DEF Step
  <2> QED BY <1>6
<1> QED BY <1>7, <1>8, <1>9

\* All references of an item.
LEMMA RefsLoaded ==
  ASSUME NEW s, NEW W, NEW D, LinkInv(s, W, D), NEW m, NEW i, NEW refs, Item(m, i).refs = refs,
         NEW L \in Nat, Len(refs) = L,
         \A j \in 1..L : IsRef(refs[j], D),
         \A w \in W : \A j \in 1..L : w[1] # Loc(m, i, j),
         NEW V, V = W \cup RefWords(m, i, refs, L)
  PROVE  LinkInv(loadRefs(s, m, i), V, D)
<1>1. PICK u : /\ u[0] = s
               /\ \A j \in 1..L : u[j] = loadLiteral(u[j - 1], refs[j], Loc(m, i, j))
               /\ loadRefs(s, m, i) = u[L]
  BY RefRounds
<1>2. PICK X : X = [j \in 0..L |-> W \cup RefWords(m, i, refs, j)]
  OBVIOUS
<1> DEFINE T == {j \in Nat : j <= L => LinkInv(u[j], X[j], D)}
<1>3. 0 \in T
  <2>1. X[0] = W
    BY <1>2 DEF RefWords
  <2> QED BY <1>1, <2>1
<1>4. ASSUME NEW j \in T PROVE j + 1 \in T
  <2> SUFFICES ASSUME j + 1 <= L PROVE LinkInv(u[j + 1], X[j + 1], D)
    OBVIOUS
  <2>1. PICK k : k = j + 1
    OBVIOUS
  <2>2. k \in 1..L /\ k - 1 = j /\ j \in 0..L /\ k \in 0..L
    BY <2>1
  <2>3. PICK l : l = Loc(m, i, k)
    OBVIOUS
  <2>4. u[k] = loadLiteral(u[j], refs[k], l)
    BY <1>1, <2>2, <2>3
  <2>5. IsLoc(l)
    BY <2>3 DEF IsLoc, Loc
  <2>6. \A w \in X[j] : w[1] # l
    <3>1. ASSUME NEW x \in 1..j PROVE <<Loc(m, i, x), refs[x]>>[1] # l
      <4>1. x # k
        BY <2>2
      <4> QED BY <2>3, <4>1 DEF Loc
    <3>2. X[j] = W \cup RefWords(m, i, refs, j)
      BY <1>2, <2>2
    <3>3. \A w \in W : w[1] # l
      BY <2>2, <2>3
    <3> QED BY <3>1, <3>2, <3>3 DEF RefWords
  <2>7. OneMore(X[k], X[j], l, refs[k])
    <3>1. RefWords(m, i, refs, k) = RefWords(m, i, refs, j) \cup {<<l, refs[k]>>}
      <4>1. \A x \in 1..k : x \in 1..j \/ x = k
        BY <2>1, <2>2
      <4>2. \A x \in 1..j : x \in 1..k
        BY <2>2
      <4> QED BY <2>2, <2>3, <4>1, <4>2 DEF RefWords
    <3>2. X[j] = W \cup RefWords(m, i, refs, j) /\ X[k] = W \cup RefWords(m, i, refs, k)
      BY <1>2, <2>2
    <3> QED BY <3>1, <3>2 DEF OneMore
  <2>8. LinkInv(u[j], X[j], D)
    BY <2>2
  <2>9. IsRef(refs[k], D)
    BY <2>2
  <2>10. LinkInv(loadLiteral(u[j], refs[k], l), X[k], D)
    BY <2>5, <2>6, <2>7, <2>8, <2>9, LiteralLoaded
  <2> QED BY <2>1, <2>4, <2>10
<1>5. T = Nat
  <2> HIDE DEF T
  <2>1. T \in SUBSET Nat
    BY DEF T
  <2> QED BY <1>3, <1>4, <2>1, SetInduction
<1>6. LinkInv(u[L], X[L], D)
  BY <1>5
<1>7. X[L] = V
  BY <1>2
<1> QED BY <1>1, <1>6, <1>7

\* D2 has the names of D and one more.
OneName(D2, D, c) == D2 = D \cup {c}

\* The locations of other names are not those of c.
LEMMA RefsInApart ==
  ASSUME NEW f, NEW W, NEW D, WordInv(f, W, D), NEW r, NEW c, r # c, NEW x \in RefsIn(W, r)
  PROVE  x \notin RefsIn(W, c)
BY RefsInMember DEF WordInv

\* The words once those with content c have its address.
LEMMA FixedWords ==
  ASSUME NEW f, NEW g, NEW W, NEW D, NEW D2, NEW c, WordInv(f, W, D), OneName(D2, D, c), c[1] # "word",
         IsFiniteSet(DOMAIN g),
         \A w \in W : w[1] \in DOMAIN g,
         \A x \in RefsIn(W, c) : g[x] = Addr(c[1], c[2]),
         \A w \in W : w[1] \notin RefsIn(W, c) => g[w[1]] = f[w[1]]
  PROVE  WordInv(g, W, D2)
<1>1. \A w \in W : w[1] \in RefsIn(W, c) <=> w[2] = c
  BY RefsInMember DEF WordInv
<1>2. \A w \in W : w[2][1] = "word" => g[w[1]] = w[2]
  BY <1>1 DEF WordInv
<1>3. \A w \in W : w[2] \in D2 => g[w[1]] = Addr(w[2][1], w[2][2])
  BY <1>1 DEF WordInv, OneName
<1> QED BY <1>2, <1>3 DEF WordInv

\* An info table is loaded, after the literals of its code.
LEMMA InfoFixed ==
  ASSUME NEW s, NEW W, NEW D, LinkInv(s, W, D), NEW n, <<"info", n>> \notin D,
         NEW D2, OneName(D2, D, <<"info", n>>),
         NEW t, t = fixInfoTableForwardReference(s, n)
  PROVE  LinkInv([t EXCEPT !.itab = Store(t.itab, n, RealTable)], W, D2)
<1>1. PICK c : c = <<"info", n>>
  OBVIOUS
<1>2. PICK v : v = [t EXCEPT !.itab = Store(t.itab, n, RealTable)]
  OBVIOUS
<1>3. PICK f : f = s.mem
  OBVIOUS
<1>4. PICK it : it = s.itab
  OBVIOUS
<1>5. PICK ct : ct = s.ctab
  OBVIOUS
<1>6. /\ s = [itab |-> it, ctab |-> ct, mem |-> f] /\ WordInv(f, W, D)
      /\ \A x : InfoEntry(it, f, W, D, x)
      /\ \A x : ClosEntry(ct, f, W, D, x)
  BY <1>3, <1>4, <1>5 DEF LinkInv
<1>7. PICK R : R = RefsIn(W, c)
  OBVIOUS
<1>8. InfoEntry(it, f, W, D, n) /\ IsFiniteSet(DOMAIN f)
  BY <1>6 DEF WordInv
<1>9. \E g : /\ t = [itab |-> it, ctab |-> ct, mem |-> g]
             /\ DOMAIN g = DOMAIN f
             /\ \A x \in R : g[x] = Addr("info", n)
             /\ \A x \in DOMAIN f : x \notin R => g[x] = f[x]
  <2>1. CASE R = {}
    <3>1. n \notin DOMAIN it
      BY <1>1, <1>7, <1>8, <2>1 DEF InfoEntry
    <3>2. t = s
      BY <1>4, <3>1 DEF fixInfoTableForwardReference
    <3> QED BY <1>6, <2>1, <3>2
  <2>2. CASE R # {}
    <3>1. n \in DOMAIN it /\ HasList(f, it[n], R)
      BY <1>1, <1>7, <1>8, <2>2 DEF InfoEntry
    <3>2. \A x \in R : x \in DOMAIN f /\ IsLoc(x)
      BY <1>6, <1>7, RefsInMemory
    <3>3. Linked(s, it[n]) = R
      BY <1>3, <1>8, <3>1, <3>2, ListLinked
    <3>4. PICK a : a = Addr("info", n)
      OBVIOUS
    <3>5. PICK g : g = [l \in DOMAIN f |-> IF l \in R THEN a ELSE f[l]]
      OBVIOUS
    <3>6. t = Fix(s, it[n], a)
      BY <1>4, <3>1, <3>4 DEF fixInfoTableForwardReference
    <3>7. t = [s EXCEPT !.mem = g]
      BY <1>3, <3>3, <3>5, <3>6 DEF Fix
    <3>8. t = [itab |-> it, ctab |-> ct, mem |-> g]
      BY <1>6, <3>7
    <3>9. DOMAIN g = DOMAIN f /\ \A x \in DOMAIN f : g[x] = IF x \in R THEN a ELSE f[x]
      BY <3>5
    <3> QED BY <3>2, <3>4, <3>8, <3>9
  <2> QED BY <2>1, <2>2
<1>10. PICK g : /\ t = [itab |-> it, ctab |-> ct, mem |-> g]
                /\ DOMAIN g = DOMAIN f
                /\ \A x \in R : g[x] = Addr("info", n)
                /\ \A x \in DOMAIN f : x \notin R => g[x] = f[x]
  BY <1>9
<1>11. PICK it2 : it2 = Store(it, n, RealTable)
  OBVIOUS
<1>12. v = [itab |-> it2, ctab |-> ct, mem |-> g]
  BY <1>2, <1>10, <1>11
<1>13. DOMAIN it2 = DOMAIN it \cup {n}
  BY <1>11, StoreDomain
<1>14. it2[n] = RealTable
  BY <1>11, StoreAt
<1>15. \A x \in DOMAIN it : x # n => it2[x] = it[x]
  BY <1>11, StoreElse
<1>16. OneName(D2, D, c) /\ c[1] = "info" /\ c[2] = n
  BY <1>1
<1>17. WordInv(g, W, D2)
  <2>1. IsFiniteSet(DOMAIN g)
    BY <1>8, <1>10
  <2>2. \A w \in W : w[1] \in DOMAIN g /\ w[1] \in DOMAIN f
    BY <1>6, <1>10 DEF WordInv
  <2>3. \A x \in RefsIn(W, c) : g[x] = Addr(c[1], c[2])
    BY <1>7, <1>10, <1>16
  <2>4. \A w \in W : w[1] \notin RefsIn(W, c) => g[w[1]] = f[w[1]]
    BY <1>7, <1>10, <2>2
  <2> QED BY <1>6, <1>16, <2>1, <2>2, <2>3, <2>4, FixedWords
<1>18. ASSUME NEW r, r # c PROVE \A x \in RefsIn(W, r) : g[x] = f[x]
  <2>1. ASSUME NEW x \in RefsIn(W, r) PROVE g[x] = f[x]
    <3>1. x \in DOMAIN f
      BY <1>6, RefsInMemory
    <3>2. x \notin RefsIn(W, c)
      BY <1>6, <1>18, RefsInApart
    <3> QED BY <1>7, <1>10, <3>1, <3>2
  <2> QED BY <2>1
<1>19. ASSUME NEW x PROVE InfoEntry(it2, g, W, D2, x)
  <2>1. CASE x = n
    BY <1>1, <1>13, <1>14, <1>16, <2>1 DEF InfoEntry, OneName
  <2>2. CASE x # n
    <3>1. <<"info", x>> # c
      BY <1>1, <2>2
    <3>2. InfoEntry(it, f, W, D, x)
      BY <1>6
    <3>3. <<"info", x>> \in D2 <=> <<"info", x>> \in D
      BY <1>16, <3>1 DEF OneName
    <3>4. \A y \in RefsIn(W, <<"info", x>>) : g[y] = f[y]
      BY <1>18, <3>1
    <3>5. (x \in DOMAIN it2 <=> x \in DOMAIN it) /\ (x \in DOMAIN it => it2[x] = it[x])
      BY <1>13, <1>15, <2>2
    <3> QED BY <3>2, <3>3, <3>4, <3>5, OtherInfo
  <2> QED BY <2>1, <2>2
<1>20. ASSUME NEW x PROVE ClosEntry(ct, g, W, D2, x)
  <2>1. <<"clos", x>> # c
    BY <1>1
  <2>2. ClosEntry(ct, f, W, D, x)
    BY <1>6
  <2>3. (<<"clos", x>> \in D2 <=> <<"clos", x>> \in D) /\ D \subseteq D2
    BY <1>16, <2>1 DEF OneName
  <2>4. \A y \in RefsIn(W, <<"clos", x>>) : g[y] = f[y]
    BY <1>18, <2>1
  <2>5. Dummy(x) \in DOMAIN f => Dummy(x) \in DOMAIN g /\ g[Dummy(x)] = f[Dummy(x)]
    <3>1. Dummy(x) \notin R
      <4>1. ~ IsLoc(Dummy(x))
        BY DEF IsLoc, Dummy
      <4> QED BY <1>6, <1>7, <4>1, RefsInMemory
    <3> QED BY <1>10, <3>1
  <2> QED BY <2>2, <2>3, <2>4, <2>5, OtherClos
<1>21. v.itab = it2 /\ v.ctab = ct /\ v.mem = g
  BY <1>12
<1>22. LinkInv(v, W, D2)
  BY <1>12, <1>17, <1>19, <1>20, <1>21 DEF LinkInv
<1> QED BY <1>2, <1>22

\* A closure is loaded, after its info_ and its payload.
LEMMA ClosFixed ==
  ASSUME NEW s, NEW W, NEW D, LinkInv(s, W, D), NEW n, <<"clos", n>> \notin D,
         NEW D2, OneName(D2, D, <<"clos", n>>),
         NEW t, t = fixClosureForwardReference(s, n),
         NEW m, NEW i, NEW z, <<Loc(m, i, 0), <<"info", z>>>> \in W, <<"info", z>> \in D
  PROVE  LinkInv([t EXCEPT !.ctab = Store(t.ctab, n, <<"real", m, i>>)], W, D2)
<1>1. PICK c : c = <<"clos", n>>
  OBVIOUS
<1>2. PICK v : v = [t EXCEPT !.ctab = Store(t.ctab, n, <<"real", m, i>>)]
  OBVIOUS
<1>3. PICK f : f = s.mem
  OBVIOUS
<1>4. PICK it : it = s.itab
  OBVIOUS
<1>5. PICK ct : ct = s.ctab
  OBVIOUS
<1>6. /\ s = [itab |-> it, ctab |-> ct, mem |-> f] /\ WordInv(f, W, D)
      /\ \A x : InfoEntry(it, f, W, D, x)
      /\ \A x : ClosEntry(ct, f, W, D, x)
  BY <1>3, <1>4, <1>5 DEF LinkInv
<1>7. PICK R : R = RefsIn(W, c)
  OBVIOUS
<1>8. ClosEntry(ct, f, W, D, n) /\ IsFiniteSet(DOMAIN f)
  BY <1>6 DEF WordInv
<1>9. PICK d : d = Dummy(n)
  OBVIOUS
<1>10. \A x : IsLoc(x) => x # d
  BY <1>9 DEF Dummy, IsLoc
<1>11. \A x \in R : x \in DOMAIN f /\ IsLoc(x)
  BY <1>6, <1>7, RefsInMemory
<1>12. \E g : /\ t = [itab |-> it, ctab |-> ct, mem |-> g]
              /\ DOMAIN g \subseteq DOMAIN f /\ DOMAIN f \subseteq DOMAIN g \cup {d}
              /\ \A x \in R : g[x] = Addr("clos", n)
              /\ \A x \in DOMAIN f : x \notin R /\ x # d => g[x] = f[x]
  <2>1. CASE R = {}
    <3>1. n \notin DOMAIN ct
      BY <1>1, <1>7, <1>8, <2>1 DEF ClosEntry
    <3>2. t = s
      BY <1>5, <3>1 DEF fixClosureForwardReference
    <3> QED BY <1>6, <2>1, <3>2
  <2>2. CASE R # {}
    <3>1. n \in DOMAIN ct /\ ct[n] = d /\ HasList(f, f[d], R)
      BY <1>1, <1>7, <1>8, <1>9, <2>2 DEF ClosEntry
    <3>2. Payload0(ct[n]) = d
      BY <1>9, <3>1 DEF Payload0, Dummy
    <3>3. Linked(s, f[d]) = R
      BY <1>3, <1>8, <1>11, <3>1, ListLinked
    <3>4. PICK a : a = Addr("clos", n)
      OBVIOUS
    <3>5. PICK e : e = [l \in DOMAIN f |-> IF l \in R THEN a ELSE f[l]]
      OBVIOUS
    <3>6. PICK y : y = Fix(s, f[d], a)
      OBVIOUS
    <3>7. y = [s EXCEPT !.mem = e]
      BY <1>3, <3>3, <3>5, <3>6 DEF Fix
    <3>8. y = [itab |-> it, ctab |-> ct, mem |-> e]
      BY <1>6, <3>7
    <3>9. PICK g : g = [l \in DOMAIN e \ {d} |-> e[l]]
      OBVIOUS
    <3>10. t = [y EXCEPT !.mem = [l \in DOMAIN y.mem \ {d} |-> y.mem[l]]]
      BY <1>3, <1>5, <1>9, <3>1, <3>2, <3>4, <3>6 DEF fixClosureForwardReference
    <3>11. t = [itab |-> it, ctab |-> ct, mem |-> g]
      BY <3>8, <3>9, <3>10
    <3>12. DOMAIN g = DOMAIN f \ {d}
      BY <3>5, <3>9
    <3>13. \A x \in DOMAIN f : x # d => g[x] = IF x \in R THEN a ELSE f[x]
      BY <3>5, <3>9
    <3>14. \A x \in R : x # d /\ x \in DOMAIN f
      BY <1>10, <1>11
    <3> QED BY <3>4, <3>11, <3>12, <3>13, <3>14
  <2> QED BY <2>1, <2>2
<1>13. PICK g : /\ t = [itab |-> it, ctab |-> ct, mem |-> g]
                /\ DOMAIN g \subseteq DOMAIN f /\ DOMAIN f \subseteq DOMAIN g \cup {d}
                /\ \A x \in R : g[x] = Addr("clos", n)
                /\ \A x \in DOMAIN f : x \notin R /\ x # d => g[x] = f[x]
  BY <1>12
<1>14. PICK ct2 : ct2 = Store(ct, n, <<"real", m, i>>)
  OBVIOUS
<1>15. v = [itab |-> it, ctab |-> ct2, mem |-> g]
  BY <1>2, <1>13, <1>14
<1>16. DOMAIN ct2 = DOMAIN ct \cup {n}
  BY <1>14, StoreDomain
<1>17. ct2[n] = <<"real", m, i>>
  BY <1>14, StoreAt
<1>18. \A x \in DOMAIN ct : x # n => ct2[x] = ct[x]
  BY <1>14, StoreElse
<1>19. OneName(D2, D, c) /\ c[1] = "clos" /\ c[2] = n
  BY <1>1
<1>20. WordInv(g, W, D2)
  <2>1. IsFiniteSet(DOMAIN g)
    BY <1>8, <1>13, FS_Subset
  <2>2. \A w \in W : w[1] \in DOMAIN g /\ w[1] \in DOMAIN f /\ w[1] # d
    BY <1>6, <1>13, <1>10 DEF WordInv
  <2>3. \A x \in RefsIn(W, c) : g[x] = Addr(c[1], c[2])
    BY <1>7, <1>13, <1>19
  <2>4. \A w \in W : w[1] \notin RefsIn(W, c) => g[w[1]] = f[w[1]]
    BY <1>7, <1>13, <2>2
  <2> QED BY <1>6, <1>19, <2>1, <2>2, <2>3, <2>4, FixedWords
<1>21. ASSUME NEW r, r # c PROVE \A x \in RefsIn(W, r) : g[x] = f[x]
  <2>1. ASSUME NEW x \in RefsIn(W, r) PROVE g[x] = f[x]
    <3>1. x \in DOMAIN f /\ x # d
      BY <1>6, <1>10, RefsInMemory
    <3>2. x \notin RefsIn(W, c)
      BY <1>6, <1>21, RefsInApart
    <3> QED BY <1>7, <1>13, <3>1, <3>2
  <2> QED BY <2>1
<1>22. ASSUME NEW x PROVE InfoEntry(it, g, W, D2, x)
  <2>1. <<"info", x>> # c
    BY <1>1
  <2>2. InfoEntry(it, f, W, D, x)
    BY <1>6
  <2>3. <<"info", x>> \in D2 <=> <<"info", x>> \in D
    BY <1>19, <2>1 DEF OneName
  <2>4. \A y \in RefsIn(W, <<"info", x>>) : g[y] = f[y]
    BY <1>21, <2>1
  <2> QED BY <2>2, <2>3, <2>4, OtherInfo
<1>23. ASSUME NEW x PROVE ClosEntry(ct2, g, W, D2, x)
  <2>1. D \subseteq D2 /\ c \in D2
    BY <1>19 DEF OneName
  <2>2. CASE x = n
    <3>1. <<"info", z>> \in D2
      BY <2>1
    <3> QED BY <1>1, <1>16, <1>17, <2>1, <2>2, <3>1 DEF ClosEntry
  <2>3. CASE x # n
    <3>1. <<"clos", x>> # c
      BY <1>1, <2>3
    <3>2. ClosEntry(ct, f, W, D, x)
      BY <1>6
    <3>3. <<"clos", x>> \in D2 <=> <<"clos", x>> \in D
      BY <1>19, <3>1 DEF OneName
    <3>4. \A y \in RefsIn(W, <<"clos", x>>) : g[y] = f[y]
      BY <1>21, <3>1
    <3>5. (x \in DOMAIN ct2 <=> x \in DOMAIN ct) /\ (x \in DOMAIN ct => ct2[x] = ct[x])
      BY <1>16, <1>18, <2>3
    <3>6. Dummy(x) \in DOMAIN f => Dummy(x) \in DOMAIN g /\ g[Dummy(x)] = f[Dummy(x)]
      <4>1. ~ IsLoc(Dummy(x)) /\ Dummy(x) # d
        BY <1>9, <2>3 DEF IsLoc, Dummy
      <4>2. Dummy(x) \notin R
        BY <1>11, <4>1
      <4> QED BY <1>13, <4>1, <4>2
    <3> QED BY <2>1, <3>2, <3>3, <3>4, <3>5, <3>6, OtherClos
  <2> QED BY <2>2, <2>3
<1>24. v.itab = it /\ v.ctab = ct2 /\ v.mem = g
  BY <1>15
<1>25. LinkInv(v, W, D2)
  BY <1>15, <1>20, <1>22, <1>23, <1>24 DEF LinkInv
<1> QED BY <1>2, <1>25

\* An item with references that are pairs.
GoodItem(x, D) ==
  /\ x.kind \in {"info", "clos"}
  /\ Len(x.refs) \in Nat /\ DOMAIN x.refs = 1..Len(x.refs)
  /\ \A j \in 1..Len(x.refs) : IsRef(x.refs[j], D)

\* The words and the name of an item.
ItemWords(m, i) == {<<Loc(m, i, j), Content(Item(m, i))[j]>> : j \in DOMAIN Content(Item(m, i))}
NameOf(m, i) == <<Item(m, i).kind, Item(m, i).name>>

\* Loading an item, a closure after its info table.
LEMMA ItemLoaded ==
  ASSUME NEW s, NEW W, NEW D, LinkInv(s, W, D), NEW m, NEW i,
         GoodItem(Item(m, i), D), NameOf(m, i) \notin D,
         \A w \in W : \A j \in Nat : w[1] # Loc(m, i, j),
         Item(m, i).kind = "clos" => <<"info", Item(m, i).info>> \in D,
         NEW V, V = W \cup ItemWords(m, i),
         NEW D2, OneName(D2, D, NameOf(m, i))
  PROVE  LinkInv(loadItem(s, m, i), V, D2)
<1>1. PICK refs : refs = Item(m, i).refs
  OBVIOUS
<1>2. PICK L \in Nat : Len(refs) = L
  BY <1>1 DEF GoodItem
<1>3. PICK n : n = Item(m, i).name
  OBVIOUS
<1>4. DOMAIN refs = 1..L /\ \A j \in 1..L : IsRef(refs[j], D)
  BY <1>1, <1>2 DEF GoodItem
<1>5. \A w \in W : \A j \in 1..L : w[1] # Loc(m, i, j)
  BY <1>2
<1>6. CASE Item(m, i).kind = "info"
  <2>1. V = W \cup RefWords(m, i, refs, L)
    <3>1. Content(Item(m, i)) = refs
      BY <1>1, <1>6 DEF Content
    <3> QED BY <1>4, <3>1 DEF ItemWords, RefWords
  <2>2. PICK u : u = loadRefs(s, m, i)
    OBVIOUS
  <2>3. LinkInv(u, V, D)
    BY <1>1, <1>2, <1>4, <1>5, <2>1, <2>2, RefsLoaded
  <2>4. PICK t : t = fixInfoTableForwardReference(u, n)
    OBVIOUS
  <2>5. <<"info", n>> \notin D /\ OneName(D2, D, <<"info", n>>)
    BY <1>3, <1>6 DEF NameOf
  <2>6. LinkInv([t EXCEPT !.itab = Store(t.itab, n, RealTable)], V, D2)
    BY <2>3, <2>4, <2>5, InfoFixed
  <2>7. loadItem(s, m, i) = [t EXCEPT !.itab = Store(t.itab, n, RealTable)]
    BY <1>3, <1>6, <2>2, <2>4 DEF loadItem, loadInfoTable
  <2> QED BY <2>6, <2>7
<1>7. CASE Item(m, i).kind = "clos"
  <2>1. PICK z : z = Item(m, i).info
    OBVIOUS
  <2>2. PICK l : l = Loc(m, i, 0)
    OBVIOUS
  <2>3. IsLoc(l) /\ \A w \in W : w[1] # l
    BY <2>2 DEF IsLoc, Loc
  <2>4. PICK W2 : W2 = W \cup {<<l, <<"info", z>>>>}
    OBVIOUS
  <2>5. OneMore(W2, W, l, <<"info", z>>)
    BY <2>4 DEF OneMore
  <2>6. PICK t : t = loadInfoTableReference(s, z, l)
    OBVIOUS
  <2>7. LinkInv(t, W2, D)
    BY <2>3, <2>5, <2>6, InfoReference
  <2>8. \A w \in W2 : \A j \in 1..L : w[1] # Loc(m, i, j)
    BY <1>5, <2>2, <2>4 DEF Loc
  <2>9. V = W2 \cup RefWords(m, i, refs, L)
    <3>1. PICK C : C = Content(Item(m, i))
      OBVIOUS
    <3>2. C = [j \in 0..L |-> IF j = 0 THEN <<"info", z>> ELSE refs[j]]
      BY <1>1, <1>2, <1>7, <2>1, <3>1 DEF Content
    <3>3. \A j \in 0..L : j = 0 \/ j \in 1..L
      OBVIOUS
    <3>4. \A j \in 1..L : j \in 0..L /\ j # 0
      OBVIOUS
    <3>5. DOMAIN C = 0..L /\ 0 \in 0..L
      BY <3>2
    <3>6. {<<Loc(m, i, j), C[j]>> : j \in 0..L} = {<<l, <<"info", z>>>>} \cup RefWords(m, i, refs, L)
      <4>1. C[0] = <<"info", z>> /\ \A j \in 1..L : C[j] = refs[j]
        BY <3>2, <3>4, <3>5
      <4>2. ASSUME NEW e \in {<<Loc(m, i, j), C[j]>> : j \in 0..L}
            PROVE  e \in {<<l, <<"info", z>>>>} \cup RefWords(m, i, refs, L)
        BY <2>2, <3>3, <4>1 DEF RefWords
      <4>3. ASSUME NEW e \in {<<l, <<"info", z>>>>} \cup RefWords(m, i, refs, L)
            PROVE  e \in {<<Loc(m, i, j), C[j]>> : j \in 0..L}
        BY <2>2, <3>4, <3>5, <4>1 DEF RefWords
      <4> QED BY <4>2, <4>3
    <3> QED BY <2>4, <3>1, <3>5, <3>6 DEF ItemWords
  <2>10. PICK u : u = loadRefs(t, m, i)
    OBVIOUS
  <2>11. LinkInv(u, V, D)
    BY <1>1, <1>2, <1>4, <2>7, <2>8, <2>9, <2>10, RefsLoaded
  <2>12. PICK v : v = fixClosureForwardReference(u, n)
    OBVIOUS
  <2>13. <<"clos", n>> \notin D /\ OneName(D2, D, <<"clos", n>>)
    BY <1>3, <1>7 DEF NameOf
  <2>14. <<Loc(m, i, 0), <<"info", z>>>> \in V /\ <<"info", z>> \in D
    BY <1>7, <2>1, <2>2, <2>4, <2>9
  <2>15. LinkInv([v EXCEPT !.ctab = Store(v.ctab, n, <<"real", m, i>>)], V, D2)
    BY <2>11, <2>12, <2>13, <2>14, ClosFixed
  <2>16. loadItem(s, m, i) = [v EXCEPT !.ctab = Store(v.ctab, n, <<"real", m, i>>)]
    BY <1>3, <1>7, <2>1, <2>2, <2>6, <2>10, <2>12 DEF loadItem, loadClosure
  <2> QED BY <2>15, <2>16
<1> QED BY <1>6, <1>7 DEF GoodItem

\* A missing name has its list, and an entry that checkNoForwardRefs finds.
LEMMA EntryMissing ==
  ASSUME NEW s, NEW W, NEW D, LinkInv(s, W, D), NEW r, r = <<r[1], r[2]>>, r[1] \in {"info", "clos"},
         NEW w0 \in W, w0[2] = r, r \notin D,
         NEW first, first = IF r[1] = "info" THEN s.itab[r[2]] ELSE s.mem[Dummy(r[2])]
  PROVE  HasList(s.mem, first, RefsIn(W, r)) /\ ~ checkNoForwardRefs(s)
<1>1. PICK f : f = s.mem
  OBVIOUS
<1>2. WordInv(f, W, D)
  BY <1>1 DEF LinkInv
<1>3. PICK R : R = RefsIn(W, r)
  OBVIOUS
<1>4. R # {}
  <2>1. w0[1] \in R
    BY <1>3, RefsInMember
  <2> QED BY <2>1
<1>5. \A x \in R : IsLoc(x)
  BY <1>2, <1>3, RefsInMemory
<1>6. PICK n : n = r[2]
  OBVIOUS
<1>7. CASE r[1] = "info"
  <2>1. r = <<"info", n>>
    BY <1>6, <1>7
  <2>2. InfoEntry(s.itab, f, W, D, n)
    BY <1>1 DEF LinkInv
  <2>3. n \in DOMAIN s.itab /\ HasList(f, s.itab[n], R)
    BY <1>3, <1>4, <2>1, <2>2 DEF InfoEntry
  <2>4. IsLoc(s.itab[n])
    BY <1>5, <2>3, ListHead
  <2>5. s.itab[n] # RealTable
    BY <2>4 DEF IsLoc, RealTable
  <2> QED BY <1>1, <1>3, <1>6, <1>7, <2>3, <2>5 DEF checkNoForwardRefs
<1>8. CASE r[1] = "clos"
  <2>1. r = <<"clos", n>>
    BY <1>6, <1>8
  <2>2. ClosEntry(s.ctab, f, W, D, n)
    BY <1>1 DEF LinkInv
  <2>3. n \in DOMAIN s.ctab /\ s.ctab[n] = Dummy(n) /\ HasList(f, f[Dummy(n)], R)
    BY <1>3, <1>4, <2>1, <2>2 DEF ClosEntry
  <2>4. Info(s, s.ctab[n]) = Null
    BY <2>3 DEF Info, Dummy
  <2> QED BY <1>1, <1>3, <1>6, <1>8, <2>3, <2>4 DEF checkNoForwardRefs
<1> QED BY <1>7, <1>8

\* If checkNoForwardRefs finds nothing, no name that is referred to is missing.
LEMMA CheckedLoaded ==
  ASSUME NEW s, NEW W, NEW D, LinkInv(s, W, D), NEW r, r = <<r[1], r[2]>>, r[1] \in {"info", "clos"},
         NEW w0 \in W, w0[2] = r, checkNoForwardRefs(s)
  PROVE  r \in D
<1>1. PICK first : first = IF r[1] = "info" THEN s.itab[r[2]] ELSE s.mem[Dummy(r[2])]
  OBVIOUS
<1> QED BY <1>1, EntryMissing

\* The words that refer to a name hold its address if it is loaded, and are on
\* its list if it is not.
LEMMA LinkedExact ==
  ASSUME NEW s, NEW W, NEW D, LinkInv(s, W, D), NEW r, r = <<r[1], r[2]>>, r[1] \in {"info", "clos"},
         NEW w0 \in W, w0[2] = r
  PROVE  /\ r \in D => \A l \in RefsIn(W, r) : s.mem[l] = Addr(r[1], r[2])
         /\ r \notin D =>
              LET first == IF r[1] = "info" THEN s.itab[r[2]] ELSE s.mem[Dummy(r[2])]
              IN /\ Linked(s, first) = RefsIn(W, r)
                 /\ Cardinality({l \in RefsIn(W, r) : s.mem[l] = Null}) = 1
<1>1. PICK f : f = s.mem
  OBVIOUS
<1>2. WordInv(f, W, D) /\ IsFiniteSet(DOMAIN f)
  BY <1>1 DEF LinkInv, WordInv
<1>3. PICK R : R = RefsIn(W, r)
  OBVIOUS
<1>4. ASSUME r \in D, NEW l \in R PROVE f[l] = Addr(r[1], r[2])
  <2>1. PICK w \in W : w[1] = l /\ w[2] = r
    BY <1>3, <1>4, RefsInMember
  <2> QED BY <1>2, <1>4, <2>1 DEF WordInv
<1>5. PICK first : first = IF r[1] = "info" THEN s.itab[r[2]] ELSE s.mem[Dummy(r[2])]
  OBVIOUS
<1>6. ASSUME r \notin D
      PROVE  Linked(s, first) = R /\ Cardinality({l \in R : f[l] = Null}) = 1
  <2>1. HasList(f, first, R)
    BY <1>1, <1>3, <1>5, <1>6, EntryMissing
  <2>2. \A x \in R : x \in DOMAIN f /\ IsLoc(x)
    BY <1>2, <1>3, RefsInMemory
  <2>3. Linked(s, first) = R
    BY <1>1, <1>2, <2>1, <2>2, ListLinked
  <2> QED BY <2>1, <2>2, <2>3, ListEnd
<1> QED BY <1>1, <1>3, <1>4, <1>5, <1>6

\* The items in memory, of the modules and the activations given.
DoneOf(items, ld, cs) ==
  {d \in UNION {{m} \X (1..Len(items[m])) : m \in ld} :
     \A c \in Range(cs) : c.module = d[1] => d[2] <= c.items}

\* Their words and their names.
WordsOf(X) == UNION {ItemWords(d[1], d[2]) : d \in X}
NamesOf(X) == {NameOf(d[1], d[2]) : d \in X}

\* The activations of loadModule.
Activations == [module : Modules, imports : Nat, items : Nat]

\* The activations are known to be of modules, and so are the loads.
LoaderType ==
  /\ prog \in Programs
  /\ loaded \in SUBSET Modules
  /\ calls \in Seq(Activations)
  /\ loads \in Seq(Modules)

\* None goes beyond the imports of its module.
Bounded(cs) == \A k \in 1..Len(cs) : cs[k].imports <= Len(prog.imports[cs[k].module])

\* One activation of a module, and none goes beyond the end of its body.
CallsInv ==
  /\ Bounded(calls)
  /\ \A k \in 1..Len(calls) : /\ calls[k].module \in loaded
                              /\ calls[k].items <= Len(prog.items[calls[k].module])
  /\ \A j, k \in 1..Len(calls) : calls[j].module = calls[k].module => j = k

\* The outermost activation is that of the module asked for last; a load that
\* was successful left the module loaded and nothing missing.
ResultInv ==
  /\ calls # << >> => loads # << >> /\ calls[1].module = Last(loads)
  /\ ok /\ calls = << >> => /\ loads # << >> /\ Last(loads) \in loaded
                            /\ checkNoForwardRefs(Tables)

\* The invariant of the loader.
LoaderInv ==
  /\ LoaderType /\ CallsInv /\ ResultInv
  /\ LinkInv(Tables, WordsOf(DoneOf(prog.items, loaded, calls)),
                     NamesOf(DoneOf(prog.items, loaded, calls)))

\* No closure is in memory without its info table.
InOrder ==
  \A d \in Done : Item(d[1], d[2]).kind = "clos" => Defined("info", Item(d[1], d[2]).info)

\* Item i of m was loaded, if the module was, as far as the activations go.
UpTo(cs, m, i) == \A k \in 1..Len(cs) : cs[k].module = m => i <= cs[k].items

\* What it means that an item is in memory.
LEMMA DoneMember ==
  ASSUME NEW items, NEW ld, NEW S, NEW cs \in Seq(S), NEW d
  PROVE  d \in DoneOf(items, ld, cs) <=>
           \E m \in ld : \E i \in 1..Len(items[m]) : d = <<m, i>> /\ UpTo(cs, m, i)
<1>1. DOMAIN cs = 1..Len(cs)
  OBVIOUS
<1>2. \A c : c \in Range(cs) <=> \E k \in 1..Len(cs) : c = cs[k]
  BY <1>1 DEF Range
<1>3. d \in UNION {{m} \X (1..Len(items[m])) : m \in ld}
        <=> \E m \in ld : \E i \in 1..Len(items[m]) : d = <<m, i>>
  OBVIOUS
<1>4. ASSUME NEW m, NEW i
      PROVE  (\A c \in Range(cs) : c.module = m => i <= c.items) <=> UpTo(cs, m, i)
  BY <1>2 DEF UpTo
<1>5. d \in DoneOf(items, ld, cs)
        <=> /\ d \in UNION {{m} \X (1..Len(items[m])) : m \in ld}
            /\ \A c \in Range(cs) : c.module = d[1] => d[2] <= c.items
  BY DEF DoneOf
<1>6. d \in DoneOf(items, ld, cs)
        <=> d \in UNION {{m} \X (1..Len(items[m])) : m \in ld} /\ UpTo(cs, d[1], d[2])
  BY <1>4, <1>5
<1> QED BY <1>3, <1>6

\* What the assumption says of an item of a module.
LEMMA ItemFacts ==
  ASSUME prog \in Programs, NEW m \in Modules, NEW i \in 1..Len(prog.items[m])
  PROVE  /\ i \in DOMAIN prog.items[m]
         /\ Item(m, i).kind \in {"info", "clos"}
         /\ Len(Item(m, i).refs) \in Nat
         /\ DOMAIN Item(m, i).refs = 1..Len(Item(m, i).refs)
         /\ \A j \in 1..Len(Item(m, i).refs) :
              LET r == Item(m, i).refs[j] IN
              r = <<r[1], r[2]>> /\ r[1] \in {"info", "clos", "word"}
<1>1. PICK b : b = prog.items[m]
  OBVIOUS
<1>2. PICK x : x = Item(m, i)
  OBVIOUS
<1>3. b \in Seq(Range(b))
  BY <1>1, LoaderAssumption DEF Modules
<1>4. DOMAIN b = 1..Len(b) /\ i \in DOMAIN b
  BY <1>1, <1>3
<1>5. x \in Range(b)
  BY <1>1, <1>2, <1>4 DEF Range, Item
<1>6. /\ x.kind \in {"info", "clos"}
      /\ x.refs \in Seq(Range(x.refs))
      /\ \A r \in Range(x.refs) : r = <<r[1], r[2]>> /\ r[1] \in {"info", "clos", "word"}
  BY <1>1, <1>5, LoaderAssumption DEF Modules
<1>7. PICK q : q = x.refs
  OBVIOUS
<1>8. q \in Seq(Range(q))
  BY <1>6, <1>7
<1>9. Len(q) \in Nat /\ DOMAIN q = 1..Len(q)
  BY <1>8
<1>10. \A j \in 1..Len(q) : q[j] \in Range(q)
  BY <1>9 DEF Range
<1> QED BY <1>1, <1>2, <1>4, <1>6, <1>7, <1>9, <1>10

\* Two items with one kind and one name are the same item.
LEMMA ItemUnique ==
  ASSUME prog \in Programs, NEW m1 \in Modules, NEW i1 \in 1..Len(prog.items[m1]),
         NEW m2 \in Modules, NEW i2 \in 1..Len(prog.items[m2]), NameOf(m1, i1) = NameOf(m2, i2)
  PROVE  m1 = m2 /\ i1 = i2
<1>1. i1 \in DOMAIN prog.items[m1] /\ i2 \in DOMAIN prog.items[m2]
  BY ItemFacts
<1>2. /\ prog.items[m1][i1].kind = prog.items[m2][i2].kind
      /\ prog.items[m1][i1].name = prog.items[m2][i2].name
  BY DEF NameOf, Item
<1>3. m1 \in DOMAIN prog.items /\ m2 \in DOMAIN prog.items
  BY DEF Modules
<1>4. \A j1 \in DOMAIN prog.items[m1], j2 \in DOMAIN prog.items[m2] :
        /\ prog.items[m1][j1].kind = prog.items[m2][j2].kind
        /\ prog.items[m1][j1].name = prog.items[m2][j2].name
        => m1 = m2 /\ j1 = j2
  BY <1>3, LoaderAssumption, Zenon
<1> QED BY <1>1, <1>2, <1>4

\* One more item.
LEMMA ItemAdded ==
  ASSUME prog \in Programs, NEW X, NEW m \in Modules, NEW i \in 1..Len(prog.items[m]),
         \A d \in X : \E m2 \in Modules : \E i2 \in 1..Len(prog.items[m2]) : d = <<m2, i2>>,
         <<m, i>> \notin X,
         Item(m, i).kind = "clos" => <<"info", Item(m, i).info>> \in NamesOf(X),
         NEW s, LinkInv(s, WordsOf(X), NamesOf(X)),
         NEW Y, Y = X \cup {<<m, i>>}
  PROVE  LinkInv(loadItem(s, m, i), WordsOf(Y), NamesOf(Y))
<1>1. PICK W : W = WordsOf(X)
  OBVIOUS
<1>2. PICK D : D = NamesOf(X)
  OBVIOUS
<1>3. \A n \in D : n[1] # "word"
  <2> SUFFICES ASSUME NEW n \in D PROVE n[1] # "word"
    OBVIOUS
  <2>1. PICK d \in X : n = NameOf(d[1], d[2])
    BY <1>2 DEF NamesOf
  <2>2. PICK m2 \in Modules : \E i2 \in 1..Len(prog.items[m2]) : d = <<m2, i2>>
    BY <2>1
  <2>3. PICK i2 \in 1..Len(prog.items[m2]) : d = <<m2, i2>>
    BY <2>2
  <2>4. Item(m2, i2).kind # "word"
    BY ItemFacts
  <2> QED BY <2>1, <2>3, <2>4 DEF NameOf
<1>4. GoodItem(Item(m, i), D)
  <2>1. \A j \in 1..Len(Item(m, i).refs) : IsRef(Item(m, i).refs[j], D)
    BY <1>3, ItemFacts DEF IsRef
  <2> QED BY <2>1, ItemFacts DEF GoodItem
<1>5. NameOf(m, i) \notin D
  <2> SUFFICES ASSUME NEW d \in X, NameOf(m, i) = NameOf(d[1], d[2]) PROVE FALSE
    BY <1>2 DEF NamesOf
  <2>1. PICK m2 \in Modules : \E i2 \in 1..Len(prog.items[m2]) : d = <<m2, i2>>
    OBVIOUS
  <2>2. PICK i2 \in 1..Len(prog.items[m2]) : d = <<m2, i2>>
    BY <2>1
  <2>3. NameOf(m, i) = NameOf(m2, i2)
    BY <2>2
  <2>4. m = m2 /\ i = i2
    BY <2>3, ItemUnique
  <2> QED BY <2>2, <2>4
<1>6. ASSUME NEW w \in W, NEW j \in Nat PROVE w[1] # Loc(m, i, j)
  <2>1. PICK d \in X : w \in ItemWords(d[1], d[2])
    BY <1>1, <1>6 DEF WordsOf
  <2>2. PICK m2 \in Modules : \E i2 \in 1..Len(prog.items[m2]) : d = <<m2, i2>>
    BY <2>1
  <2>3. PICK i2 \in 1..Len(prog.items[m2]) : d = <<m2, i2>>
    BY <2>2
  <2>4. PICK k : w[1] = Loc(m2, i2, k)
    BY <2>1, <2>3 DEF ItemWords
  <2>5. m # m2 \/ i # i2
    BY <2>1, <2>3
  <2> QED BY <2>4, <2>5 DEF Loc
<1>7. PICK V : V = WordsOf(Y)
  OBVIOUS
<1>8. PICK D2 : D2 = NamesOf(Y)
  OBVIOUS
<1>9. V = W \cup ItemWords(m, i)
  BY <1>1, <1>7 DEF WordsOf
<1>10. OneName(D2, D, NameOf(m, i))
  BY <1>2, <1>8 DEF NamesOf, OneName
<1>11. LinkInv(loadItem(s, m, i), V, D2)
  BY <1>1, <1>2, <1>4, <1>5, <1>6, <1>9, <1>10, ItemLoaded
<1> QED BY <1>7, <1>8, <1>11

DoneNow == DoneOf(prog.items, loaded, calls)

\* The items in memory now.
LEMMA DoneEqual == Done = DoneNow
BY DEF Done, DoneNow, DoneOf

\* The tables of no program yet.
LEMMA LoaderStart == LoaderInit => LoaderInv
<1> SUFFICES ASSUME LoaderInit PROVE LoaderInv
  OBVIOUS
<1> USE DEF LoaderInit
<1>1. calls \in Seq(Activations) /\ loads \in Seq(Modules) /\ Len(calls) = 0
  OBVIOUS
<1>2. LoaderType
  BY <1>1 DEF LoaderType
<1>3. CallsInv /\ ResultInv
  BY <1>1 DEF CallsInv, ResultInv, Bounded
<1>4. PICK X : X = DoneOf(prog.items, loaded, calls)
  OBVIOUS
<1>5. X = {}
  BY <1>4 DEF DoneOf
<1>6. WordsOf(X) = {} /\ NamesOf(X) = {}
  BY <1>5 DEF WordsOf, NamesOf
<1>7. LinkInv(Tables, {}, {})
  <2>1. \A c : RefsIn({}, c) = {}
    BY DEF RefsIn
  <2>2. Tables.itab = << >> /\ Tables.ctab = << >> /\ Tables.mem = << >>
    BY DEF Tables
  <2>3. DOMAIN << >> = {}
    OBVIOUS
  <2>4. \A n : InfoEntry(<< >>, << >>, {}, {}, n)
    BY <2>1, <2>3 DEF InfoEntry
  <2>5. \A n : ClosEntry(<< >>, << >>, {}, {}, n)
    BY <2>1, <2>3 DEF ClosEntry
  <2>6. WordInv(<< >>, {}, {})
    BY <2>3, FS_EmptySet DEF WordInv
  <2>7. Tables = [itab |-> Tables.itab, ctab |-> Tables.ctab, mem |-> Tables.mem]
    BY DEF Tables
  <2> QED BY <2>2, <2>4, <2>5, <2>6, <2>7, FS_EmptySet DEF LinkInv
<1> QED BY <1>2, <1>3, <1>4, <1>6, <1>7 DEF LoaderInv

\* A step that leaves the items and the tables.
LEMMA TablesKept ==
  ASSUME LoaderInv, LoaderType', CallsInv', ResultInv', prog' = prog,
         itab' = itab, ctab' = ctab, mem' = mem,
         DoneOf(prog.items, loaded', calls') = DoneOf(prog.items, loaded, calls)
  PROVE  LoaderInv'
<1>1. Tables' = Tables
  BY DEF Tables
<1>2. PICK X : X = DoneOf(prog.items, loaded, calls)
  OBVIOUS
<1>3. (DoneOf(prog.items, loaded, calls))' = X
  BY <1>2 DEF DoneOf
<1>4. LinkInv(Tables, WordsOf(X), NamesOf(X))
  BY <1>2 DEF LoaderInv
<1>5. (WordsOf(X))' = WordsOf(X) /\ (NamesOf(X))' = NamesOf(X)
  BY DEF WordsOf, NamesOf, ItemWords, NameOf, Item
<1> QED BY <1>1, <1>3, <1>4, <1>5 DEF LoaderInv

\* The activations with other numbers of imports.
SameCalls(cs) ==
  /\ cs \in Seq(Activations) /\ Len(cs) = Len(calls) /\ Bounded(cs)
  /\ \A k \in 1..Len(calls) : cs[k].module = calls[k].module /\ cs[k].items = calls[k].items

\* One activation more, of a module that was not loaded.
Opens(m, ld, cs) ==
  /\ m \in Modules \ loaded /\ ld = loaded \cup {m}
  /\ cs \in Seq(Activations) /\ Len(cs) = Len(calls) + 1 /\ Bounded(cs)
  /\ \A k \in 1..Len(calls) : cs[k].module = calls[k].module /\ cs[k].items = calls[k].items
  /\ cs[Len(calls) + 1].module = m /\ cs[Len(calls) + 1].items = 0

\* The activations once OpenModule has added one, an import counted or not.
LEMMA OpensAppend ==
  ASSUME NEW m \in Modules \ loaded, NEW cs, SameCalls(cs), calls \in Seq(Activations),
         prog \in Programs
  PROVE  Opens(m, loaded \cup {m}, Append(cs, [module |-> m, imports |-> 0, items |-> 0]))
<1>1. PICK a : a = [module |-> m, imports |-> 0, items |-> 0]
  OBVIOUS
<1>2. a \in Activations /\ a.module = m /\ a.items = 0
  BY <1>1 DEF Activations
<1>3. PICK r : r = Append(cs, a)
  OBVIOUS
<1>4. cs \in Seq(Activations) /\ Len(cs) = Len(calls) /\ Len(calls) \in Nat
  BY DEF SameCalls
<1>5. r \in Seq(Activations) /\ Len(r) = Len(calls) + 1
  BY <1>2, <1>3, <1>4
<1>6. \A k \in 1..Len(calls) : r[k] = cs[k]
  BY <1>3, <1>4
<1>7. r[Len(calls) + 1] = a
  BY <1>3, <1>4
<1>8. \A k \in 1..Len(calls) : r[k].module = calls[k].module /\ r[k].items = calls[k].items
  BY <1>6 DEF SameCalls
<1>9. Bounded(r)
  <2>1. prog.imports[m] \in Seq(Modules)
    BY LoaderAssumption DEF Modules
  <2>2. a.imports = 0 /\ 0 <= Len(prog.imports[m])
    BY <1>1, <2>1
  <2>3. \A k \in 1..Len(r) : k \in 1..Len(calls) \/ k = Len(calls) + 1
    BY <1>4, <1>5
  <2>4. \A k \in 1..Len(calls) : r[k].imports <= Len(prog.imports[r[k].module])
    BY <1>4, <1>6 DEF SameCalls, Bounded
  <2> QED BY <1>2, <1>7, <2>2, <2>3, <2>4 DEF Bounded
<1>10. Opens(m, loaded \cup {m}, r)
  BY <1>2, <1>5, <1>7, <1>8, <1>9 DEF Opens
<1> QED BY <1>1, <1>3, <1>10

\* The items in memory stay the same.
LEMMA SameDone ==
  ASSUME calls \in Seq(Activations), NEW cs, SameCalls(cs)
  PROVE  DoneOf(prog.items, loaded, cs) = DoneOf(prog.items, loaded, calls)
<1>1. cs \in Seq(Activations) /\ Len(cs) = Len(calls)
  BY DEF SameCalls
<1>2. ASSUME NEW m, NEW i PROVE UpTo(cs, m, i) <=> UpTo(calls, m, i)
  BY <1>1 DEF SameCalls, UpTo
<1>3. \A d : d \in DoneOf(prog.items, loaded, cs) <=> d \in DoneOf(prog.items, loaded, calls)
  BY <1>1, <1>2, DoneMember
<1> QED BY <1>3

\* A module that was just opened has no item in memory.
LEMMA OpensDone ==
  ASSUME LoaderType, CallsInv, NEW m, NEW ld, NEW cs, Opens(m, ld, cs)
  PROVE  DoneOf(prog.items, ld, cs) = DoneOf(prog.items, loaded, calls)
<1>1. cs \in Seq(Activations) /\ Len(cs) = Len(calls) + 1 /\ Len(calls) \in Nat
  BY DEF Opens, LoaderType
<1>2. calls \in Seq(Activations)
  BY DEF LoaderType
<1>3. \A k \in 1..Len(cs) : k \in 1..Len(calls) \/ k = Len(calls) + 1
  BY <1>1
<1>4. Len(calls) + 1 \in 1..Len(cs) /\ \A k \in 1..Len(calls) : k \in 1..Len(cs)
  BY <1>1
<1>5. ASSUME NEW x \in loaded, NEW i PROVE UpTo(cs, x, i) <=> UpTo(calls, x, i)
  <2>1. cs[Len(calls) + 1].module # x
    BY <1>5 DEF Opens
  <2> QED BY <1>3, <1>4, <2>1 DEF Opens, UpTo
<1>6. ASSUME NEW i \in 1..Len(prog.items[m]) PROVE ~ UpTo(cs, m, i)
  BY <1>4 DEF Opens, UpTo
<1>7. ld = loaded \cup {m} /\ m \notin loaded
  BY DEF Opens
<1>8. \A d : d \in DoneOf(prog.items, ld, cs) <=> d \in DoneOf(prog.items, loaded, calls)
  <2>1. \A d : d \in DoneOf(prog.items, ld, cs) => d \in DoneOf(prog.items, loaded, calls)
    <3> SUFFICES ASSUME NEW d \in DoneOf(prog.items, ld, cs)
                 PROVE  d \in DoneOf(prog.items, loaded, calls)
      OBVIOUS
    <3>1. PICK x \in ld : \E i \in 1..Len(prog.items[x]) : d = <<x, i>> /\ UpTo(cs, x, i)
      BY <1>1, DoneMember
    <3>2. x \in loaded
      BY <1>6, <1>7, <3>1
    <3> QED BY <1>2, <1>5, <3>1, <3>2, DoneMember
  <2>2. \A d : d \in DoneOf(prog.items, loaded, calls) => d \in DoneOf(prog.items, ld, cs)
    <3> SUFFICES ASSUME NEW d \in DoneOf(prog.items, loaded, calls)
                 PROVE  d \in DoneOf(prog.items, ld, cs)
      OBVIOUS
    <3>1. PICK x \in loaded : \E i \in 1..Len(prog.items[x]) : d = <<x, i>> /\ UpTo(calls, x, i)
      BY <1>2, DoneMember
    <3>2. x \in ld
      BY <1>7
    <3> QED BY <1>1, <1>5, <3>1, <3>2, DoneMember
  <2> QED BY <2>1, <2>2
<1> QED BY <1>8

\* The new activations are those of different modules.
LEMMA OpensCalls ==
  ASSUME LoaderType, CallsInv, prog' = prog, NEW m, Opens(m, loaded', calls')
  PROVE  CallsInv' /\ calls'[1].module = IF calls = << >> THEN m ELSE calls[1].module
<1>1. PICK cs : cs = calls'
  OBVIOUS
<1>2. PICK n \in Nat : n = Len(calls)
  BY DEF LoaderType
<1>3. Len(cs) = n + 1 /\ cs[n + 1].module = m /\ cs[n + 1].items = 0
  BY <1>1, <1>2 DEF Opens
<1>4. \A k \in 1..n : cs[k].module = calls[k].module /\ cs[k].items = calls[k].items
  BY <1>1, <1>2 DEF Opens
<1>5. m \in Modules /\ m \notin loaded /\ loaded' = loaded \cup {m}
  BY DEF Opens
<1>6. \A k \in 1..n : calls[k].module \in loaded /\ calls[k].items <= Len(prog.items[calls[k].module])
  BY <1>2 DEF CallsInv
<1>7. \A j, k \in 1..n : calls[j].module = calls[k].module => j = k
  BY <1>2 DEF CallsInv
<1>8. \A k \in 1..(n + 1) : k \in 1..n \/ k = n + 1
  OBVIOUS
<1>9. 0 <= Len(prog.items[m])
  <2>1. prog.items[m] \in Seq(Range(prog.items[m]))
    BY <1>5, LoaderAssumption DEF Modules, LoaderType
  <2> QED BY <2>1
<1>10. ASSUME NEW k \in 1..(n + 1)
       PROVE  cs[k].module \in loaded \cup {m} /\ cs[k].items <= Len(prog.items[cs[k].module])
  <2>1. CASE k \in 1..n
    BY <1>4, <1>6, <2>1
  <2>2. CASE k = n + 1
    BY <1>3, <1>9, <2>2
  <2> QED BY <1>8, <2>1, <2>2
<1>11. ASSUME NEW j \in 1..(n + 1), NEW k \in 1..(n + 1), cs[j].module = cs[k].module
       PROVE  j = k
  <2>1. CASE j \in 1..n /\ k \in 1..n
    BY <1>4, <1>7, <1>11, <2>1
  <2>2. CASE j \in 1..n /\ k = n + 1
    BY <1>3, <1>4, <1>5, <1>6, <1>11, <2>2
  <2>3. CASE j = n + 1 /\ k \in 1..n
    BY <1>3, <1>4, <1>5, <1>6, <1>11, <2>3
  <2> QED BY <1>8, <2>1, <2>2, <2>3
<1>12. CallsInv'
  <2>1. (Bounded(calls))' <=> Bounded(cs)
    BY <1>1 DEF Bounded
  <2> QED BY <1>1, <1>3, <1>5, <1>10, <1>11, <2>1 DEF CallsInv, Opens
<1>13. CASE calls = << >>
  BY <1>1, <1>2, <1>3, <1>12, <1>13
<1>14. CASE calls # << >>
  <2>1. n # 0
    BY <1>2, <1>14 DEF LoaderType
  <2> QED BY <1>1, <1>4, <1>12, <1>14, <2>1
<1> QED BY <1>13, <1>14

\* The program asks for a module: it is there, or is opened, or is not found.
LEMMA LoadModuleKeeps ==
  ASSUME LoaderInv, NEW m \in Modules, LoadModule(m)
  PROVE  LoaderInv'
<1> USE DEF LoadModule
<1>1. LoaderType /\ CallsInv /\ ResultInv
  BY DEF LoaderInv
<1>2. PICK q : q = Append(loads, m)
  OBVIOUS
<1>3. loads' = q /\ q \in Seq(Modules) /\ q # << >> /\ Last(q) = m
  BY <1>1, <1>2 DEF LoaderType, Last
<1>4. calls \in Seq(Activations) /\ Len(calls) = 0 /\ SameCalls(calls) /\ prog \in Programs
  BY <1>1 DEF LoaderType, SameCalls, CallsInv
<1>5. prog' = prog /\ itab' = itab /\ ctab' = ctab /\ mem' = mem /\ Modules' = Modules
  BY DEF Modules
<1>6. Activations' = Activations /\ Tables' = Tables
  BY <1>5 DEF Activations, Tables
<1>7. CASE loaded' = loaded /\ calls' = calls
  <2>1. LoaderType'
    BY <1>1, <1>3, <1>5, <1>6, <1>7 DEF LoaderType
  <2>2. CallsInv'
    BY <1>1, <1>5, <1>7 DEF CallsInv, Bounded
  <2>3. ok' => m \in loaded /\ checkNoForwardRefs(Tables)
    BY <1>7 DEF OpenModule
  <2>4. (checkNoForwardRefs(Tables))' <=> checkNoForwardRefs(Tables)
    BY <1>6 DEF checkNoForwardRefs, Info
  <2>5. ResultInv'
    BY <1>3, <1>7, <2>3, <2>4 DEF ResultInv
  <2> QED BY <1>5, <1>7, <2>1, <2>2, <2>5, TablesKept
<1>8. CASE OpenModule(m, calls)
  <2>1. m \in Modules \ loaded /\ loaded' = loaded \cup {m}
    BY <1>8 DEF OpenModule
  <2>2. Opens(m, loaded', calls')
    BY <1>4, <1>8, <2>1, OpensAppend DEF OpenModule
  <2>3. calls' \in Seq(Activations) /\ loaded' \in SUBSET Modules /\ Len(calls') = 1
    BY <1>1, <1>4, <2>1, <2>2 DEF Opens, LoaderType
  <2>4. LoaderType'
    BY <1>1, <1>3, <1>5, <1>6, <2>3 DEF LoaderType
  <2>5. CallsInv' /\ calls'[1].module = m
    BY <1>1, <1>5, <2>2, OpensCalls
  <2>6. calls' # << >>
    BY <2>3
  <2>7. ResultInv'
    BY <1>3, <2>5, <2>6 DEF ResultInv
  <2>8. DoneOf(prog.items, loaded', calls') = DoneOf(prog.items, loaded, calls)
    BY <1>1, <2>2, OpensDone
  <2> QED BY <1>5, <2>4, <2>5, <2>7, <2>8, TablesKept
<1> QED BY <1>7, <1>8

\* An import: its module is opened, or was before, or is not found.
LEMMA ImportKeeps ==
  ASSUME LoaderInv, Import
  PROVE  LoaderInv'
<1> USE DEF Import
<1>1. LoaderType /\ CallsInv /\ ResultInv
  BY DEF LoaderInv
<1>2. PICK n \in Nat : n = Len(calls) /\ n # 0
  BY <1>1 DEF LoaderType
<1>3. PICK c : c = calls[n]
  OBVIOUS
<1>4. c \in Activations /\ c.module \in Modules
  <2>1. calls \in Seq(Activations) /\ n \in 1..Len(calls)
    BY <1>1, <1>2 DEF LoaderType
  <2>2. c \in Activations
    BY <1>3, <2>1
  <2> QED BY <2>2 DEF Activations
<1>5. PICK m : m = prog.imports[c.module][c.imports + 1]
  OBVIOUS
<1>6. PICK nc : nc = [calls EXCEPT ![n].imports = @ + 1]
  OBVIOUS
<1>7. calls \in Seq(Activations)
  BY <1>1 DEF LoaderType
<1>8. prog \in Programs /\ prog.imports[c.module] \in Seq(Modules)
  <2>1. c.module \in DOMAIN prog.items /\ prog \in Programs
    BY <1>1, <1>4 DEF Modules, LoaderType
  <2> QED BY <2>1, LoaderAssumption DEF Modules
<1>9. SameCalls(nc)
  <2>1. PICK b : b = [c EXCEPT !.imports = @ + 1]
    OBVIOUS
  <2>2. b \in Activations /\ b.module = c.module /\ b.items = c.items
    BY <1>4, <2>1 DEF Activations
  <2>3. nc = [calls EXCEPT ![n] = b]
    BY <1>3, <1>6, <2>1
  <2>4. DOMAIN calls = 1..n /\ n \in 1..n /\ \A k \in 1..n : calls[k] \in Activations
    BY <1>2, <1>7
  <2>5. DOMAIN nc = 1..n /\ \A k \in 1..n : nc[k] = IF k = n THEN b ELSE calls[k]
    BY <2>3, <2>4
  <2>6. \A k \in 1..n : nc[k] \in Activations
    BY <2>2, <2>4, <2>5
  <2>7. nc \in Seq(Activations) /\ Len(nc) = n
    <3>1. nc = [k \in 1..n |-> nc[k]]
      BY <2>3, <2>5
    <3> QED BY <2>6, <3>1
  <2>8. b.imports <= Len(prog.imports[b.module])
    <3>1. c.imports <= Len(prog.imports[c.module])
      BY <1>1, <1>2, <1>3, <2>4 DEF CallsInv, Bounded
    <3>2. c.imports # Len(prog.imports[c.module]) /\ c.imports \in Nat
      BY <1>2, <1>3, <1>4 DEF Caller, LastImport, Activations
    <3>3. b.imports = c.imports + 1
      BY <1>4, <2>1 DEF Activations
    <3>4. Len(prog.imports[c.module]) \in Nat
      BY <1>8
    <3> QED BY <2>2, <3>1, <3>2, <3>3, <3>4
  <2>9. \A k \in 1..n : nc[k].imports <= Len(prog.imports[nc[k].module])
    <3>1. \A k \in 1..n : calls[k].imports <= Len(prog.imports[calls[k].module])
      BY <1>1, <1>2 DEF CallsInv, Bounded
    <3> QED BY <2>5, <2>8, <3>1
  <2> QED BY <1>2, <1>3, <2>2, <2>5, <2>7, <2>9 DEF SameCalls, Bounded
<1>10. OpenModule(m, nc) \/ (loaded' = loaded /\ calls' = nc)
  BY <1>2, <1>3, <1>5, <1>6 DEF Caller
<1>11. prog' = prog /\ itab' = itab /\ ctab' = ctab /\ mem' = mem /\ Modules' = Modules /\ loads' = loads
  BY DEF Modules
<1>12. Activations' = Activations
  BY <1>11 DEF Activations
<1>13. calls # << >> /\ loads # << >> /\ calls[1].module = Last(loads)
  BY <1>1 DEF ResultInv
<1>14. CASE loaded' = loaded /\ calls' = nc
  <2>1. nc \in Seq(Activations) /\ Len(nc) = n
    BY <1>2, <1>9 DEF SameCalls
  <2>2. LoaderType'
    BY <1>1, <1>11, <1>12, <1>14, <2>1 DEF LoaderType
  <2>3. \A k \in 1..n : nc[k].module = calls[k].module /\ nc[k].items = calls[k].items
    BY <1>2, <1>9 DEF SameCalls
  <2>4. CallsInv'
    <3>1. (Bounded(calls))' <=> Bounded(nc)
      BY <1>11, <1>14 DEF Bounded
    <3> QED BY <1>1, <1>2, <1>9, <1>11, <1>14, <2>1, <2>3, <3>1 DEF CallsInv, SameCalls
  <2>5. nc # << >> /\ nc[1].module = Last(loads)
    BY <1>2, <1>13, <2>1, <2>3
  <2>6. ResultInv'
    BY <1>11, <1>13, <1>14, <2>5 DEF ResultInv
  <2>7. DoneOf(prog.items, loaded', calls') = DoneOf(prog.items, loaded, calls)
    BY <1>7, <1>9, <1>14, SameDone
  <2> QED BY <1>11, <2>2, <2>4, <2>6, <2>7, TablesKept
<1>15. CASE OpenModule(m, nc)
  <2>1. m \in Modules \ loaded /\ loaded' = loaded \cup {m}
    <3>1. c.imports + 1 \in 1..Len(prog.imports[c.module])
      <4>1. c.imports \in Nat /\ c.imports # Len(prog.imports[c.module])
        BY <1>2, <1>3, <1>4 DEF Activations, Caller, LastImport
      <4>2. c.imports <= Len(prog.imports[c.module])
        BY <1>1, <1>2, <1>3 DEF CallsInv, Bounded
      <4> QED BY <1>8, <4>1, <4>2
    <3>2. m \in Modules
      BY <1>5, <1>8, <3>1
    <3> QED BY <1>15, <3>2 DEF OpenModule
  <2>2. Opens(m, loaded', calls')
    BY <1>7, <1>9, <1>8, <1>15, <2>1, OpensAppend DEF OpenModule
  <2>3. calls' \in Seq(Activations) /\ loaded' \in SUBSET Modules /\ Len(calls') = n + 1
    BY <1>1, <1>2, <2>1, <2>2 DEF Opens, LoaderType
  <2>4. LoaderType'
    BY <1>1, <1>11, <1>12, <2>3 DEF LoaderType
  <2>5. CallsInv' /\ calls'[1].module = Last(loads)
    BY <1>1, <1>11, <1>13, <2>2, OpensCalls
  <2>6. calls' # << >>
    BY <2>3
  <2>7. ResultInv'
    BY <1>11, <1>13, <2>5, <2>6 DEF ResultInv
  <2>8. DoneOf(prog.items, loaded', calls') = DoneOf(prog.items, loaded, calls)
    BY <1>1, <2>2, OpensDone
  <2> QED BY <1>11, <2>4, <2>5, <2>7, <2>8, TablesKept
<1> QED BY <1>10, <1>14, <1>15

\* The innermost activation, of m, has its item i loaded, cs are the
\* activations after that.
OneItem(n, m, i, cs) ==
  /\ n = Len(calls) /\ n \in 1..n /\ m = calls[n].module /\ m \in Modules /\ m \in loaded
  /\ calls[n].items \in Nat /\ i = calls[n].items + 1 /\ i \in 1..Len(prog.items[m])
  /\ cs \in Seq(Activations) /\ Len(cs) = n
  /\ \A k \in 1..n : /\ cs[k].module = calls[k].module
                      /\ cs[k].items = IF k = n THEN i ELSE calls[k].items

\* The activations after an item was loaded.
LEMMA LoadItemCalls ==
  ASSUME LoaderInv, LoadItem
  PROVE  /\ LoaderType' /\ CallsInv' /\ ResultInv'
         /\ \E n \in Nat : \E m, i : OneItem(n, m, i, calls')
<1> USE DEF LoadItem
<1>1. LoaderType /\ CallsInv /\ ResultInv
  BY DEF LoaderInv
<1>2. PICK n \in Nat : n = Len(calls) /\ n # 0
  BY <1>1 DEF LoaderType
<1>3. PICK m : m = calls[n].module
  OBVIOUS
<1>4. PICK i : i = calls[n].items + 1
  OBVIOUS
<1>5. calls \in Seq(Activations) /\ DOMAIN calls = 1..n /\ n \in 1..n
  BY <1>1, <1>2 DEF LoaderType
<1>6. calls[n] \in Activations /\ m \in Modules /\ calls[n].items \in Nat /\ i \in Nat
  <2>1. calls[n] \in Activations
    BY <1>5
  <2> QED BY <1>3, <1>4, <2>1 DEF Activations
<1>7. prog \in Programs /\ prog.items[m] \in Seq(Range(prog.items[m]))
  BY <1>1, <1>6, LoaderAssumption DEF Modules, LoaderType
<1>8. i \in 1..Len(prog.items[m]) /\ m \in loaded
  <2>1. calls[n].items <= Len(prog.items[m]) /\ m \in loaded
    BY <1>1, <1>2, <1>3, <1>5 DEF CallsInv
  <2>2. calls[n].items # Len(prog.items[m])
    BY <1>2, <1>3 DEF Caller, LastItem
  <2>3. Len(prog.items[m]) \in Nat
    BY <1>7
  <2> QED BY <1>4, <1>6, <2>1, <2>2, <2>3
<1>9. PICK cs : cs = [calls EXCEPT ![n].items = @ + 1]
  OBVIOUS
<1>10. PICK b : b = [calls[n] EXCEPT !.items = @ + 1]
  OBVIOUS
<1>11. b \in Activations /\ b.module = m /\ b.items = i /\ b.imports = calls[n].imports
  BY <1>3, <1>4, <1>6, <1>10 DEF Activations
<1>12. DOMAIN cs = 1..n /\ \A k \in 1..n : cs[k] = IF k = n THEN b ELSE calls[k]
  BY <1>5, <1>9, <1>10
<1>13. cs \in Seq(Activations) /\ Len(cs) = n
  <2>1. \A k \in 1..n : cs[k] \in Activations
    BY <1>5, <1>11, <1>12
  <2>2. cs = [k \in 1..n |-> cs[k]]
    BY <1>9, <1>12
  <2> QED BY <2>1, <2>2
<1>14. prog' = prog /\ loaded' = loaded /\ loads' = loads /\ ok' = ok /\ Modules' = Modules /\ calls' = cs
  BY <1>2, <1>9 DEF Modules, Caller
<1>15. Activations' = Activations
  BY <1>14 DEF Activations
<1>16. LoaderType'
  BY <1>1, <1>13, <1>14, <1>15 DEF LoaderType
<1>17. \A k \in 1..n : /\ cs[k].module = calls[k].module /\ cs[k].imports = calls[k].imports
                       /\ cs[k].items = IF k = n THEN i ELSE calls[k].items
  BY <1>3, <1>11, <1>12
<1>18. CallsInv'
  <2>1. \A k \in 1..n : /\ cs[k].module \in loaded
                        /\ cs[k].items <= Len(prog.items[cs[k].module])
                        /\ cs[k].imports <= Len(prog.imports[cs[k].module])
    <3>1. \A k \in 1..n : /\ calls[k].module \in loaded
                          /\ calls[k].items <= Len(prog.items[calls[k].module])
                          /\ calls[k].imports <= Len(prog.imports[calls[k].module])
      BY <1>1, <1>2 DEF CallsInv, Bounded
    <3>2. i <= Len(prog.items[m])
      BY <1>7, <1>8
    <3> QED BY <1>3, <1>17, <3>1, <3>2
  <2>2. \A j, k \in 1..n : cs[j].module = cs[k].module => j = k
    BY <1>1, <1>2, <1>17 DEF CallsInv
  <2> QED BY <1>13, <1>14, <2>1, <2>2 DEF CallsInv, Bounded
<1>19. ResultInv'
  <2>1. calls # << >> /\ loads # << >> /\ calls[1].module = Last(loads)
    BY <1>1 DEF ResultInv
  <2>2. cs # << >> /\ cs[1].module = Last(loads)
    BY <1>2, <1>13, <1>17, <2>1
  <2> QED BY <1>14, <2>1, <2>2 DEF ResultInv
<1>20. OneItem(n, m, i, cs)
  BY <1>2, <1>3, <1>4, <1>5, <1>6, <1>8, <1>13, <1>17 DEF OneItem
<1>21. OneItem(n, m, i, calls')
  BY <1>14, <1>20
<1> QED BY <1>16, <1>18, <1>19, <1>21

\* Which is one more item in memory.
LEMMA OneItemDone ==
  ASSUME LoaderType, CallsInv, NEW n \in Nat, NEW m, NEW i, NEW cs, OneItem(n, m, i, cs),
         NEW X, X = DoneOf(prog.items, loaded, calls)
  PROVE  <<m, i>> \notin X /\ DoneOf(prog.items, loaded, cs) = X \cup {<<m, i>>}
<1>1. PICK Y : Y = X \cup {<<m, i>>}
  OBVIOUS
<1>2. n = Len(calls) /\ n \in 1..n
  BY DEF OneItem
<1>3. m = calls[n].module /\ m \in loaded
  BY DEF OneItem
<1>4. i = calls[n].items + 1
  BY DEF OneItem
<1>5. calls \in Seq(Activations)
  BY DEF LoaderType
<1>6. calls[n].items \in Nat /\ i \in Nat
  BY DEF OneItem
<1>7. i \in 1..Len(prog.items[m])
  BY DEF OneItem
<1>8. cs \in Seq(Activations) /\ Len(cs) = n
  BY DEF OneItem
<1>9. \A k \in 1..n : /\ cs[k].module = calls[k].module
                      /\ cs[k].items = IF k = n THEN i ELSE calls[k].items
  BY DEF OneItem
<1>10. \A j, k \in 1..n : calls[j].module = calls[k].module => j = k
  BY <1>2 DEF CallsInv
<1>11. \A x, j : UpTo(calls, x, j) <=> \A k \in 1..n : calls[k].module = x => j <= calls[k].items
  BY <1>2 DEF UpTo
<1>12. \A x, j : UpTo(cs, x, j) <=> \A k \in 1..n : cs[k].module = x => j <= cs[k].items
  BY <1>8 DEF UpTo
<1>13. <<m, i>> \notin X
  <2>1. ~ UpTo(calls, m, i)
    BY <1>2, <1>3, <1>4, <1>6, <1>11
  <2> QED BY <1>5, <2>1, DoneMember
<1>14. UpTo(cs, m, i)
  <2>1. \A k \in 1..n : calls[k].module = m => k = n
    BY <1>2, <1>3, <1>10
  <2> QED BY <1>6, <1>9, <1>12, <2>1
<1>15. ASSUME NEW x, NEW j \in Nat, <<x, j>> # <<m, i>>
       PROVE  UpTo(cs, x, j) <=> UpTo(calls, x, j)
  <2>1. CASE x # m
    BY <1>3, <1>9, <1>11, <1>12, <2>1
  <2>2. CASE x = m
    <3>1. \A k \in 1..n : calls[k].module = m => k = n
      BY <1>2, <1>3, <1>10
    <3>2. UpTo(calls, x, j) <=> j <= calls[n].items
      BY <1>2, <1>3, <1>11, <2>2, <3>1
    <3>3. UpTo(cs, x, j) <=> j <= i
      BY <1>2, <1>3, <1>9, <1>12, <2>2, <3>1
    <3>4. j # i
      BY <1>15, <2>2
    <3> QED BY <1>4, <1>6, <3>2, <3>3, <3>4
  <2> QED BY <2>1, <2>2
<1>16. DoneOf(prog.items, loaded, cs) = Y
  <2>1. ASSUME NEW d \in DoneOf(prog.items, loaded, cs) PROVE d \in Y
    <3>1. PICK x \in loaded : \E j \in 1..Len(prog.items[x]) : d = <<x, j>> /\ UpTo(cs, x, j)
      BY <1>8, DoneMember
    <3>2. PICK j \in 1..Len(prog.items[x]) : d = <<x, j>> /\ UpTo(cs, x, j)
      BY <3>1
    <3>3. CASE d = <<m, i>>
      BY <1>1, <3>3
    <3>4. CASE d # <<m, i>>
      <4>1. UpTo(calls, x, j)
        BY <1>15, <3>2, <3>4
      <4> QED BY <1>5, <1>1, <3>2, <4>1, DoneMember
    <3> QED BY <3>3, <3>4
  <2>2. ASSUME NEW d \in Y PROVE d \in DoneOf(prog.items, loaded, cs)
    <3>1. CASE d = <<m, i>>
      BY <1>3, <1>7, <1>8, <1>14, <3>1, DoneMember
    <3>2. CASE d # <<m, i>>
      <4>1. d \in X
        BY <1>1, <3>2
      <4>2. PICK x \in loaded : \E j \in 1..Len(prog.items[x]) : d = <<x, j>> /\ UpTo(calls, x, j)
        BY <1>5, <4>1, DoneMember
      <4>3. PICK j \in 1..Len(prog.items[x]) : d = <<x, j>> /\ UpTo(calls, x, j)
        BY <4>2
      <4>4. UpTo(cs, x, j)
        BY <1>15, <3>2, <4>3
      <4> QED BY <1>8, <4>3, <4>4, DoneMember
    <3> QED BY <3>1, <3>2
  <2> QED BY <2>1, <2>2
<1> QED BY <1>1, <1>13, <1>16

\* An item is loaded. A closure finds its info table loaded, which is what
\* InOrder says of the state afterwards.
LEMMA LoadItemKeeps ==
  ASSUME LoaderInv, InOrder', LoadItem
  PROVE  LoaderInv'
<1>1. LoaderType /\ CallsInv
  BY DEF LoaderInv
<1>2. LoaderType' /\ CallsInv' /\ ResultInv'
  BY LoadItemCalls
<1>3. PICK n \in Nat : \E m, i : OneItem(n, m, i, calls')
  BY LoadItemCalls
<1>4. PICK m, i : OneItem(n, m, i, calls')
  BY <1>3
<1>5. PICK cs : cs = calls'
  OBVIOUS
<1>6. PICK X : X = DoneOf(prog.items, loaded, calls)
  OBVIOUS
<1>7. PICK Y : Y = X \cup {<<m, i>>}
  OBVIOUS
<1>8. <<m, i>> \notin X /\ DoneOf(prog.items, loaded, cs) = Y
  BY <1>1, <1>4, <1>5, <1>6, <1>7, OneItemDone
<1>9. prog' = prog /\ loaded' = loaded
  BY DEF LoadItem
<1>10. n = Len(calls) /\ m = calls[n].module /\ i = calls[n].items + 1 /\ m \in Modules /\ i \in 1..Len(prog.items[m])
  BY <1>4 DEF OneItem
<1>11. (DoneOf(prog.items, loaded, calls))' = Y
  BY <1>5, <1>8, <1>9 DEF DoneOf
<1>12. Item(m, i).kind = "clos" => <<"info", Item(m, i).info>> \in NamesOf(X)
  <2> SUFFICES ASSUME Item(m, i).kind = "clos" PROVE <<"info", Item(m, i).info>> \in NamesOf(X)
    OBVIOUS
  <2>1. Done' = Y
    BY <1>11 DEF Done, DoneOf
  <2>2. \E d \in Y : Item(d[1], d[2]).kind = "info" /\ Item(d[1], d[2]).name = Item(m, i).info
    <3>1. <<m, i>> \in Y
      BY <1>7
    <3> QED BY <1>5, <1>9, <2>1, <3>1 DEF InOrder, Defined, Item
  <2>3. PICK d \in Y : Item(d[1], d[2]).kind = "info" /\ Item(d[1], d[2]).name = Item(m, i).info
    BY <2>2
  <2>4. d # <<m, i>>
    BY <2>3
  <2>5. d \in X
    BY <1>7, <2>4
  <2>6. NameOf(d[1], d[2]) = <<"info", Item(m, i).info>>
    BY <2>3 DEF NameOf
  <2> QED BY <2>5, <2>6 DEF NamesOf
<1>13. calls \in Seq(Activations)
  BY <1>1 DEF LoaderType
<1>14. \A d \in X : \E x \in Modules : \E j \in 1..Len(prog.items[x]) : d = <<x, j>>
  <2> SUFFICES ASSUME NEW d \in X PROVE \E x \in Modules : \E j \in 1..Len(prog.items[x]) : d = <<x, j>>
    OBVIOUS
  <2>1. PICK x \in loaded : \E j \in 1..Len(prog.items[x]) : d = <<x, j>> /\ UpTo(calls, x, j)
    BY <1>6, <1>13, DoneMember
  <2>2. x \in Modules
    BY <1>1 DEF LoaderType
  <2> QED BY <2>1, <2>2
<1>15. PICK s : s = Tables
  OBVIOUS
<1>16. LinkInv(s, WordsOf(X), NamesOf(X))
  BY <1>6, <1>15 DEF LoaderInv
<1>17. PICK t : t = loadItem(s, m, i)
  OBVIOUS
<1>18. prog \in Programs
  BY <1>1 DEF LoaderType
<1>19. LinkInv(t, WordsOf(Y), NamesOf(Y))
  BY <1>7, <1>8, <1>10, <1>12, <1>14, <1>16, <1>17, <1>18, ItemAdded
<1>20. Tables' = t
  <2>1. itab' = t.itab /\ ctab' = t.ctab /\ mem' = t.mem
    BY <1>10, <1>15, <1>17 DEF Caller, LoadItem
  <2>2. t = [itab |-> t.itab, ctab |-> t.ctab, mem |-> t.mem]
    BY <1>19 DEF LinkInv
  <2> QED BY <2>1, <2>2 DEF Tables
<1>21. (WordsOf(Y))' = WordsOf(Y) /\ (NamesOf(Y))' = NamesOf(Y)
  BY <1>5, <1>9 DEF WordsOf, NamesOf, ItemWords, NameOf, Item
<1> QED BY <1>2, <1>11, <1>19, <1>20, <1>21 DEF LoaderInv

\* The end of a call: every item of its module is in memory.
LEMMA ReturnModuleKeeps ==
  ASSUME LoaderInv, ReturnModule
  PROVE  LoaderInv'
<1> USE DEF ReturnModule
<1>1. LoaderType /\ CallsInv /\ ResultInv
  BY DEF LoaderInv
<1>2. PICK n \in Nat : n = Len(calls) /\ n # 0
  BY <1>1 DEF LoaderType
<1>3. calls \in Seq(Activations) /\ n \in 1..n
  BY <1>1, <1>2 DEF LoaderType
<1>4. PICK cs : cs = SubSeq(calls, 1, n - 1)
  OBVIOUS
<1>5. cs \in Seq(Activations) /\ Len(cs) = n - 1 /\ \A k \in 1..(n - 1) : cs[k] = calls[k]
  BY <1>2, <1>3, <1>4
<1>6. prog' = prog /\ loaded' = loaded /\ loads' = loads /\ Modules' = Modules /\ calls' = cs
  BY <1>2, <1>4 DEF Modules, Caller
<1>7. itab' = itab /\ ctab' = ctab /\ mem' = mem
  OBVIOUS
<1>8. Activations' = Activations /\ Tables' = Tables
  BY <1>6, <1>7 DEF Activations, Tables
<1>9. LoaderType'
  BY <1>1, <1>5, <1>6, <1>8 DEF LoaderType
<1>10. \A k \in 1..(n - 1) : k \in 1..n
  OBVIOUS
<1>11. CallsInv'
  <2>1. Bounded(cs)
    BY <1>1, <1>2, <1>5, <1>10 DEF CallsInv, Bounded
  <2>2. (Bounded(calls))' <=> Bounded(cs)
    BY <1>6 DEF Bounded
  <2> QED BY <1>1, <1>2, <1>5, <1>6, <1>10, <2>1, <2>2 DEF CallsInv
<1>12. ResultInv'
  <2>1. calls # << >> /\ loads # << >> /\ calls[1].module = Last(loads)
    BY <1>1 DEF ResultInv
  <2>2. cs # << >> => cs[1].module = calls[1].module
    BY <1>5
  <2>3. ok' /\ cs = << >> => checkNoForwardRefs(Tables)
    BY <1>2, <1>5 DEF Caller
  <2>4. (checkNoForwardRefs(Tables))' <=> checkNoForwardRefs(Tables)
    BY <1>8 DEF checkNoForwardRefs, Info
  <2>5. calls[1].module \in loaded
    BY <1>1, <1>2 DEF CallsInv
  <2> QED BY <1>6, <2>1, <2>2, <2>3, <2>4, <2>5 DEF ResultInv
<1>13. calls[n].items = Len(prog.items[calls[n].module])
  BY <1>2 DEF Caller, LastItem
<1>14. ASSUME NEW x, NEW i \in 1..Len(prog.items[x])
       PROVE  UpTo(cs, x, i) <=> UpTo(calls, x, i)
  <2>1. calls[n].module = x => i <= calls[n].items
    BY <1>13
  <2>2. \A k \in 1..n : k = n \/ k \in 1..(n - 1)
    OBVIOUS
  <2> QED BY <1>2, <1>5, <1>10, <2>1, <2>2 DEF UpTo
<1>15. \A d : d \in DoneOf(prog.items, loaded, cs) <=> d \in DoneOf(prog.items, loaded, calls)
  <2>1. \A d : d \in DoneOf(prog.items, loaded, cs) => d \in DoneOf(prog.items, loaded, calls)
    <3> SUFFICES ASSUME NEW d \in DoneOf(prog.items, loaded, cs)
                 PROVE  d \in DoneOf(prog.items, loaded, calls)
      OBVIOUS
    <3>1. cs \in Seq(Activations)
      BY <1>5
    <3>2. PICK x \in loaded : \E i \in 1..Len(prog.items[x]) : d = <<x, i>> /\ UpTo(cs, x, i)
      BY <3>1, DoneMember
    <3> QED BY <1>3, <1>14, <3>2, DoneMember
  <2>2. \A d : d \in DoneOf(prog.items, loaded, calls) => d \in DoneOf(prog.items, loaded, cs)
    <3> SUFFICES ASSUME NEW d \in DoneOf(prog.items, loaded, calls)
                 PROVE  d \in DoneOf(prog.items, loaded, cs)
      OBVIOUS
    <3>1. PICK x \in loaded : \E i \in 1..Len(prog.items[x]) : d = <<x, i>> /\ UpTo(calls, x, i)
      BY <1>3, DoneMember
    <3> QED BY <1>5, <1>14, <3>1, DoneMember
  <2> QED BY <2>1, <2>2
<1>16. DoneOf(prog.items, loaded', calls') = DoneOf(prog.items, loaded, calls)
  BY <1>6, <1>15
<1> QED BY <1>6, <1>7, <1>9, <1>11, <1>12, <1>16, TablesKept

\* Every step of the loader keeps the invariant, if no closure was loaded
\* before its info table.
LEMMA LoaderStep ==
  ASSUME LoaderInv, InOrder', [LoaderNext]_loaderVars
  PROVE  LoaderInv'
<1>1. CASE \E m \in Modules : LoadModule(m)
  BY <1>1, LoadModuleKeeps
<1>2. CASE Import
  BY <1>2, ImportKeeps
<1>3. CASE LoadItem
  BY <1>3, LoadItemKeeps
<1>4. CASE ReturnModule
  BY <1>4, ReturnModuleKeeps
<1>5. CASE UNCHANGED loaderVars
  <2>1. /\ prog' = prog /\ loaded' = loaded /\ calls' = calls /\ itab' = itab
        /\ ctab' = ctab /\ mem' = mem /\ loads' = loads /\ ok' = ok
    BY <1>5 DEF loaderVars
  <2>2. Modules' = Modules /\ Tables' = Tables
    BY <2>1 DEF Modules, Tables
  <2>3. Activations' = Activations
    BY <2>2 DEF Activations
  <2>4. LoaderType'
    BY <2>1, <2>2, <2>3 DEF LoaderInv, LoaderType
  <2>5. CallsInv'
    BY <2>1 DEF LoaderInv, CallsInv, Bounded
  <2>6. (checkNoForwardRefs(Tables))' <=> checkNoForwardRefs(Tables)
    BY <2>2 DEF checkNoForwardRefs, Info
  <2>7. ResultInv'
    BY <2>1, <2>6 DEF LoaderInv, ResultInv
  <2>8. DoneOf(prog.items, loaded', calls') = DoneOf(prog.items, loaded, calls)
    BY <2>1
  <2> QED BY <2>1, <2>4, <2>5, <2>7, <2>8, TablesKept
<1> QED BY <1>1, <1>2, <1>3, <1>4, <1>5 DEF LoaderNext

\* The property of the runs follows from the invariant.
LEMMA LoaderExact == LoaderInv => ReferencesExact
<1> SUFFICES ASSUME LoaderInv PROVE ReferencesExact
  OBVIOUS
<1>1. LoaderType /\ CallsInv /\ ResultInv
  BY DEF LoaderInv
<1>2. PICK X : X = Done
  OBVIOUS
<1>3. PICK W : W = WordsOf(X)
  OBVIOUS
<1>4. PICK D : D = NamesOf(X)
  OBVIOUS
<1>5. PICK s : s = Tables
  OBVIOUS
<1>6. LinkInv(s, W, D)
  BY <1>2, <1>3, <1>4, <1>5, DoneEqual DEF LoaderInv, DoneNow
<1>7. W = LoadedWords
  BY <1>2, <1>3 DEF WordsOf, ItemWords, LoadedWords
<1>8. \A d \in X : \E x \in Modules : \E j \in 1..Len(prog.items[x]) : d = <<x, j>>
  <2> SUFFICES ASSUME NEW d \in X PROVE \E x \in Modules : \E j \in 1..Len(prog.items[x]) : d = <<x, j>>
    OBVIOUS
  <2>1. d \in DoneOf(prog.items, loaded, calls) /\ calls \in Seq(Activations)
    BY <1>1, <1>2, DoneEqual DEF DoneNow, LoaderType
  <2>2. PICK x \in loaded : \E j \in 1..Len(prog.items[x]) : d = <<x, j>> /\ UpTo(calls, x, j)
    BY <2>1, DoneMember
  <2>3. x \in Modules
    BY <1>1 DEF LoaderType
  <2> QED BY <2>2, <2>3
<1>9. \A w \in W : w[2] = <<w[2][1], w[2][2]>>
  <2> SUFFICES ASSUME NEW w \in W PROVE w[2] = <<w[2][1], w[2][2]>>
    OBVIOUS
  <2>1. PICK d \in X : w \in ItemWords(d[1], d[2])
    BY <1>3 DEF WordsOf
  <2>2. PICK x \in Modules : \E i \in 1..Len(prog.items[x]) : d = <<x, i>>
    BY <1>8
  <2>3. PICK i \in 1..Len(prog.items[x]) : d = <<x, i>>
    BY <2>2
  <2>4. PICK C : C = Content(Item(x, i))
    OBVIOUS
  <2>5. PICK j \in DOMAIN C : w = <<Loc(x, i, j), C[j]>>
    BY <2>1, <2>3, <2>4 DEF ItemWords
  <2>6. PICK q : q = Item(x, i).refs
    OBVIOUS
  <2>7. DOMAIN q = 1..Len(q) /\ \A k \in 1..Len(q) : q[k] = <<q[k][1], q[k][2]>>
    BY <1>1, <2>6, ItemFacts DEF LoaderType
  <2>8. C[j] = <<C[j][1], C[j][2]>>
    <3>1. CASE Item(x, i).kind = "info"
      BY <2>4, <2>5, <2>6, <2>7, <3>1 DEF Content
    <3>2. CASE Item(x, i).kind # "info"
      <4>1. PICK z : z = Item(x, i).info
        OBVIOUS
      <4>2. C = [k \in 0..Len(q) |-> IF k = 0 THEN <<"info", z>> ELSE q[k]]
        BY <2>4, <2>6, <3>2, <4>1 DEF Content
      <4>3. j \in 0..Len(q)
        BY <2>5, <4>2
      <4>4. CASE j = 0
        BY <4>2, <4>3, <4>4
      <4>5. CASE j # 0
        <5>1. j \in 1..Len(q)
          BY <1>1, <2>6, <4>3, <4>5, ItemFacts DEF LoaderType
        <5> QED BY <2>7, <4>2, <4>3, <4>5, <5>1
      <4> QED BY <4>4, <4>5
    <3> QED BY <3>1, <3>2
  <2> QED BY <2>5, <2>8
<1>10. \A r \in Names : r = <<r[1], r[2]>> /\ r[1] \in {"info", "clos"} /\ \E w \in W : w[2] = r
  BY <1>7, <1>9 DEF Names
<1>11. ASSUME NEW r \in Names PROVE Defined(r[1], r[2]) <=> r \in D
  <2>1. r = <<r[1], r[2]>>
    BY <1>10
  <2>2. \A x, i : NameOf(x, i) = r <=> Item(x, i).kind = r[1] /\ Item(x, i).name = r[2]
    BY <2>1 DEF NameOf
  <2> QED BY <1>2, <1>4, <2>2 DEF Defined, NamesOf
<1>12. \A r : Refs(r) = RefsIn(W, r)
  BY <1>7 DEF Refs, RefsIn
<1>13. s.itab = itab /\ s.ctab = ctab /\ s.mem = mem
  BY <1>5 DEF Tables
<1>14. ASSUME NEW r \in Names
       PROVE  IF Defined(r[1], r[2])
              THEN \A l \in Refs(r) : mem[l] = Addr(r[1], r[2])
              ELSE LET first == IF r[1] = "info" THEN itab[r[2]] ELSE mem[Dummy(r[2])]
                   IN /\ Linked(Tables, first) = Refs(r)
                      /\ Cardinality({l \in Refs(r) : mem[l] = Null}) = 1
  <2>1. r = <<r[1], r[2]>> /\ r[1] \in {"info", "clos"}
    BY <1>10
  <2>2. PICK w0 \in W : w0[2] = r
    BY <1>10
  <2>3. /\ r \in D => \A l \in RefsIn(W, r) : s.mem[l] = Addr(r[1], r[2])
        /\ r \notin D =>
             LET first == IF r[1] = "info" THEN s.itab[r[2]] ELSE s.mem[Dummy(r[2])]
             IN /\ Linked(s, first) = RefsIn(W, r)
                /\ Cardinality({l \in RefsIn(W, r) : s.mem[l] = Null}) = 1
    BY <1>6, <2>1, <2>2, LinkedExact
  <2> QED BY <1>5, <1>11, <1>12, <1>13, <2>3
<1>15. ASSUME NEW w \in LoadedWords, w[2][1] = "word" PROVE mem[w[1]] = w[2]
  BY <1>6, <1>7, <1>13, <1>15 DEF LinkInv, WordInv
<1>16. ASSUME ok, calls = << >> PROVE Last(loads) \in loaded /\ \A r \in Names : Defined(r[1], r[2])
  <2>1. Last(loads) \in loaded /\ checkNoForwardRefs(s)
    BY <1>1, <1>5, <1>16 DEF ResultInv
  <2>2. ASSUME NEW r \in Names PROVE r \in D
    <3>1. r = <<r[1], r[2]>> /\ r[1] \in {"info", "clos"}
      BY <1>10
    <3>2. PICK w0 \in W : w0[2] = r
      BY <1>10
    <3> QED BY <1>6, <2>1, <3>1, <3>2, CheckedLoaded
  <2> QED BY <1>11, <2>1, <2>2
<1> QED BY <1>14, <1>15, <1>16 DEF ReferencesExact

\* Every reference is patched and nothing else is, whatever the modules refer
\* to, in whatever order they import each other and wherever loading fails, as
\* long as no closure is loaded before its info table
\* (loadInfoTableReference, loadClosureReference, the two fix*ForwardReference
\* and checkNoForwardRefs of loader.cc): the property ReferencesExact. Without
\* InOrder it is false, which the run loader_recursive shows.
THEOREM ReferencesHold == LoaderSpec /\ []InOrder => []ReferencesExact
<1>1. LoaderInv /\ InOrder' /\ [LoaderNext]_loaderVars => LoaderInv'
  BY LoaderStep
<1> QED BY <1>1, LoaderStart, LoaderExact, PTL DEF LoaderSpec

\* A static closure's info table is in its own module, which has its info
\* tables first.
OwnInfo ==
  \A p \in Programs : \A m \in DOMAIN p.items : \A i \in DOMAIN p.items[m] :
    p.items[m][i].kind = "clos" =>
      \E j \in 1..(i - 1) : p.items[m][j].kind = "info" /\ p.items[m][j].name = p.items[m][i].info

\* In such a program every closure comes after its info table.
LEMMA OwnInOrder == OwnInfo /\ LoaderType => InOrder
<1> SUFFICES ASSUME OwnInfo, LoaderType, NEW d \in Done, Item(d[1], d[2]).kind = "clos"
             PROVE  Defined("info", Item(d[1], d[2]).info)
  BY DEF InOrder
<1>1. calls \in Seq(Activations)
  BY DEF LoaderType
<1>2. d \in DoneOf(prog.items, loaded, calls)
  BY DoneEqual DEF DoneNow
<1>3. PICK m \in loaded : \E i \in 1..Len(prog.items[m]) : d = <<m, i>> /\ UpTo(calls, m, i)
  BY <1>1, <1>2, DoneMember
<1>4. PICK i \in 1..Len(prog.items[m]) : d = <<m, i>> /\ UpTo(calls, m, i)
  BY <1>3
<1>5. m \in Modules /\ prog \in Programs
  BY DEF LoaderType
<1>6. i \in DOMAIN prog.items[m] /\ Len(prog.items[m]) \in Nat
  <2>1. prog.items[m] \in Seq(Range(prog.items[m]))
    BY <1>5, LoaderAssumption DEF Modules
  <2> QED BY <2>1
<1>7. Item(m, i).kind = "clos"
  BY <1>4
<1>8. PICK j \in 1..(i - 1) : Item(m, j).kind = "info" /\ Item(m, j).name = Item(m, i).info
  BY <1>5, <1>6, <1>7 DEF OwnInfo, Modules, Item
<1>9. j \in 1..Len(prog.items[m]) /\ j <= i /\ j \in Nat /\ i \in Nat
  BY <1>6
<1>10. UpTo(calls, m, j)
  <2>1. ASSUME NEW k \in 1..Len(calls), calls[k].module = m PROVE j <= calls[k].items
    <3>1. i <= calls[k].items
      BY <1>4, <2>1 DEF UpTo
    <3>2. calls[k] \in Activations
      BY <1>1
    <3>3. calls[k].items \in Nat
      BY <3>2 DEF Activations
    <3> QED BY <1>9, <3>1, <3>3
  <2> QED BY <2>1 DEF UpTo
<1>11. <<m, j>> \in Done
  <2>1. <<m, j>> \in DoneOf(prog.items, loaded, calls)
    BY <1>1, <1>9, <1>10, DoneMember
  <2> QED BY <2>1, DoneEqual DEF DoneNow
<1> QED BY <1>4, <1>8, <1>11 DEF Defined

\* The activations keep their form, in order or not.
LEMMA LoaderTypeStep ==
  ASSUME LoaderInv, [LoaderNext]_loaderVars
  PROVE  LoaderType'
<1>1. CASE \E m \in Modules : LoadModule(m)
  BY <1>1, LoadModuleKeeps DEF LoaderInv
<1>2. CASE Import
  BY <1>2, ImportKeeps DEF LoaderInv
<1>3. CASE LoadItem
  BY <1>3, LoadItemCalls
<1>4. CASE ReturnModule
  BY <1>4, ReturnModuleKeeps DEF LoaderInv
<1>5. CASE UNCHANGED loaderVars
  <2>1. prog' = prog /\ loaded' = loaded /\ calls' = calls /\ loads' = loads
    BY <1>5 DEF loaderVars
  <2> QED BY <2>1 DEF LoaderInv, LoaderType, Modules, Activations
<1> QED BY <1>1, <1>2, <1>3, <1>4, <1>5 DEF LoaderNext

\* Every reference of a program whose static closures use the info tables of
\* their own module is patched (loadModuleBody reads the info tables of a
\* module before its closures): the property ReferencesExact with no condition
\* on the behaviour.
THEOREM OwnReferencesHold == OwnInfo => (LoaderSpec => []ReferencesExact)
<1> SUFFICES ASSUME OwnInfo PROVE LoaderSpec => []ReferencesExact
  OBVIOUS
<1>1. LoaderInv /\ [LoaderNext]_loaderVars => LoaderType'
  BY LoaderTypeStep
<1>2. LoaderType => InOrder
  BY OwnInOrder
<1>3. LoaderInv /\ InOrder' /\ [LoaderNext]_loaderVars => LoaderInv'
  BY LoaderStep
<1> QED BY <1>1, <1>2, <1>3, LoaderStart, LoaderExact, PTL DEF LoaderSpec

-----------------------------------------------------------------------------
(***************************************************************************)
(* The closures of the virtual machine and their pointer maps. There are   *)
(* as many masks of n bits as sets of n numbers, which gives the powers of *)
(* two; the bits of a chunk are those of its place in the mask, and the    *)
(* bit behind them does not disturb them. The three forms of maps are all  *)
(* read by one lemma.                                                      *)
(***************************************************************************)

\* As many sets of numbers as there are masks.
LEMMA PowerIsCard ==
  ASSUME NEW n \in Nat
  PROVE  IsFiniteSet(SUBSET (1..n)) /\ Cardinality(SUBSET (1..n)) = 2^n /\ 2^n \in Nat
<1>1. IsFiniteSet(1..n) /\ Cardinality(1..n) = n
  BY FS_Interval
<1>2. IsFiniteSet(SUBSET (1..n)) /\ Cardinality(SUBSET (1..n)) = 2^n
  BY <1>1, FS_SUBSET
<1> QED BY <1>2, FS_CardinalityType

\* Powers of two.
LEMMA Double ==
  ASSUME NEW n \in Nat
  PROVE  2^(n + 1) = 2 * 2^n
<1> DEFINE A == SUBSET (1..n)
           B == {S \cup {n + 1} : S \in A}
<1>1. IsFiniteSet(A) /\ Cardinality(A) = 2^n /\ 2^n \in Nat
  BY PowerIsCard
<1>2. PICK k : k = n + 1
  OBVIOUS
<1>3. k \in Nat /\ Cardinality(SUBSET (1..k)) = 2^k
  <2>1. k \in Nat
    BY <1>2
  <2> QED BY <2>1, PowerIsCard
<1>4. k \notin 1..n /\ 1..k = (1..n) \cup {k}
  BY <1>2
<1>5. ExistsBijection(A, B)
  <2> DEFINE f == [S \in A |-> S \cup {k}]
  <2>1. f \in [A -> B]
    BY <1>2
  <2>2. \A S, T \in A : f[S] = f[T] => S = T
    <3> SUFFICES ASSUME NEW S \in A, NEW T \in A, S \cup {k} = T \cup {k} PROVE S = T
      OBVIOUS
    <3>1. k \notin S /\ k \notin T
      BY <1>4
    <3> QED BY <3>1
  <2>3. \A t \in B : \E S \in A : f[S] = t
    BY <1>2
  <2>4. f \in Bijection(A, B)
    BY <2>1, <2>2, <2>3 DEF Bijection, Injection, Surjection, IsInjective
  <2> QED BY <2>4 DEF ExistsBijection
<1>6. IsFiniteSet(B) /\ Cardinality(B) = 2^n
  BY <1>1, <1>5, FS_Bijection
<1>7. SUBSET (1..k) = A \cup B
  <2>1. ASSUME NEW S \in SUBSET (1..k) PROVE S \in A \cup B
    <3>1. CASE k \in S
      <4>1. S \ {k} \in A /\ S = (S \ {k}) \cup {k}
        BY <1>4, <2>1, <3>1
      <4> QED BY <1>2, <4>1
    <3>2. CASE k \notin S
      BY <1>4, <2>1, <3>2
    <3> QED BY <3>1, <3>2
  <2>2. \A S \in A : S \subseteq 1..k /\ S \cup {k} \subseteq 1..k
    BY <1>4
  <2>3. \A S \in B : S \subseteq 1..k
    BY <1>2, <2>2
  <2> QED BY <2>1, <2>2, <2>3
<1>8. A \cap B = {}
  BY <1>2, <1>4
<1>9. Cardinality(A \cap B) = 0
  BY <1>8, FS_EmptySet
<1> HIDE DEF A, B
<1>10. Cardinality(A \cup B) = 2^n + 2^n - 0
  BY <1>1, <1>6, <1>9, FS_Union
<1>11. PICK p \in Nat : p = 2^n
  BY <1>1
<1>12. 2^k = 2 * p
  <2>1. 2^k = p + p - 0
    BY <1>3, <1>7, <1>10, <1>11
  <2> QED BY <1>11, <2>1
<1> QED BY <1>2, <1>11, <1>12

\* Powers of two are positive.
LEMMA PowerPos ==
  \A n \in Nat : 2^n \in Nat /\ 2^n > 0
<1> DEFINE T == {n \in Nat : 2^n > 0}
<1>1. 0 \in T
  OBVIOUS
<1>2. \A n \in T : n + 1 \in T
  BY Double, PowerIsCard
<1> HIDE DEF T
<1>3. T = Nat
  <2>1. T \in SUBSET Nat
    BY DEF T
  <2> QED BY <1>1, <1>2, <2>1, SetInduction
<1> QED BY <1>3, PowerIsCard DEF T

\* They add up.
LEMMA PowerSum ==
  ASSUME NEW a \in Nat
  PROVE  \A b \in Nat : 2^(a + b) = 2^a * 2^b
<1> DEFINE T == {b \in Nat : 2^(a + b) = 2^a * 2^b}
<1>1. 0 \in T
  <2>1. 2^a \in Nat
    BY PowerPos
  <2> QED BY <2>1
<1>2. ASSUME NEW b \in T PROVE b + 1 \in T
  <2>1. 2^(a + b) = 2^a * 2^b /\ b \in Nat /\ 2^a \in Nat /\ 2^b \in Nat
    BY <1>2, PowerPos
  <2>2. 2^((a + b) + 1) = 2 * 2^(a + b)
    <3>1. PICK s \in Nat : s = a + b
      BY <2>1
    <3> QED BY <3>1, Double
  <2>3. 2^(b + 1) = 2 * 2^b
    BY <2>1, Double
  <2>4. a + (b + 1) = (a + b) + 1
    BY <2>1
  <2>5. \A x, y \in Nat : x * (2 * y) = 2 * (x * y)
    OBVIOUS
  <2>6. 2^(a + (b + 1)) = 2 * (2^a * 2^b)
    BY <2>1, <2>2, <2>4
  <2>7. 2^a * 2^(b + 1) = 2 * (2^a * 2^b)
    BY <2>1, <2>3, <2>5
  <2> QED BY <2>1, <2>6, <2>7
<1> HIDE DEF T
<1>3. T = Nat
  <2>1. T \in SUBSET Nat
    BY DEF T
  <2> QED BY <1>1, <1>2, <2>1, SetInduction
<1> QED BY <1>3 DEF T

\* They grow.
LEMMA PowerLess ==
  ASSUME NEW a \in Nat, NEW b \in Nat, a < b
  PROVE  2^a < 2^b /\ 2 * 2^a <= 2^b
<1>1. PICK d \in Nat : b = (a + 1) + d
  <2>1. b - (a + 1) \in Nat /\ b = (a + 1) + (b - (a + 1))
    OBVIOUS
  <2> QED BY <2>1
<1>2. PICK c \in Nat : c = a + 1
  OBVIOUS
<1>3. 2^(c + d) = 2^c * 2^d
  BY PowerSum
<1>4. PICK p \in Nat : p = 2^a /\ p > 0
  BY PowerPos
<1>5. PICK q \in Nat : q = 2^d /\ q > 0
  BY PowerPos
<1>6. 2^c = 2 * p
  BY <1>2, <1>4, Double
<1>7. 2^b = (2 * p) * q
  BY <1>1, <1>2, <1>3, <1>5, <1>6
<1>8. (2 * p) * q >= 2 * p
  <2>1. PICK r \in Nat : r = 2 * p
    OBVIOUS
  <2>2. r * q >= r
    BY <1>5
  <2> QED BY <2>1, <2>2
<1> QED BY <1>4, <1>7, <1>8

\* Products of sums and of products.
LEMMA Times ==
  ASSUME NEW x \in Nat, NEW y \in Nat, NEW z \in Nat
  PROVE  x * (y + z) = (x * y) + (x * z) /\ x * (y * z) = (x * y) * z /\ x * y \in Nat /\ x * y = y * x
OBVIOUS

\* A number, its quotient and its remainder.
LEMMA Parts ==
  ASSUME NEW x \in Nat, NEW d \in Nat \ {0}
  PROVE  x \div d \in Nat /\ x % d \in 0..(d - 1) /\ x = (d * (x \div d)) + (x % d)
OBVIOUS

\* Digits of digits.
LEMMA Nest ==
  ASSUME NEW m \in Nat, NEW p \in Nat \ {0}, NEW q \in Nat \ {0}
  PROVE  /\ (m \div p) \div q = m \div (p * q)
         /\ (m % (p * q)) \div p = (m \div p) % q
<1>1. PICK a \in Nat, r \in 0..(p - 1) : a = m \div p /\ m = (p * a) + r
  BY SMT
<1>2. PICK b \in Nat, s \in 0..(q - 1) : b = a \div q /\ s = a % q /\ a = (q * b) + s
  BY SMT
<1>3. PICK d \in Nat \ {0} : d = p * q
  OBVIOUS
<1>4. PICK t \in 0..(d - 1) : t = (p * s) + r
  BY <1>1, <1>2, <1>3, Pair
<1>5. m = (d * b) + t
  <2>1. PICK u \in Nat : u = q * b
    BY <1>2
  <2>2. p * (u + s) = (p * u) + (p * s)
    BY <1>2, Times
  <2>3. p * u = d * b
    BY <1>2, <1>3, <2>1, Times
  <2>4. PICK v \in Nat, w \in Nat : v = d * b /\ w = p * s
    <3>1. s \in Nat
      BY <1>2
    <3>2. p * s \in Nat /\ d * b \in Nat
      BY <1>2, <1>3, <3>1, Times
    <3> QED BY <3>2
  <2>5. p * a = v + w
    BY <1>2, <2>1, <2>2, <2>3, <2>4
  <2> QED BY <1>1, <1>4, <2>4, <2>5
<1>6. (m % d) = t /\ (m \div d) = b
  <2>1. d \in Nat \ {0} /\ t \in 0..(d - 1) /\ b \in Nat /\ m = (d * b) + t
    BY <1>2, <1>3, <1>4, <1>5
  <2> QED BY ONLY <2>1, Digits
<1>7. t \div p = s
  BY <1>1, <1>2, <1>4, Digits
<1> QED BY <1>1, <1>2, <1>3, <1>6, <1>7

\* The quotient of a quotient.
QuotientsNest(m, p, q) == (m \div p) \div q = m \div (p * q)

\* It holds of any number.
LEMMA QuotientOfQuotient ==
  ASSUME NEW m \in Nat, NEW p \in Nat \ {0}, NEW q \in Nat \ {0}
  PROVE  QuotientsNest(m, p, q)
BY Nest DEF QuotientsNest

\* The parity of a remainder by an even number.
LEMMA ModEven ==
  ASSUME NEW x \in Nat, NEW t \in Nat \ {0}
  PROVE  (x % (2 * t)) % 2 = x % 2
<1>1. PICK e \in Nat \ {0} : e = 2 * t
  OBVIOUS
<1>2. PICK k \in Nat, r \in Nat : x = (e * k) + r /\ r = x % e
  <2>1. PICK k, r : k = x \div e /\ r = x % e
    OBVIOUS
  <2>2. k \in Nat /\ r \in 0..(e - 1) /\ x = (e * k) + r
    BY <2>1, Parts
  <2>3. k \in Nat /\ r \in Nat /\ x = (e * k) + r /\ r = x % e
    BY <2>1, <2>2
  <2> QED BY ONLY <2>3
<1>3. PICK h \in Nat : h = t * k
  BY <1>2
<1>4. x = (2 * h) + r
  <2>1. (2 * t) * k = 2 * (t * k)
    BY <1>2
  <2> QED BY <1>1, <1>2, <1>3, <2>1
<1>5. x % 2 = r % 2
  BY <1>2, <1>3, <1>4
<1> QED BY <1>1, <1>2, <1>5

\* A power above another is a multiple of twice that one.
LEMMA PowerAbove ==
  ASSUME NEW j \in Nat, NEW b \in Nat, j < b
  PROVE  \E t \in Nat \ {0} : 2^b = 2^j * (2 * t)
<1>1. PICK d \in Nat : d = b - (j + 1)
  OBVIOUS
<1>2. PICK e \in Nat : e = d + 1 /\ b = j + e
  BY <1>1
<1>3. PICK t \in Nat \ {0} : t = 2^d
  BY PowerPos
<1>4. 2^e = 2 * t
  BY <1>1, <1>2, <1>3, Double
<1>5. 2^(j + e) = 2^j * 2^e
  BY <1>2, PowerSum
<1> QED BY <1>2, <1>3, <1>4, <1>5

\* A bit is zero or one.
LEMMA BitType ==
  ASSUME NEW m \in Nat, NEW i \in Nat
  PROVE  Bit(m, i) \in {0, 1} /\ Bit(m, i) = (m \div 2^i) % 2
<1>1. PICK p \in Nat \ {0} : p = 2^i
  BY PowerPos
<1>2. m \div p \in Nat
  OBVIOUS
<1> QED BY <1>1, <1>2 DEF Bit

\* A bit of a chunk.
LEMMA BitOfChunk ==
  ASSUME NEW m \in Nat, NEW a \in Nat, NEW b \in Nat, NEW j \in Nat, j < b
  PROVE  Bit((m \div 2^a) % 2^b, j) = Bit(m, a + j)
<1>1. PICK p \in Nat \ {0} : p = 2^a
  BY PowerPos
<1>2. PICK q \in Nat \ {0} : q = 2^j
  BY PowerPos
<1>3. PICK t \in Nat \ {0} : 2^b = q * (2 * t)
  BY <1>2, PowerAbove
<1>4. PICK x \in Nat : x = m \div p
  OBVIOUS
<1>5. PICK e \in Nat \ {0} : e = 2 * t
  OBVIOUS
<1>6. (x % (q * e)) \div q = (x \div q) % e
  BY Nest
<1>7. x \div q \in Nat
  OBVIOUS
<1>8. ((x \div q) % e) % 2 = (x \div q) % 2
  BY <1>5, <1>7, ModEven
<1>9. x \div q = m \div (p * q)
  <2>1. (m \div p) \div q = m \div (p * q)
    <3>1. QuotientsNest(m, p, q)
      BY QuotientOfQuotient
    <3> QED BY <3>1 DEF QuotientsNest
  <2> QED BY <1>4, <2>1
<1>10. 2^(a + j) = p * q
  BY <1>1, <1>2, PowerSum
<1>11. Bit((m \div 2^a) % 2^b, j) = ((x % (q * e)) \div q) % 2
  <2>1. PICK y : y = (m \div 2^a) % 2^b
    OBVIOUS
  <2>2. y = x % (q * e)
    BY <1>1, <1>3, <1>4, <1>5, <2>1
  <2>3. Bit(y, j) = (y \div q) % 2
    BY <1>2 DEF Bit
  <2> QED BY <2>1, <2>2, <2>3
<1>12. Bit(m, a + j) = (m \div (p * q)) % 2
  BY <1>10 DEF Bit
<1> QED BY <1>6, <1>8, <1>9, <1>11, <1>12

\* A bit below what is added.
LEMMA BitBelow ==
  ASSUME NEW c \in Nat, NEW b \in Nat, NEW j \in Nat, j < b, NEW k \in Nat
  PROVE  Bit(c + (2^b * k), j) = Bit(c, j)
<1>1. PICK q \in Nat \ {0} : q = 2^j
  BY PowerPos
<1>2. PICK t \in Nat \ {0} : 2^b = q * (2 * t)
  BY <1>1, PowerAbove
<1>3. PICK a \in Nat, r \in 0..(q - 1) : a = c \div q /\ c = (q * a) + r
  BY SMT
<1>4. PICK h \in Nat : h = t * k
  OBVIOUS
<1>5. (q * (2 * t)) * k = q * (2 * h)
  BY <1>4
<1>6. PICK f \in Nat : f = a + (2 * h)
  BY <1>3, <1>4
<1>7. c + (2^b * k) = (q * f) + r
  <2>1. PICK g \in Nat : g = 2 * h
    BY <1>4
  <2>2. q * (a + g) = (q * a) + (q * g)
    BY <1>3, Times
  <2>3. PICK u \in Nat, v \in Nat : u = q * a /\ v = q * g
    BY <1>3
  <2>4. q * f = u + v
    BY <1>6, <2>1, <2>2, <2>3
  <2>5. 2^b * k = v
    BY <1>2, <1>5, <2>1, <2>3
  <2> QED BY <1>3, <2>3, <2>4, <2>5
<1>8. (c + (2^b * k)) \div q = f
  <2>1. PICK x : x = c + (2^b * k)
    OBVIOUS
  <2>2. r \in 0..(q - 1) /\ x = (q * f) + r
    BY <1>3, <1>7, <2>1
  <2>3. x \div q = f
    BY <1>6, <2>2, Digits
  <2> QED BY <2>1, <2>3
<1>9. f % 2 = a % 2
  <2>1. a \in Nat /\ h \in Nat /\ f = a + (2 * h)
    BY <1>3, <1>4, <1>6
  <2> QED BY ONLY <2>1
<1> QED BY <1>1, <1>3, <1>8, <1>9 DEF Bit

\* A number has no bits from its length on.
LEMMA BitHigh ==
  ASSUME NEW n \in Nat, NEW m \in 0..(2^n - 1), NEW i \in Nat, n <= i
  PROVE  Bit(m, i) = 0
<1>1. PICK p \in Nat \ {0} : p = 2^n
  BY PowerPos
<1>2. PICK q \in Nat \ {0} : q = 2^i
  BY PowerPos
<1>3. p <= q
  <2>1. CASE n = i
    BY <1>1, <1>2, <2>1
  <2>2. CASE n < i
    BY <1>1, <1>2, <2>2, PowerLess
  <2> QED BY <2>1, <2>2
<1>4. m \in 0..(q - 1) /\ m \in Nat
  BY <1>1, <1>3
<1>5. m = (q * 0) + m
  BY <1>4
<1>6. m \div q = 0
  BY <1>4, <1>5, Digits
<1> QED BY <1>2, <1>6 DEF Bit

\* All its bits are one.
LEMMA LiveBits ==
  ASSUME NEW n \in Nat, NEW i \in Nat, i < n
  PROVE  Bit(2^n - 1, i) = 1
<1>1. PICK q \in Nat \ {0} : q = 2^i
  BY PowerPos
<1>2. PICK t \in Nat \ {0} : 2^n = q * (2 * t)
  BY <1>1, PowerAbove
<1>3. PICK a \in Nat : a = (2 * t) - 1
  OBVIOUS
<1>4. 2^n - 1 = (q * a) + (q - 1)
  <2>1. q * ((2 * t) - 1) = (q * (2 * t)) - q
    OBVIOUS
  <2>2. q * (2 * t) \in Nat
    OBVIOUS
  <2> QED BY <1>2, <1>3, <2>1, <2>2
<1>5. q - 1 \in 0..(q - 1)
  OBVIOUS
<1>6. (2^n - 1) \div q = a
  <2>1. PICK x : x = 2^n - 1
    OBVIOUS
  <2>2. x = (q * a) + (q - 1)
    BY <1>4, <2>1
  <2>3. x \div q = a
    <3>1. q \in Nat \ {0} /\ a \in Nat /\ q - 1 \in 0..(q - 1) /\ x = (q * a) + (q - 1)
      BY <1>3, <1>5, <2>2
    <3>2. PICK l : l = q - 1
      OBVIOUS
    <3> QED BY ONLY <3>1, <3>2, Digits
  <2> QED BY <2>1, <2>3
<1>7. a % 2 = 1
  BY <1>3
<1> QED BY <1>1, <1>6, <1>7 DEF Bit

\* The bits of a mask move up by one.
LEMMA BitShifted ==
  ASSUME NEW m \in Nat, NEW i \in Nat
  PROVE  Bit((2 * m) + 1, i + 1) = Bit(m, i) /\ Bit((2 * m) + 1, 0) = 1
<1>1. PICK q \in Nat \ {0} : q = 2^i
  BY PowerPos
<1>2. PICK x \in Nat : x = (2 * m) + 1
  OBVIOUS
<1>3. x \div 2 = m /\ x % 2 = 1
  BY <1>2
<1>4. 2^(i + 1) = 2 * q
  BY <1>1, Double
<1>5. m \div q = x \div (2 * q)
  <2>1. 2 \in Nat \ {0}
    OBVIOUS
  <2>2. (x \div 2) \div q = x \div (2 * q)
    BY <2>1, Nest
  <2> QED BY <1>3, <2>2
<1>6. Bit(x, i + 1) = Bit(m, i)
  BY <1>1, <1>4, <1>5 DEF Bit
<1>7. 2^0 = 1 /\ x \div 1 = x
  OBVIOUS
<1>8. Bit(x, 0) = 1
  BY <1>3, <1>7 DEF Bit
<1> QED BY <1>2, <1>6, <1>8

\* The types of the constants.
LEMMA MiscConstants ==
  /\ ChunkBits \in Nat /\ ChunkBits >= 2 /\ MaxArgs \in Nat /\ MaxArgs <= MaskBits2
  /\ MaskBits2 \in Nat /\ MaskBits2 <= 3 * ChunkBits
  /\ Cont \in Nat /\ Cont > 0 /\ Cont = 2^ChunkBits
<1>1. ChunkBits \in Nat /\ ChunkBits >= 2 /\ MaxArgs \in Nat /\ MaxArgs <= 2 * ChunkBits + 2
  BY MiscClosuresAssumption
<1>2. Cont \in Nat /\ Cont > 0
  BY <1>1, PowerPos DEF Cont
<1> QED BY <1>1, <1>2 DEF MaskBits2, Cont

\* A chunk has the bits of its place.
LEMMA ChunkBit ==
  ASSUME NEW m \in Nat, NEW i \in Nat \ {0}
  PROVE  /\ Chunk(m, i) \in Nat /\ Chunk(m, i) < Cont
         /\ \A j \in 0..(ChunkBits - 1) : Bit(Chunk(m, i), j) = Bit(m, (ChunkBits * (i - 1)) + j)
<1>1. PICK a \in Nat : a = ChunkBits * (i - 1)
  BY MiscConstants
<1>2. PICK p \in Nat \ {0} : p = 2^a
  BY PowerPos
<1>3. PICK x \in Nat : x = m \div p
  OBVIOUS
<1>4. PICK q \in Nat \ {0} : q = Cont
  BY MiscConstants
<1>5. Chunk(m, i) = x % q
  BY <1>1, <1>2, <1>3, <1>4 DEF Chunk, Cont
<1>6. x % q \in Nat /\ x % q < q
  OBVIOUS
<1>7. ASSUME NEW j \in 0..(ChunkBits - 1) PROVE Bit(Chunk(m, i), j) = Bit(m, a + j)
  <2>1. ChunkBits \in Nat /\ j \in Nat /\ j < ChunkBits
    BY MiscConstants
  <2>2. Chunk(m, i) = (m \div 2^a) % 2^ChunkBits
    BY <1>1 DEF Chunk
  <2> QED BY <2>1, <2>2, BitOfChunk
<1> QED BY <1>1, <1>4, <1>5, <1>6, <1>7

\* So it has with the bit that says that another one follows.
LEMMA ContBit ==
  ASSUME NEW c \in Nat, NEW j \in 0..(ChunkBits - 1)
  PROVE  Bit(c + Cont, j) = Bit(c, j)
<1>1. ChunkBits \in Nat /\ j \in Nat /\ j < ChunkBits /\ Cont = 2^ChunkBits /\ Cont \in Nat
  BY MiscConstants
<1>2. Bit(c + (2^ChunkBits * 1), j) = Bit(c, j)
  BY <1>1, BitBelow
<1>3. 2^ChunkBits * 1 = Cont
  BY <1>1
<1> QED BY <1>2, <1>3

\* No bits.
LEMMA NoBits ==
  ASSUME NEW i \in Nat
  PROVE  Bit(0, i) = 0
<1>1. PICK p \in Nat \ {0} : p = 2^i
  BY PowerPos
<1>2. 0 \div p = 0
  OBVIOUS
<1> QED BY <1>1, <1>2 DEF Bit

\* The first s chunks of map are those of m, which has no others.
IsMap(map, s, m) ==
  /\ s \in Nat \ {0} /\ s <= Len(map)
  /\ map[s] < Cont /\ \A i \in 1..(s - 1) : map[i] >= Cont
  /\ \A i \in 1..s : \A j \in 0..(ChunkBits - 1) :
       Bit(map[i], j) = Bit(m, (ChunkBits * (i - 1)) + j)
  /\ \A k \in Nat : k >= ChunkBits * s => Bit(m, k) = 0

\* The bits of a mask.
Ones(m) == {k \in Nat : Bit(m, k) = 1}

\* What is read from a map is what was written.
LEMMA MapRead ==
  ASSUME NEW map \in Seq(Nat), NEW s, NEW m, IsMap(map, s, m)
  PROVE  scavengeFrame(map) = Ones(m) /\ Behind(map) = SubSeq(map, s + 1, Len(map))
<1>1. /\ s \in Nat \ {0} /\ s \in DOMAIN map
      /\ map[s] < Cont /\ \A i \in 1..(s - 1) : map[i] >= Cont
  BY DEF IsMap
<1>2. ChunkBits \in Nat /\ ChunkBits >= 2 /\ Cont \in Nat
  BY MiscConstants
<1> DEFINE ends(i) == map[i] < Cont /\ \A j \in 1..(i - 1) : map[j] >= Cont
<1>3. ASSUME NEW i \in DOMAIN map, ends(i) PROVE i = s
  <2>1. i \in Nat /\ i >= 1 /\ map[i] \in Nat /\ map[s] \in Nat
    BY <1>1
  <2>2. ~ (i < s)
    BY <1>1, <1>2, <1>3, <2>1
  <2>3. ~ (s < i)
    BY <1>1, <1>2, <1>3, <2>1
  <2> QED BY <1>1, <2>1, <2>2, <2>3
<1>4. ends(s)
  BY <1>1
<1>5. (CHOOSE i \in DOMAIN map : ends(i)) = s
  BY <1>1, <1>3, <1>4
<1> DEFINE P == {q \in (1..s) \X (0..(ChunkBits - 1)) : Bit(map[q[1]], q[2]) = 1}
<1>6. scavengeFrame(map) = {(p[1] - 1) * ChunkBits + p[2] : p \in P}
  BY <1>5 DEF scavengeFrame
<1>7. ASSUME NEW p \in P PROVE (p[1] - 1) * ChunkBits + p[2] \in Ones(m)
  <2>1. p[1] \in 1..s /\ p[2] \in 0..(ChunkBits - 1) /\ Bit(map[p[1]], p[2]) = 1
    OBVIOUS
  <2>2. Bit(m, (ChunkBits * (p[1] - 1)) + p[2]) = 1
    BY <2>1 DEF IsMap
  <2>3. PICK i \in Nat, j \in Nat : i = p[1] - 1 /\ j = p[2]
    BY <1>1, <1>2, <2>1
  <2>4. (ChunkBits * i) + j = (i * ChunkBits) + j /\ (ChunkBits * i) + j \in Nat
    <3>1. ChunkBits * i \in Nat /\ ChunkBits * i = i * ChunkBits
      BY <1>2, <2>3, Times
    <3> QED BY <2>3, <3>1
  <2> QED BY <2>2, <2>3, <2>4 DEF Ones
<1>8. ASSUME NEW k \in Ones(m) PROVE \E p \in P : k = (p[1] - 1) * ChunkBits + p[2]
  <2>1. k \in Nat /\ Bit(m, k) = 1
    BY DEF Ones
  <2>2. PICK a \in Nat, j \in 0..(ChunkBits - 1) : k = (ChunkBits * a) + j
    <3>1. ChunkBits \in Nat \ {0}
      BY <1>2
    <3>2. /\ k \div ChunkBits \in Nat /\ k % ChunkBits \in 0..(ChunkBits - 1)
          /\ k = (ChunkBits * (k \div ChunkBits)) + (k % ChunkBits)
      BY <2>1, <3>1, Parts
    <3> QED BY <3>2
  <2>3. a < s
    <3>1. SUFFICES ASSUME a >= s PROVE FALSE
      BY <1>1, <2>2
    <3>2. PICK d \in Nat : a = s + d
      <4>1. a - s \in Nat /\ a = s + (a - s)
        BY <1>1, <3>1
      <4> QED BY <4>1
    <3>3. ChunkBits * (s + d) = (ChunkBits * s) + (ChunkBits * d) /\ ChunkBits * d \in Nat /\ ChunkBits * s \in Nat
      BY <1>1, <1>2, Times
    <3>4. k >= ChunkBits * s
      BY <2>2, <3>2, <3>3
    <3> QED BY <2>1, <3>4 DEF IsMap
  <2>4. PICK i \in 1..s : i = a + 1 /\ i - 1 = a
    BY <1>1, <2>2, <2>3
  <2>5. Bit(map[i], j) = 1
    BY <2>1, <2>2, <2>4 DEF IsMap
  <2>6. <<i, j>> \in P
    BY <2>2, <2>5
  <2>7. k = (a * ChunkBits) + j
    BY <1>2, <2>2
  <2> QED BY <2>4, <2>6, <2>7
<1> HIDE DEF P
<1>9. scavengeFrame(map) = Ones(m)
  BY <1>6, <1>7, <1>8
<1>10. Behind(map) = SubSeq(map, s + 1, Len(map))
  BY <1>5 DEF Behind
<1> QED BY <1>9, <1>10

\* The bits of a mask of n bits.
LEMMA MaskBits ==
  ASSUME NEW n \in Nat, NEW m \in 0..(2^n - 1)
  PROVE  BitsOf(m, n) = Ones(m)
<1>1. \A k \in Nat : Bit(m, k) = 1 => k < n
  BY BitHigh
<1> QED BY <1>1 DEF BitsOf, Ones

\* A mask of MaskBits2 bits has none behind the chunks that are zero.
LEMMA NoneFrom ==
  ASSUME NEW m \in 0..(2^MaskBits2 - 1), NEW s \in 1..3, \A i \in (s + 1)..3 : Chunk(m, i) = 0,
         NEW k \in Nat, k >= ChunkBits * s
  PROVE  Bit(m, k) = 0
<1>1. PICK B \in Nat \ {0} : B = ChunkBits /\ MaskBits2 <= 3 * B /\ MaskBits2 \in Nat
  BY MiscConstants
<1>2. m \in Nat
  BY <1>1, PowerPos
<1>3. PICK a \in Nat, j \in 0..(B - 1) : k = (B * a) + j
  <2>1. k \div B \in Nat /\ k % B \in 0..(B - 1) /\ k = (B * (k \div B)) + (k % B)
    BY Parts
  <2> QED BY <2>1
<1>4. CASE a >= 3
  <2>1. PICK d \in Nat : a = 3 + d
    <3>1. a - 3 \in Nat /\ a = 3 + (a - 3)
      BY <1>4
    <3> QED BY <3>1
  <2>2. B * (3 + d) = (B * 3) + (B * d) /\ B * d \in Nat
    BY Times
  <2>3. MaskBits2 <= k
    BY <1>1, <1>3, <2>1, <2>2
  <2> QED BY <1>1, <2>3, BitHigh
<1>5. CASE a < 3
  <2>1. a \in {0, 1, 2} /\ s \in {1, 2, 3}
    BY <1>5
  <2>2. k >= B * s
    BY <1>1
  <2>3. a >= s
    BY <1>3, <2>1, <2>2
  <2>4. PICK i \in (s + 1)..3 : i = a + 1 /\ i - 1 = a /\ i \in Nat \ {0}
    BY <2>1, <2>3
  <2>5. Bit(Chunk(m, i), j) = Bit(m, (B * a) + j)
    BY <1>1, <1>2, <2>4, ChunkBit
  <2>6. Chunk(m, i) = 0
    BY <2>4
  <2>7. Bit(0, j) = 0
    BY NoBits
  <2> QED BY <1>3, <2>5, <2>6, <2>7
<1> QED BY <1>4, <1>5

\* The size of the map of a mask.
LEMMA MapSize ==
  ASSUME NEW m \in 0..(2^MaskBits2 - 1)
  PROVE  /\ bitmapSize(m) \in 1..3 /\ m \in Nat
         /\ \A k \in Nat : k >= ChunkBits * bitmapSize(m) => Bit(m, k) = 0
<1>1. PICK B \in Nat \ {0} : B = ChunkBits /\ MaskBits2 <= 3 * B /\ MaskBits2 \in Nat
  BY MiscConstants
<1>2. m \in Nat
  BY <1>1, PowerPos
<1>3. CASE m < 2^B
  <2>1. bitmapSize(m) = 1
    BY <1>1, <1>3 DEF bitmapSize
  <2>2. m \in 0..(2^B - 1)
    BY <1>1, <1>2, <1>3, PowerPos
  <2> QED BY <1>1, <1>2, <2>1, <2>2, BitHigh
<1>4. CASE ~ (m < 2^B) /\ m < 2^(2 * B)
  <2>1. bitmapSize(m) = 2
    BY <1>1, <1>4 DEF bitmapSize
  <2>2. PICK n \in Nat : n = 2 * B /\ n = B * 2
    OBVIOUS
  <2>3. m \in 0..(2^n - 1)
    BY <1>2, <1>4, <2>2, PowerPos
  <2>4. \A k \in Nat : k >= n => Bit(m, k) = 0
    BY <2>3, BitHigh
  <2> QED BY <1>1, <1>2, <2>1, <2>2, <2>4
<1>5. CASE ~ (m < 2^B) /\ ~ (m < 2^(2 * B))
  <2>1. bitmapSize(m) = 3
    BY <1>1, <1>5 DEF bitmapSize
  <2>2. \A k \in Nat : k >= MaskBits2 => Bit(m, k) = 0
    BY <1>1, BitHigh
  <2> QED BY <1>1, <1>2, <2>1, <2>2
<1> QED BY <1>3, <1>4, <1>5

\* encodeBitmask makes a map of the mask, whatever is behind it.
LEMMA Encoded ==
  ASSUME NEW m \in 0..(2^MaskBits2 - 1), NEW t \in Seq(Nat)
  PROVE  /\ IsMap(encodeBitmask(m) \o t, bitmapSize(m), m)
         /\ encodeBitmask(m) \in Seq(Nat) /\ Len(encodeBitmask(m)) = bitmapSize(m)
<1>1. PICK s \in 1..3 : s = bitmapSize(m)
  BY MapSize
<1>2. m \in Nat /\ \A k \in Nat : k >= ChunkBits * s => Bit(m, k) = 0
  BY <1>1, MapSize
<1>3. PICK e : e = encodeBitmask(m)
  OBVIOUS
<1>4. e = [i \in 1..s |-> Chunk(m, i) + IF i < s THEN Cont ELSE 0]
  BY <1>1, <1>3 DEF encodeBitmask
<1>5. Cont \in Nat /\ Cont > 0
  BY MiscConstants
<1>6. ASSUME NEW i \in 1..s
      PROVE  /\ e[i] \in Nat /\ (i < s => e[i] >= Cont) /\ (i = s => e[i] < Cont)
             /\ \A j \in 0..(ChunkBits - 1) : Bit(e[i], j) = Bit(m, (ChunkBits * (i - 1)) + j)
  <2>1. i \in Nat \ {0}
    OBVIOUS
  <2>2. PICK c \in Nat : c = Chunk(m, i) /\ c < Cont
    BY <1>2, <2>1, ChunkBit
  <2>3. \A j \in 0..(ChunkBits - 1) : Bit(c, j) = Bit(m, (ChunkBits * (i - 1)) + j)
    BY <1>2, <2>1, <2>2, ChunkBit
  <2>4. CASE i < s
    <3>1. e[i] = c + Cont
      BY <1>4, <2>2, <2>4
    <3>2. \A j \in 0..(ChunkBits - 1) : Bit(c + Cont, j) = Bit(c, j)
      BY ContBit
    <3> QED BY <1>5, <2>3, <2>4, <3>1, <3>2
  <2>5. CASE i = s
    <3>1. e[i] = c
      BY <1>4, <2>2, <2>5
    <3> QED BY <2>2, <2>3, <2>5, <3>1
  <2> QED BY <2>4, <2>5
<1>7. e \in Seq(Nat) /\ Len(e) = s
  BY <1>4, <1>6
<1>8. PICK map : map = e \o t
  OBVIOUS
<1>9. Len(map) = s + Len(t) /\ \A i \in 1..s : map[i] = e[i]
  BY <1>7, <1>8
<1>10. s \in Nat \ {0} /\ s <= Len(map) /\ s \in 1..s
  BY <1>9
<1>11. \A i \in 1..(s - 1) : i \in 1..s /\ i < s
  OBVIOUS
<1>12. IsMap(map, s, m)
  BY <1>2, <1>6, <1>9, <1>10, <1>11 DEF IsMap
<1> QED BY <1>1, <1>3, <1>7, <1>8, <1>12

\* The sequence x has the elements of a and then those of b.
IsJoin(x, a, b, S) ==
  /\ x \in Seq(S) /\ Len(x) = Len(a) + Len(b)
  /\ \A i \in 1..Len(a) : x[i] = a[i]
  /\ \A i \in 1..Len(b) : x[Len(a) + i] = b[i]

\* What is in two sequences, one behind the other.
LEMMA Join ==
  ASSUME NEW S, NEW a \in Seq(S), NEW b \in Seq(S), NEW x, x = a \o b
  PROVE  IsJoin(x, a, b, S)
BY DEF IsJoin

\* The second of two sequences is behind the first.
LEMMA Rest ==
  ASSUME NEW S, NEW a \in Seq(S), NEW b \in Seq(S), NEW x, x = a \o b
  PROVE  SubSeq(x, Len(a) + 1, Len(x)) = b
<1>1. IsJoin(x, a, b, S)
  BY Join
<1>2. /\ x \in Seq(S) /\ Len(x) = Len(a) + Len(b) /\ Len(a) \in Nat /\ Len(b) \in Nat
      /\ \A i \in 1..Len(b) : x[Len(a) + i] = b[i]
  BY <1>1 DEF IsJoin
<1>3. PICK p \in Int, q \in Int : p = Len(a) + 1 /\ q = Len(a) + Len(b)
  BY <1>2
<1>4. PICK y : y = SubSeq(x, p, q)
  OBVIOUS
<1>5. \A i \in p..q : x[i] \in S
  <2>1. \A i \in p..q : i \in 1..Len(x)
    BY <1>2, <1>3
  <2> QED BY <1>2, <2>1
<1>6. /\ y \in Seq(S) /\ Len(y) = IF p <= q THEN (q - p) + 1 ELSE 0
      /\ \A i \in 1..((q - p) + 1) : y[i] = x[(p + i) - 1]
  <2>1. /\ SubSeq(x, p, q) \in Seq(S) /\ Len(SubSeq(x, p, q)) = IF p <= q THEN (q - p) + 1 ELSE 0
        /\ \A i \in 1..((q - p) + 1) : SubSeq(x, p, q)[i] = x[(p + i) - 1]
    BY ONLY <1>5, p \in Int, q \in Int, SubSeqProperties
  <2> QED BY <1>4, <2>1
<1>7. (q - p) + 1 = Len(b) /\ (IF p <= q THEN (q - p) + 1 ELSE 0) = Len(b)
  BY <1>2, <1>3
<1>8. \A i \in 1..Len(b) : (p + i) - 1 = Len(a) + i
  BY <1>2, <1>3
<1>9. Len(y) = Len(b) /\ \A i \in 1..Len(b) : y[i] = b[i]
  BY <1>2, <1>6, <1>7, <1>8
<1>10. y = b
  <2>1. PICK l \in Nat : l = Len(b)
    BY <1>2
  <2>2. y = [i \in 1..l |-> y[i]] /\ b = [i \in 1..l |-> b[i]]
    BY <1>6, <1>9, <2>1
  <2>3. \A i \in 1..l : y[i] = b[i]
    BY <1>9, <2>1
  <2> QED BY ONLY <2>2, <2>3
<1> QED BY <1>2, <1>3, <1>4, <1>10

\* A map of a mask is read, and so is what is behind it.
LEMMA MaskRead ==
  ASSUME NEW n \in 0..MaskBits2, NEW m \in 0..(2^n - 1), NEW t \in Seq(Nat)
  PROVE  scavengeFrame(encodeBitmask(m) \o t) = BitsOf(m, n) /\ Behind(encodeBitmask(m) \o t) = t
<1>1. n \in Nat /\ MaskBits2 \in Nat
  BY MiscConstants
<1>2. m \in 0..(2^MaskBits2 - 1)
  <2>1. CASE n = MaskBits2
    BY <2>1
  <2>2. CASE n < MaskBits2
    <3>1. 2^n < 2^MaskBits2 /\ 2^n \in Nat /\ 2^MaskBits2 \in Nat
      BY <1>1, <2>2, PowerLess, PowerPos
    <3> QED BY <3>1
  <2> QED BY <1>1, <2>1, <2>2
<1>3. PICK e, s : e = encodeBitmask(m) /\ s = bitmapSize(m)
  OBVIOUS
<1>4. IsMap(e \o t, s, m) /\ e \in Seq(Nat) /\ Len(e) = s
  BY <1>2, <1>3, Encoded
<1>5. e \o t \in Seq(Nat)
  BY <1>4
<1>6. scavengeFrame(e \o t) = Ones(m) /\ Behind(e \o t) = SubSeq(e \o t, s + 1, Len(e \o t))
  BY <1>4, <1>5, MapRead
<1>7. SubSeq(e \o t, s + 1, Len(e \o t)) = t
  <2>1. PICK x : x = e \o t
    OBVIOUS
  <2>2. SubSeq(x, Len(e) + 1, Len(x)) = t
    BY <1>4, <2>1, Rest, Zenon
  <2> QED BY <1>4, <2>1, <2>2
<1>8. BitsOf(m, n) = Ones(m)
  BY <1>1, MaskBits
<1> QED BY <1>3, <1>6, <1>7, <1>8

\* The mask of the registers that are live behind EVAL.
LEMMA LiveRead ==
  ASSUME NEW n \in 0..MaskBits2
  PROVE  livemask(n) \in 0..(2^n - 1) /\ BitsOf(livemask(n), n) = 0..(n - 1)
<1>1. n \in Nat /\ 2^n \in Nat /\ 2^n > 0
  BY MiscConstants, PowerPos
<1>2. livemask(n) \in 0..(2^n - 1)
  BY <1>1 DEF livemask
<1>3. \A i \in 0..(n - 1) : Bit(livemask(n), i) = 1
  BY <1>1, LiveBits DEF livemask
<1> QED BY <1>2, <1>3 DEF BitsOf

\* The mask of the top frame.
LEMMA TopRead ==
  ASSUME NEW m \in 0..(2^MaskBits2 - 1)
  PROVE  scavengeFrame(topOfStackMap(m)) = BitsOf(m, MaskBits2)
<1>1. m \in Nat /\ MaskBits2 \in Nat
  BY MapSize, MiscConstants
<1>2. PICK c1 \in Nat, c2 \in Nat, c3 \in Nat :
        /\ c1 = Chunk(m, 1) /\ c2 = Chunk(m, 2) /\ c3 = Chunk(m, 3)
        /\ c1 < Cont /\ c2 < Cont /\ c3 < Cont
  BY <1>1, ChunkBit
<1>3. Cont \in Nat /\ Cont > 0 /\ ChunkBits \in Nat
  BY MiscConstants
<1>4. PICK d2 \in Nat : d2 = c2 + IF c3 # 0 THEN Cont ELSE 0
  BY <1>3
<1>5. PICK d1 \in Nat : d1 = c1 + IF d2 # 0 THEN Cont ELSE 0
  BY <1>3
<1>6. PICK map \in Seq(Nat) : map = <<d1, d2, c3>>
  <2>1. <<d1, d2, c3>> \in Seq(Nat)
    OBVIOUS
  <2> QED BY <2>1
<1>7. topOfStackMap(m) = map
  BY <1>2, <1>4, <1>5, <1>6 DEF topOfStackMap
<1>8. PICK s \in 1..3 : s = IF d2 = 0 THEN 1 ELSE IF c3 = 0 THEN 2 ELSE 3
  OBVIOUS
<1>9. s \in Nat \ {0} /\ s <= Len(map)
  BY <1>6
<1>10. map[s] < Cont /\ \A i \in 1..(s - 1) : map[i] >= Cont
  BY <1>2, <1>3, <1>4, <1>5, <1>6, <1>8
<1>11. \A i \in (s + 1)..3 : Chunk(m, i) = 0
  BY <1>2, <1>3, <1>4, <1>8
<1>12. \A k \in Nat : k >= ChunkBits * s => Bit(m, k) = 0
  BY <1>11, NoneFrom
<1>13. ASSUME NEW i \in 1..s, NEW j \in 0..(ChunkBits - 1)
       PROVE  Bit(map[i], j) = Bit(m, (ChunkBits * (i - 1)) + j)
  <2>1. i \in Nat \ {0} /\ i \in 1..3
    OBVIOUS
  <2>2. PICK c \in Nat : c = Chunk(m, i)
    BY <1>1, <2>1, ChunkBit
  <2>3. map[i] = c \/ map[i] = c + Cont
    BY <1>2, <1>4, <1>5, <1>6, <2>1, <2>2
  <2>4. Bit(c + Cont, j) = Bit(c, j)
    BY ContBit
  <2>5. Bit(c, j) = Bit(m, (ChunkBits * (i - 1)) + j)
    BY <1>1, <2>1, <2>2, ChunkBit
  <2> QED BY <2>3, <2>4, <2>5
<1>14. IsMap(map, s, m)
  BY <1>9, <1>10, <1>12, <1>13 DEF IsMap
<1>15. scavengeFrame(map) = Ones(m)
  BY <1>14, MapRead
<1>16. BitsOf(m, MaskBits2) = Ones(m)
  BY <1>1, MaskBits
<1> QED BY <1>7, <1>15, <1>16

\* What Effect returns is what one gets by executing one instruction after
\* the other.
LEMMA EffectExact ==
  ASSUME NEW code, Len(code) \in Nat, NEW F,
         F = [k \in 0..Len(code) |-> F[k]], F[0] = << >>,
         \A k \in 1..Len(code) : F[k] = Executed(F[k - 1], code[k])
  PROVE  Effect(code) = F[Len(code)]
<1>1. PICK L \in Nat : L = Len(code)
  OBVIOUS
<1> DEFINE eq(f) == f = [k \in 0..L |-> IF k = 0 THEN << >> ELSE Executed(f[k - 1], code[k])]
<1>2. eq(F)
  <2>1. \A k \in 0..L : F[k] = IF k = 0 THEN << >> ELSE Executed(F[k - 1], code[k])
    <3>1. \A k \in 0..L : k # 0 => k \in 1..L
      OBVIOUS
    <3> QED BY <1>1, <3>1
  <2> QED BY <1>1, <2>1
<1>3. PICK G : G = (CHOOSE f : eq(f))
  OBVIOUS
<1>4. eq(G)
  BY <1>2, <1>3
<1>5. Effect(code) = G[L]
  BY <1>1, <1>3 DEF Effect
<1> DEFINE T == {k \in Nat : k <= L => G[k] = F[k]}
<1>6. 0 \in T
  BY <1>2, <1>4
<1>7. ASSUME NEW k \in T PROVE k + 1 \in T
  <2>1. k \in Nat /\ (k <= L => G[k] = F[k])
    OBVIOUS
  <2>2. SUFFICES ASSUME k + 1 <= L PROVE G[k + 1] = F[k + 1]
    BY <2>1
  <2>3. k + 1 \in 0..L /\ k + 1 # 0 /\ (k + 1) - 1 = k /\ G[k] = F[k]
    BY <2>1, <2>2
  <2>4. G[k + 1] = Executed(G[(k + 1) - 1], code[k + 1]) /\ F[k + 1] = Executed(F[(k + 1) - 1], code[k + 1])
    BY <1>2, <1>4, <2>3
  <2> QED BY <2>3, <2>4
<1> HIDE DEF T, eq
<1>8. T = Nat
  <2>1. T \in SUBSET Nat
    BY DEF T
  <2> QED BY <1>6, <1>7, <2>1, SetInduction
<1>9. G[L] = F[L]
  BY <1>8 DEF T
<1> QED BY <1>1, <1>5, <1>9

\* What MapsExact says of a continuation.
ContIs(n, m, o) ==
  /\ o.code[o.ret - 1][1] = "MAP"
  /\ scavengeFrame(o.maps) = BitsOf(m, n)
  /\ scavengeFrame(Behind(o.maps)) = 0..(n - 1)
  /\ Effect(SubSeq(o.code, o.ret, Len(o.code))) = [i \in {n} |-> "result"]
  /\ n < o.framesize
  /\ o.code[Len(o.code) - 1] = <<"CALLT", n, n>> /\ Last(o.code) = <<"POINTERS", m>>

\* The continuation of an application.
LEMMA ContExact ==
  ASSUME NEW n \in 1..MaxArgs, NEW m \in 0..(2^n - 1), NEW o, o = buildApCont(n, m)
  PROVE  ContIs(n, m, o)
<1>1. n \in Nat /\ n \in 0..MaskBits2
  BY MiscConstants
<1>2. PICK e, l, c : /\ e = encodeBitmask(m) /\ l = encodeBitmask(livemask(n))
                     /\ c = << <<"IFUNC", n + 1>>, <<"EVAL", n>>, <<"MAP", 1>>, <<"MOV_RES", n>>,
                               <<"CALLT", n, n>>, <<"POINTERS", m>> >>
  OBVIOUS
<1>3. o.code = c /\ o.ret = 4 /\ o.maps = e \o l /\ o.framesize = n + 1
  BY <1>2 DEF buildApCont
<1>4. l \in Seq(Nat) /\ << >> \in Seq(Nat)
  <2>1. livemask(n) \in 0..(2^MaskBits2 - 1)
    <3>1. livemask(n) \in 0..(2^n - 1) /\ 2^n \in Nat /\ 2^MaskBits2 \in Nat /\ MaskBits2 \in Nat
      BY <1>1, LiveRead, PowerPos, MiscConstants
    <3>2. n < MaskBits2 => 2^n < 2^MaskBits2
      BY <1>1, <3>1, PowerLess
    <3>3. CASE n = MaskBits2
      BY <3>1, <3>3
    <3>4. CASE n < MaskBits2
      BY <3>1, <3>2, <3>4
    <3> QED BY <1>1, <3>1, <3>3, <3>4
  <2>2. << >> \in Seq(Nat)
    OBVIOUS
  <2> QED BY <1>2, <2>1, <2>2, Encoded
<1>5. scavengeFrame(e \o l) = BitsOf(m, n) /\ Behind(e \o l) = l
  BY <1>1, <1>2, <1>4, MaskRead
<1>6. scavengeFrame(l) = 0..(n - 1)
  <2>1. livemask(n) \in 0..(2^n - 1) /\ BitsOf(livemask(n), n) = 0..(n - 1)
    BY <1>1, LiveRead
  <2>2. scavengeFrame(encodeBitmask(livemask(n)) \o << >>) = BitsOf(livemask(n), n)
    BY <1>1, <1>4, <2>1, MaskRead
  <2>3. l \o << >> = l
    BY <1>4
  <2> QED BY <1>2, <2>1, <2>2, <2>3
<1>7. Len(c) = 6 /\ c[3][1] = "MAP" /\ c[5] = <<"CALLT", n, n>> /\ Last(c) = <<"POINTERS", m>>
  BY <1>2 DEF Last
<1>8. Effect(SubSeq(c, 4, 6)) = [i \in {n} |-> "result"]
  <2>1. PICK d : d = << <<"MOV_RES", n>>, <<"CALLT", n, n>>, <<"POINTERS", m>> >>
    OBVIOUS
  <2>2. SubSeq(c, 4, 6) = d
    <3>1. PICK S : S = {c[i] : i \in 1..6}
      OBVIOUS
    <3>2. c \in Seq(S)
      BY <1>2, <3>1
    <3>3. PICK b : b = SubSeq(c, 4, 6)
      OBVIOUS
    <3>4. b \in Seq(S) /\ Len(b) = 3 /\ b[1] = c[4] /\ b[2] = c[5] /\ b[3] = c[6]
      <4>1. PICK x \in Int, y \in Int : x = 4 /\ y = 6
        OBVIOUS
      <4>2. \A i \in x..y : c[i] \in S
        BY <3>1, <4>1
      <4>3. /\ b \in Seq(S) /\ Len(b) = IF x <= y THEN (y - x) + 1 ELSE 0
            /\ \A i \in 1..((y - x) + 1) : b[i] = c[(x + i) - 1]
        BY <3>3, <4>1, <4>2, SubSeqProperties
      <4>4. 1 \in 1..((y - x) + 1) /\ 2 \in 1..((y - x) + 1) /\ 3 \in 1..((y - x) + 1)
        BY <4>1
      <4>5. (x + 1) - 1 = 4 /\ (x + 2) - 1 = 5 /\ (x + 3) - 1 = 6 /\ x <= y /\ (y - x) + 1 = 3
        BY <4>1
      <4> QED BY <4>3, <4>4, <4>5
    <3>5. b = <<b[1], b[2], b[3]>>
      BY <3>4
    <3> QED BY <1>2, <2>1, <3>3, <3>4, <3>5
  <2>3. PICK r : r = [i \in {n} |-> "result"]
    OBVIOUS
  <2>4. PICK F : F = [k \in 0..3 |-> IF k = 0 THEN << >> ELSE r]
    OBVIOUS
  <2>5. Executed(<< >>, d[1]) = r
    <3>1. Executed(<< >>, d[1]) = Set(<< >>, n, "result")
      BY <2>1 DEF Executed
    <3>2. DOMAIN << >> = {}
      OBVIOUS
    <3> QED BY <2>3, <3>1, <3>2 DEF Set
  <2>6. Executed(r, d[2]) = r /\ Executed(r, d[3]) = r
    BY <2>1 DEF Executed
  <2>7. Len(d) = 3 /\ F[0] = << >> /\ F[1] = r /\ F[2] = r /\ F[3] = r
    BY <2>1, <2>4
  <2>8. \A k \in 1..3 : F[k] = Executed(F[k - 1], d[k])
    <3>1. \A k \in 1..3 : k = 1 \/ k = 2 \/ k = 3
      OBVIOUS
    <3> QED BY <2>5, <2>6, <2>7, <3>1
  <2>9. F = [k \in 0..3 |-> F[k]]
    BY <2>4
  <2>10. Effect(d) = F[3]
    BY <2>7, <2>8, <2>9, EffectExact
  <2> QED BY <2>2, <2>3, <2>7, <2>10
<1> QED BY <1>1, <1>3, <1>5, <1>6, <1>7, <1>8 DEF ContIs

\* LOADFV of the function and of every argument, and the call.
IsThunkCode(c, n, m) ==
  /\ Len(c) = n + 4
  /\ c[1] = <<"IFUNC", 1 + n>> /\ c[2] = <<"LOADFV", n, 1>>
  /\ \A k \in 1..n : c[k + 2] = <<"LOADFV", k - 1, k + 1>>
  /\ c[n + 3] = <<"CALLT", n, n>> /\ c[n + 4] = <<"POINTERS", m>>

\* The instructions of the thunk of an application.
LEMMA ThunkCode ==
  ASSUME NEW n \in Nat, NEW m, NEW c, c = buildApInfo(n, m).code
  PROVE  IsThunkCode(c, n, m)
<1>1. PICK a, b, d : /\ a = << <<"IFUNC", 1 + n>>, <<"LOADFV", n, 1>> >>
                     /\ b = [i \in 1..n |-> <<"LOADFV", i - 1, i + 1>>]
                     /\ d = << <<"CALLT", n, n>>, <<"POINTERS", m>> >>
  OBVIOUS
<1>2. PICK e : e = a \o b
  OBVIOUS
<1>3. c = e \o d
  BY <1>1, <1>2 DEF buildApInfo
<1>4. PICK S : S = {a[1], a[2], d[1], d[2]} \cup {b[i] : i \in 1..n}
  OBVIOUS
<1>5. a \in Seq(S) /\ d \in Seq(S) /\ Len(a) = 2 /\ Len(d) = 2
  BY <1>1, <1>4
<1>6. b \in Seq(S) /\ Len(b) = n
  <2>1. b \in [1..n -> S]
    BY <1>1, <1>4
  <2> QED BY <2>1
<1>7. IsJoin(e, a, b, S)
  BY <1>2, <1>5, <1>6, Join
<1>8. /\ e \in Seq(S) /\ Len(e) = 2 + n
      /\ \A i \in 1..2 : e[i] = a[i]
      /\ \A i \in 1..n : e[2 + i] = b[i]
  BY <1>5, <1>6, <1>7 DEF IsJoin
<1>9. IsJoin(c, e, d, S)
  BY <1>3, <1>5, <1>8, Join
<1>10. /\ Len(c) = (2 + n) + 2
       /\ \A i \in 1..(2 + n) : c[i] = e[i]
       /\ \A i \in 1..2 : c[(2 + n) + i] = d[i]
  BY <1>5, <1>8, <1>9 DEF IsJoin
<1>11. /\ 1 \in 1..2 /\ 2 \in 1..2 /\ (2 + n) + 1 = n + 3 /\ (2 + n) + 2 = n + 4
       /\ 1 \in 1..(2 + n) /\ 2 \in 1..(2 + n)
       /\ \A k \in 1..n : 2 + k = k + 2 /\ k + 2 \in 1..(2 + n)
  OBVIOUS
<1>12. c[1] = a[1] /\ c[2] = a[2] /\ c[n + 3] = d[1] /\ c[n + 4] = d[2]
  BY <1>8, <1>10, <1>11
<1>13. ASSUME NEW k \in 1..n PROVE c[k + 2] = <<"LOADFV", k - 1, k + 1>>
  <2>1. c[k + 2] = e[k + 2] /\ e[k + 2] = b[k]
    BY <1>8, <1>10, <1>11
  <2> QED BY <1>1, <2>1
<1>14. Len(c) = n + 4
  BY <1>10
<1> QED BY <1>1, <1>12, <1>13, <1>14 DEF IsThunkCode

\* It calls the function with the arguments in their order.
LEMMA ThunkEffect ==
  ASSUME NEW n \in Nat, NEW m
  PROVE  Effect(buildApInfo(n, m).code) = [i \in 0..n |-> IF i = n THEN 0 ELSE i + 1]
<1>1. PICK c : c = buildApInfo(n, m).code
  OBVIOUS
<1>2. /\ Len(c) = n + 4 /\ Len(c) \in Nat
      /\ c[1] = <<"IFUNC", 1 + n>> /\ c[2] = <<"LOADFV", n, 1>>
      /\ \A k \in 1..n : c[k + 2] = <<"LOADFV", k - 1, k + 1>>
      /\ c[n + 3] = <<"CALLT", n, n>> /\ c[n + 4] = <<"POINTERS", m>>
  <2>1. IsThunkCode(c, n, m)
    BY <1>1, ThunkCode
  <2> QED BY <2>1 DEF IsThunkCode
<1>3. PICK R : R = [j \in 0..n |-> [i \in 0..(j - 1) \cup {n} |-> IF i = n THEN 0 ELSE i + 1]]
  OBVIOUS
<1>4. PICK F : F = [k \in 0..(n + 4) |-> IF k <= 1 THEN << >> ELSE IF k <= n + 2 THEN R[k - 2] ELSE R[n]]
  OBVIOUS
<1>5. F[0] = << >> /\ F[1] = << >> /\ F[2] = R[0] /\ F[n + 2] = R[n] /\ F[n + 3] = R[n] /\ F[n + 4] = R[n]
  BY <1>4
<1>6. F[1] = Executed(F[0], c[1])
  BY <1>2, <1>5 DEF Executed
<1>7. F[2] = Executed(F[1], c[2])
  <2>1. Executed(<< >>, c[2]) = Set(<< >>, n, 0)
    BY <1>2 DEF Executed
  <2>2. DOMAIN << >> = {}
    OBVIOUS
  <2>3. R[0] = [i \in {n} |-> 0]
    BY <1>3
  <2>4. Set(<< >>, n, 0) = [i \in {n} |-> 0]
    BY <2>2 DEF Set
  <2> QED BY <1>5, <2>1, <2>3, <2>4
<1>8. ASSUME NEW k \in 1..n PROVE F[k + 2] = Executed(F[k + 1], c[k + 2])
  <2>1. PICK j \in 0..n : j = k - 1 /\ k = j + 1
    OBVIOUS
  <2>2. F[k + 2] = R[k] /\ F[k + 1] = R[j]
    <3>1. (k + 2) - 2 = k /\ k + 2 <= n + 2 /\ ~ (k + 2 <= 1) /\ k + 2 \in 0..(n + 4)
      OBVIOUS
    <3>2. (k + 1) - 2 = j /\ k + 1 <= n + 2 /\ ~ (k + 1 <= 1) /\ k + 1 \in 0..(n + 4)
      BY <2>1
    <3> QED BY <1>4, <3>1, <3>2
  <2>3. c[k + 2] = <<"LOADFV", j, k + 1>>
    BY <1>2, <2>1
  <2>4. Executed(R[j], c[k + 2]) = Set(R[j], j, (k + 1) - 1)
    BY <2>3 DEF Executed
  <2>5. R[j] = [i \in 0..(j - 1) \cup {n} |-> IF i = n THEN 0 ELSE i + 1]
    BY <1>3
  <2>6. R[k] = [i \in 0..(k - 1) \cup {n} |-> IF i = n THEN 0 ELSE i + 1]
    BY <1>3
  <2>7. (0..(j - 1) \cup {n}) \cup {j} = 0..(k - 1) \cup {n}
    BY <2>1
  <2>8. Set(R[j], j, (k + 1) - 1) =
          [i \in 0..(k - 1) \cup {n} |-> IF i = j THEN (k + 1) - 1 ELSE R[j][i]]
    BY <2>5, <2>7 DEF Set
  <2>9. ASSUME NEW i \in 0..(k - 1) \cup {n}
        PROVE  (IF i = j THEN (k + 1) - 1 ELSE R[j][i]) = IF i = n THEN 0 ELSE i + 1
    <3>1. CASE i = j
      BY <2>1, <3>1
    <3>2. CASE i # j
      <4>1. i \in 0..(j - 1) \cup {n}
        BY <2>7, <3>2
      <4> QED BY <2>5, <3>2, <4>1
    <3> QED BY <3>1, <3>2
  <2>10. Set(R[j], j, (k + 1) - 1) = R[k]
    BY <2>6, <2>8, <2>9
  <2> QED BY <2>2, <2>4, <2>10
<1>9. F[n + 3] = Executed(F[n + 2], c[n + 3]) /\ F[n + 4] = Executed(F[n + 3], c[n + 4])
  BY <1>2, <1>5 DEF Executed
<1>10. ASSUME NEW k \in 1..Len(c) PROVE F[k] = Executed(F[k - 1], c[k])
  <2>1. k \in 1..(n + 4)
    BY <1>2
  <2>2. CASE k = 1
    BY <1>6, <2>2
  <2>3. CASE k = 2
    BY <1>7, <2>3
  <2>4. CASE k > 2 /\ k <= n + 2
    <3>1. PICK h \in 1..n : k = h + 2 /\ k - 1 = h + 1
      <4>1. k - 2 \in 1..n /\ k = (k - 2) + 2 /\ k - 1 = (k - 2) + 1
        BY <2>1, <2>4
      <4> QED BY <4>1
    <3> QED BY <1>8, <3>1
  <2>5. CASE k = n + 3
    <3>1. k - 1 = n + 2
      BY <2>5
    <3> QED BY <1>9, <2>5, <3>1
  <2>6. CASE k = n + 4
    <3>1. k - 1 = n + 3
      BY <2>6
    <3> QED BY <1>9, <2>6, <3>1
  <2> QED BY <2>1, <2>2, <2>3, <2>4, <2>5, <2>6
<1>11. F = [k \in 0..Len(c) |-> F[k]]
  BY <1>2, <1>4
<1>12. Effect(c) = F[Len(c)]
  BY <1>2, <1>5, <1>10, <1>11, EffectExact
<1>13. R[n] = [i \in 0..n |-> IF i = n THEN 0 ELSE i + 1]
  <2>1. 0..(n - 1) \cup {n} = 0..n
    OBVIOUS
  <2> QED BY <1>3, <2>1
<1> QED BY <1>1, <1>2, <1>5, <1>12, <1>13

\* What MapsExact says of a thunk.
ThunkIs(n, m, o) ==
  /\ BitsOf(o.bitmap, o.size) = {0} \cup {i + 1 : i \in BitsOf(m, n)}
  /\ Effect(o.code) = [i \in 0..n |-> IF i = n THEN 0 ELSE i + 1]
  /\ n < o.framesize
  /\ o.code[Len(o.code) - 1] = <<"CALLT", n, n>> /\ Last(o.code) = <<"POINTERS", m>>

\* The thunk of an application.
LEMMA ThunkExact ==
  ASSUME NEW n \in 1..MaxArgs, NEW m \in 0..(2^n - 1), NEW o, o = buildApInfo(n, m)
  PROVE  ThunkIs(n, m, o)
<1>1. n \in Nat /\ m \in Nat
  BY MiscConstants, PowerPos
<1>2. o.size = 1 + n /\ o.bitmap = (2 * m) + 1 /\ o.framesize = 1 + n
  BY DEF buildApInfo
<1>3. BitsOf((2 * m) + 1, 1 + n) = {0} \cup {i + 1 : i \in BitsOf(m, n)}
  <2>1. ASSUME NEW k \in 0..n, Bit((2 * m) + 1, k) = 1, k # 0
        PROVE  \E i \in BitsOf(m, n) : k = i + 1
    <3>1. PICK i \in 0..(n - 1) : k = i + 1
      <4>1. k - 1 \in 0..(n - 1) /\ k = (k - 1) + 1
        BY <1>1, <2>1
      <4> QED BY <4>1
    <3>2. Bit(m, i) = 1
      BY <1>1, <2>1, <3>1, BitShifted
    <3> QED BY <3>1, <3>2 DEF BitsOf
  <2>2. ASSUME NEW i \in BitsOf(m, n)
        PROVE  i + 1 \in 0..n /\ Bit((2 * m) + 1, i + 1) = 1
    <3>1. i \in 0..(n - 1) /\ Bit(m, i) = 1
      BY DEF BitsOf
    <3> QED BY <1>1, <3>1, BitShifted
  <2>3. 0 \in Nat
    OBVIOUS
  <2>4. Bit((2 * m) + 1, 0) = 1
    BY <1>1, <2>3, BitShifted
  <2>5. (1 + n) - 1 = n /\ 0 \in 0..n
    BY <1>1
  <2>6. BitsOf((2 * m) + 1, 1 + n) = {k \in 0..n : Bit((2 * m) + 1, k) = 1}
    BY <2>5 DEF BitsOf
  <2> QED BY <2>1, <2>2, <2>4, <2>5, <2>6
<1>4. PICK c : c = o.code
  OBVIOUS
<1>5. Len(c) = n + 4 /\ c[n + 3] = <<"CALLT", n, n>> /\ c[n + 4] = <<"POINTERS", m>>
  <2>1. IsThunkCode(c, n, m)
    BY <1>1, <1>4, ThunkCode
  <2> QED BY <2>1 DEF IsThunkCode
<1>6. Effect(c) = [i \in 0..n |-> IF i = n THEN 0 ELSE i + 1]
  BY <1>1, <1>4, ThunkEffect
<1>7. (n + 4) - 1 = n + 3
  BY <1>1
<1> QED BY <1>1, <1>2, <1>3, <1>4, <1>5, <1>6, <1>7 DEF ThunkIs, Last

\* Two applications have the same index only if they have the same number
\* of arguments and the same mask.
LEMMA IndexInjective ==
  ASSUME NEW n \in Nat, NEW m \in 0..(2^n - 1), NEW k \in Nat, NEW l \in 0..(2^k - 1),
         apContIndex(n, m) = apContIndex(k, l)
  PROVE  n = k /\ m = l
<1>1. PICK p \in Nat, q \in Nat : p = 2^n /\ q = 2^k /\ p > 0 /\ q > 0
  BY PowerPos
<1>2. m \in 0..(p - 1) /\ l \in 0..(q - 1) /\ (p - 2) + m = (q - 2) + l
  BY <1>1 DEF apContIndex
<1>3. n < k => 2 * p <= q
  BY <1>1, PowerLess
<1>4. k < n => 2 * q <= p
  BY <1>1, PowerLess
<1>5. ~ (2 * p <= q) /\ ~ (2 * q <= p)
  BY ONLY <1>1, <1>2, p \in Nat, q \in Nat
<1>6. n = k
  BY <1>3, <1>4, <1>5
<1>7. p = q
  BY <1>1, <1>6
<1> QED BY <1>1, <1>2, <1>6, <1>7

\* An application that is asked for.
LEMMA CallType ==
  ASSUME NEW c \in Calls
  PROVE  c[1] \in 1..MaxArgs /\ c[1] \in Nat /\ c[2] \in 0..(2^c[1] - 1) /\ c = <<c[1], c[2]>>
<1>1. PICK n \in 1..MaxArgs : c \in {n} \X (0..(2^n - 1))
  BY DEF Calls
<1>2. n \in Nat
  BY MiscConstants
<1>3. c[1] = n /\ c[2] \in 0..(2^n - 1) /\ c = <<c[1], c[2]>>
  BY <1>1
<1> QED BY <1>2, <1>3

\* So an application is found by its index.
LEMMA SameCall ==
  ASSUME NEW c \in Calls, NEW d \in Calls, apContIndex(c[1], c[2]) = apContIndex(d[1], d[2])
  PROVE  c = d
<1>1. /\ c[1] \in Nat /\ c[2] \in 0..(2^c[1] - 1) /\ c = <<c[1], c[2]>>
      /\ d[1] \in Nat /\ d[2] \in 0..(2^d[1] - 1) /\ d = <<d[1], d[2]>>
  BY CallType
<1>2. c[1] = d[1] /\ c[2] = d[2]
  BY <1>1, IndexInjective
<1> QED BY <1>1, <1>2

\* What init put into the arrays.
LEMMA SmallExact ==
  ASSUME NEW c \in Calls, c[1] <= MaxSmallArity, NEW i, i = apContIndex(c[1], c[2])
  PROVE  smallApConts[i] = buildApCont(c[1], c[2]) /\ smallApInfos[i] = buildApInfo(c[1], c[2])
<1>1. c \in SmallCalls
  BY DEF SmallCalls
<1>2. PICK d : d = (CHOOSE x \in SmallCalls : apContIndex(x[1], x[2]) = i)
  OBVIOUS
<1>3. d \in SmallCalls /\ apContIndex(d[1], d[2]) = i
  BY <1>1, <1>2
<1>4. d = c
  <2>1. d \in Calls
    BY <1>3 DEF SmallCalls
  <2> QED BY <1>3, <2>1, SameCall
<1>5. i \in {apContIndex(x[1], x[2]) : x \in SmallCalls}
  BY <1>1
<1>6. smallApConts[i] = buildApCont(d[1], d[2])
  BY <1>2, <1>5 DEF smallApConts
<1>7. smallApInfos[i] = buildApInfo(d[1], d[2])
  BY <1>2, <1>5 DEF smallApInfos
<1> QED BY <1>4, <1>6, <1>7

\* The hash tables have the objects of their indices.
ContsExact(table) ==
  \A i \in DOMAIN table : \A c \in Calls :
    apContIndex(c[1], c[2]) = i => table[i] = buildApCont(c[1], c[2])
InfosExact(table) ==
  \A i \in DOMAIN table : \A c \in Calls :
    apContIndex(c[1], c[2]) = i => table[i] = buildApInfo(c[1], c[2])

\* A look up finds the object and leaves such a table.
LEMMA ContFound ==
  ASSUME NEW table, ContsExact(table), NEW c \in Calls, NEW i, i = apContIndex(c[1], c[2]),
         NEW found, found = Lookup(table, i, buildApCont(c[1], c[2]))
  PROVE  ContsExact(found) /\ found[i] = buildApCont(c[1], c[2])
<1>1. PICK b : b = buildApCont(c[1], c[2])
  OBVIOUS
<1>2. found = [x \in DOMAIN table \cup {i} |-> IF x \in DOMAIN table THEN table[x] ELSE b]
  BY <1>1 DEF Lookup
<1>3. ASSUME NEW x \in DOMAIN found, NEW d \in Calls, apContIndex(d[1], d[2]) = x
      PROVE  found[x] = buildApCont(d[1], d[2])
  <2>1. x \in DOMAIN table \cup {i}
    BY <1>2
  <2>2. CASE x \in DOMAIN table
    <3>1. found[x] = table[x]
      BY <1>2, <2>2
    <3> QED BY <1>3, <2>2, <3>1 DEF ContsExact
  <2>3. CASE ~ (x \in DOMAIN table)
    <3>1. x = i /\ found[x] = b
      BY <1>2, <2>1, <2>3
    <3>2. d = c
      BY <1>3, <3>1, SameCall
    <3> QED BY <1>1, <3>1, <3>2
  <2> QED BY <2>2, <2>3
<1>4. i \in DOMAIN found
  BY <1>2
<1> QED BY <1>3, <1>4 DEF ContsExact

\* The same of the thunks.
LEMMA InfoFound ==
  ASSUME NEW table, InfosExact(table), NEW c \in Calls, NEW i, i = apContIndex(c[1], c[2]),
         NEW found, found = Lookup(table, i, buildApInfo(c[1], c[2]))
  PROVE  InfosExact(found) /\ found[i] = buildApInfo(c[1], c[2])
<1>1. PICK b : b = buildApInfo(c[1], c[2])
  OBVIOUS
<1>2. found = [x \in DOMAIN table \cup {i} |-> IF x \in DOMAIN table THEN table[x] ELSE b]
  BY <1>1 DEF Lookup
<1>3. ASSUME NEW x \in DOMAIN found, NEW d \in Calls, apContIndex(d[1], d[2]) = x
      PROVE  found[x] = buildApInfo(d[1], d[2])
  <2>1. x \in DOMAIN table \cup {i}
    BY <1>2
  <2>2. CASE x \in DOMAIN table
    <3>1. found[x] = table[x]
      BY <1>2, <2>2
    <3> QED BY <1>3, <2>2, <3>1 DEF InfosExact
  <2>3. CASE ~ (x \in DOMAIN table)
    <3>1. x = i /\ found[x] = b
      BY <1>2, <2>1, <2>3
    <3>2. d = c
      BY <1>3, <3>1, SameCall
    <3> QED BY <1>1, <3>1, <3>2
  <2> QED BY <2>2, <2>3
<1>4. i \in DOMAIN found
  BY <1>2
<1> QED BY <1>3, <1>4 DEF InfosExact

\* The map of a frame without pointers and that of an update frame.
LEMMA FixedRead ==
  ASSUME NEW m \in {0, 1}
  PROVE  scavengeFrame(<<m, m>>) = BitsOf(m, MaskBits2)
<1>1. 2^0 \in Nat /\ 2^0 > 0 /\ 2^1 \in Nat /\ 1 \in Nat /\ 0 < 1 /\ 0 \in Nat
  BY PowerPos
<1>2. 2 * 2^0 <= 2^1
  BY <1>1, PowerLess
<1>3. m \in 0..(2^1 - 1) /\ m \in Nat
  BY <1>1, <1>2
<1>4. ChunkBits \in Nat /\ 1 < ChunkBits /\ MaskBits2 \in Nat /\ 1 < MaskBits2 /\ 2^MaskBits2 \in Nat
  <2>1. ChunkBits \in Nat /\ ChunkBits >= 2 /\ MaskBits2 \in Nat
    BY MiscConstants
  <2>2. 1 < MaskBits2
    BY <2>1 DEF MaskBits2
  <2> QED BY <2>1, <2>2, PowerPos
<1>5. 2^1 < 2^ChunkBits /\ 2^1 < 2^MaskBits2
  BY <1>1, <1>4, PowerLess
<1>6. m < Cont
  <2>1. Cont \in Nat /\ Cont = 2^ChunkBits
    BY MiscConstants
  <2> QED BY <1>1, <1>3, <1>5, <2>1
<1>7. m \in 0..(2^MaskBits2 - 1)
  BY <1>1, <1>3, <1>4, <1>5
<1>8. PICK map : map = <<m, m>>
  OBVIOUS
<1>9. map \in Seq(Nat) /\ Len(map) = 2 /\ map[1] = m
  BY <1>3, <1>8
<1>10. IsMap(map, 1, m)
  <2>1. 1 \in Nat \ {0} /\ 1 <= Len(map) /\ map[1] < Cont /\ \A i \in 1..(1 - 1) : map[i] >= Cont
    BY <1>6, <1>9
  <2>2. ASSUME NEW i \in 1..1, NEW j \in 0..(ChunkBits - 1)
        PROVE  Bit(map[i], j) = Bit(m, (ChunkBits * (i - 1)) + j)
    <3>1. i = 1 /\ (ChunkBits * (i - 1)) + j = j
      BY <1>4
    <3> QED BY <1>9, <3>1
  <2>3. ASSUME NEW k \in Nat, k >= ChunkBits * 1
        PROVE  Bit(m, k) = 0
    <3>1. 1 <= k
      BY <1>4, <2>3
    <3> QED BY <1>1, <1>3, <3>1, BitHigh
  <2> QED BY <2>1, <2>2, <2>3 DEF IsMap
<1>11. scavengeFrame(map) = Ones(m)
  BY <1>9, <1>10, MapRead
<1>12. BitsOf(m, MaskBits2) = Ones(m)
  BY <1>4, <1>7, MaskBits
<1> QED BY <1>8, <1>11, <1>12

\* What MapsExact says of one answer.
AnswerExact(a) ==
  CASE a.what = "cont" ->
         /\ a.object.code[a.object.ret - 1][1] = "MAP"
         /\ scavengeFrame(a.object.maps) = BitsOf(a.mask, a.n)
         /\ scavengeFrame(Behind(a.object.maps)) = 0..(a.n - 1)
         /\ Effect(SubSeq(a.object.code, a.object.ret, Len(a.object.code))) = [i \in {a.n} |-> "result"]
         /\ a.n < a.object.framesize
         /\ a.object.code[Len(a.object.code) - 1] = <<"CALLT", a.n, a.n>>
         /\ Last(a.object.code) = <<"POINTERS", a.mask>>
    [] a.what = "thunk" ->
         /\ BitsOf(a.object.bitmap, a.object.size) = {0} \cup {i + 1 : i \in BitsOf(a.mask, a.n)}
         /\ Effect(a.object.code) = [i \in 0..a.n |-> IF i = a.n THEN 0 ELSE i + 1]
         /\ a.n < a.object.framesize
         /\ a.object.code[Len(a.object.code) - 1] = <<"CALLT", a.n, a.n>>
         /\ Last(a.object.code) = <<"POINTERS", a.mask>>
    [] OTHER -> a.mask # kNoMask => scavengeFrame(a.object.maps) = BitsOf(a.mask, MaskBits2)

\* The answer with a continuation.
LEMMA ContAnswer ==
  ASSUME NEW c \in Calls, NEW a,
         a = [what |-> "cont", n |-> c[1], mask |-> c[2], object |-> buildApCont(c[1], c[2])]
  PROVE  AnswerExact(a)
<1>1. PICK n, m, o : n = c[1] /\ m = c[2] /\ o = buildApCont(n, m)
  OBVIOUS
<1>2. n \in 1..MaxArgs /\ m \in 0..(2^n - 1)
  BY <1>1, CallType
<1>3. a.what = "cont" /\ a.n = n /\ a.mask = m /\ a.object = o
  BY <1>1
<1>4. /\ o.code[o.ret - 1][1] = "MAP"
      /\ scavengeFrame(o.maps) = BitsOf(m, n)
      /\ scavengeFrame(Behind(o.maps)) = 0..(n - 1)
      /\ Effect(SubSeq(o.code, o.ret, Len(o.code))) = [i \in {n} |-> "result"]
      /\ n < o.framesize
      /\ o.code[Len(o.code) - 1] = <<"CALLT", n, n>> /\ Last(o.code) = <<"POINTERS", m>>
  <2>1. ContIs(n, m, o)
    BY <1>1, <1>2, ContExact
  <2> QED BY <2>1 DEF ContIs
<1> QED BY <1>3, <1>4 DEF AnswerExact

\* The answer with a thunk.
LEMMA ThunkAnswer ==
  ASSUME NEW c \in Calls, NEW a,
         a = [what |-> "thunk", n |-> c[1], mask |-> c[2], object |-> buildApInfo(c[1], c[2])]
  PROVE  AnswerExact(a)
<1>1. PICK n, m, o : n = c[1] /\ m = c[2] /\ o = buildApInfo(n, m)
  OBVIOUS
<1>2. n \in 1..MaxArgs /\ m \in 0..(2^n - 1)
  BY <1>1, CallType
<1>3. a.what = "thunk" /\ a.what # "cont" /\ a.n = n /\ a.mask = m /\ a.object = o
  BY <1>1
<1>4. /\ BitsOf(o.bitmap, o.size) = {0} \cup {i + 1 : i \in BitsOf(m, n)}
      /\ Effect(o.code) = [i \in 0..n |-> IF i = n THEN 0 ELSE i + 1]
      /\ n < o.framesize
      /\ o.code[Len(o.code) - 1] = <<"CALLT", n, n>> /\ Last(o.code) = <<"POINTERS", m>>
  <2>1. ThunkIs(n, m, o)
    BY <1>1, <1>2, ThunkExact
  <2> QED BY <2>1 DEF ThunkIs
<1> QED BY <1>3, <1>4 DEF AnswerExact

\* Any other answer.
LEMMA OtherAnswer ==
  ASSUME NEW a, a.what # "cont", a.what # "thunk",
         a.mask # kNoMask => scavengeFrame(a.object.maps) = BitsOf(a.mask, MaskBits2)
  PROVE  AnswerExact(a)
BY DEF AnswerExact

\* The invariant.
MiscInv == ContsExact(otherApConts) /\ InfosExact(otherApInfos) /\ AnswerExact(asked)

\* It holds of the closures that init has made.
LEMMA MiscInit_Inv == MiscInit => MiscInv
<1> SUFFICES ASSUME MiscInit PROVE MiscInv
  OBVIOUS
<1>1. DOMAIN << >> = {}
  OBVIOUS
<1>2. ContsExact(otherApConts) /\ InfosExact(otherApInfos)
  BY <1>1 DEF MiscInit, ContsExact, InfosExact
<1>3. asked.what = "stop" /\ asked.mask = 0 /\ asked.object.maps = <<0, 0>>
  BY DEF MiscInit, initStopClosure
<1>4. scavengeFrame(<<0, 0>>) = BitsOf(0, MaskBits2)
  BY FixedRead
<1>5. AnswerExact(asked)
  BY <1>3, <1>4, OtherAnswer
<1> QED BY <1>2, <1>5 DEF MiscInv

\* Whatever is asked for keeps it: an object that is new is the one for its
\* index, and an object that is found was.
LEMMA MiscStep_Inv == MiscInv /\ [MiscNext]_miscVars => MiscInv'
<1> SUFFICES ASSUME MiscInv, [MiscNext]_miscVars PROVE MiscInv'
  OBVIOUS
<1>1. ContsExact(otherApConts) /\ InfosExact(otherApInfos) /\ AnswerExact(asked)
  BY DEF MiscInv
<1>2. ASSUME NEW c \in Calls, getApCont(c[1], c[2]) PROVE MiscInv'
  <2>1. PICK i : i = apContIndex(c[1], c[2])
    OBVIOUS
  <2>2. PICK b : b = buildApCont(c[1], c[2])
    OBVIOUS
  <2>3. PICK found : found = Lookup(otherApConts, i, buildApCont(c[1], c[2]))
    OBVIOUS
  <2>4. otherApInfos' = otherApInfos
    BY <1>2 DEF getApCont
  <2>5. /\ ContsExact(otherApConts')
        /\ asked' = [what |-> "cont", n |-> c[1], mask |-> c[2], object |-> b]
    <3>1. CASE c[1] <= MaxSmallArity
      <4>1. otherApConts' = otherApConts /\ Answer("cont", c[1], c[2], smallApConts[i])
        BY <1>2, <2>1, <3>1 DEF getApCont
      <4>2. smallApConts[i] = b
        BY <2>1, <2>2, <3>1, SmallExact
      <4> QED BY <1>1, <4>1, <4>2 DEF Answer
    <3>2. CASE ~ (c[1] <= MaxSmallArity)
      <4>1. otherApConts' = found /\ Answer("cont", c[1], c[2], found[i])
        BY <1>2, <2>1, <2>3, <3>2 DEF getApCont
      <4>2. ContsExact(found) /\ found[i] = b
        BY <1>1, <2>1, <2>2, <2>3, ContFound
      <4> QED BY <4>1, <4>2 DEF Answer
    <3> QED BY <3>1, <3>2
  <2>6. AnswerExact(asked')
    BY <2>2, <2>5, ContAnswer
  <2> QED BY <1>1, <2>4, <2>5, <2>6 DEF MiscInv
<1>3. ASSUME NEW c \in Calls, getApInfo(c[1], c[2]) PROVE MiscInv'
  <2>1. PICK i : i = apContIndex(c[1], c[2])
    OBVIOUS
  <2>2. PICK b : b = buildApInfo(c[1], c[2])
    OBVIOUS
  <2>3. PICK found : found = Lookup(otherApInfos, i, buildApInfo(c[1], c[2]))
    OBVIOUS
  <2>4. otherApConts' = otherApConts
    BY <1>3 DEF getApInfo
  <2>5. /\ InfosExact(otherApInfos')
        /\ asked' = [what |-> "thunk", n |-> c[1], mask |-> c[2], object |-> b]
    <3>1. CASE c[1] <= MaxSmallArity
      <4>1. otherApInfos' = otherApInfos /\ Answer("thunk", c[1], c[2], smallApInfos[i])
        BY <1>3, <2>1, <3>1 DEF getApInfo
      <4>2. smallApInfos[i] = b
        BY <2>1, <2>2, <3>1, SmallExact
      <4> QED BY <1>1, <4>1, <4>2 DEF Answer
    <3>2. CASE ~ (c[1] <= MaxSmallArity)
      <4>1. otherApInfos' = found /\ Answer("thunk", c[1], c[2], found[i])
        BY <1>3, <2>1, <2>3, <3>2 DEF getApInfo
      <4>2. InfosExact(found) /\ found[i] = b
        BY <1>1, <2>1, <2>2, <2>3, InfoFound
      <4> QED BY <4>1, <4>2 DEF Answer
    <3> QED BY <3>1, <3>2
  <2>6. AnswerExact(asked')
    BY <2>2, <2>5, ThunkAnswer
  <2> QED BY <1>1, <2>4, <2>5, <2>6 DEF MiscInv
<1>4. CASE UseUpdateFrame
  <2>1. otherApConts' = otherApConts /\ otherApInfos' = otherApInfos
    BY <1>4 DEF UseUpdateFrame
  <2>2. PICK a : a = asked'
    OBVIOUS
  <2>3. a.what = "update" /\ a.mask = 1 /\ a.object.maps = <<1, 1>>
    BY <1>4, <2>2 DEF UseUpdateFrame, Answer, initUpdateClosure
  <2>4. scavengeFrame(<<1, 1>>) = BitsOf(1, MaskBits2)
    BY FixedRead
  <2>5. AnswerExact(a)
    BY <2>3, <2>4, OtherAnswer
  <2> QED BY <1>1, <2>1, <2>2, <2>5 DEF MiscInv
<1>5. ASSUME NEW m \in 0..kNoMask, SetTopOfStackMask(m) PROVE MiscInv'
  <2>1. otherApConts' = otherApConts /\ otherApInfos' = otherApInfos
    BY <1>5 DEF SetTopOfStackMask
  <2>2. PICK a : a = asked'
    OBVIOUS
  <2>3. a.what = "top" /\ a.mask = m /\ (m # kNoMask => a.object.maps = topOfStackMap(m))
    <3>1. PICK map \in TopFrameMaps(m) : Answer("top", MaskBits2, m, [maps |-> map])
      BY <1>5 DEF SetTopOfStackMask
    <3>2. m # kNoMask => map = topOfStackMap(m)
      BY DEF TopFrameMaps
    <3> QED BY <2>2, <3>1, <3>2 DEF Answer
  <2>4. m \in 0..(2^MaskBits2 - 1)
    BY DEF kNoMask
  <2>5. scavengeFrame(topOfStackMap(m)) = BitsOf(m, MaskBits2)
    BY <2>4, TopRead
  <2>6. AnswerExact(a)
    BY <2>3, <2>5, OtherAnswer
  <2> QED BY <1>1, <2>1, <2>2, <2>6 DEF MiscInv
<1>6. CASE UNCHANGED miscVars
  BY <1>1, <1>6 DEF miscVars, MiscInv
<1> QED BY <1>2, <1>3, <1>4, <1>5, <1>6 DEF MiscNext

\* Every answer is right.
LEMMA MiscInv_Exact == MiscInv => MapsExact
BY DEF MiscInv, AnswerExact, MapsExact

\* Whatever continuation, thunk or frame of the virtual machine is asked for,
\* and in whatever order, the collector reads from its map the pointers that
\* its mask says, unless that is taken for none, and its code calls what it
\* should with the arguments in their order (getApCont, getApInfo,
\* encodeBitmask, scavengeFrame, scavengeStack).
THEOREM MapsAlwaysExact == MiscSpec => []MapsExact
BY MiscInit_Inv, MiscStep_Inv, MiscInv_Exact, PTL DEF MiscSpec
=============================================================================
