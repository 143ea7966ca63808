------------------------- MODULE AssemblerProofs --------------------------
(***************************************************************************)
(* Proofs about the machine code area, for every size of the area, of the  *)
(* groups of exit stubs and of the code, about the encoding of operands,   *)
(* for every offset, immediate and constant, and about the register        *)
(* allocation of a trace, for every number of registers, spill slots,      *)
(* literals, inputs and instructions.                                      *)
(***************************************************************************)
EXTENDS MachineCode, X86Encode, RegAlloc, FiniteSetTheorems, SequenceTheorems,
        WellFoundedInduction, TLAPS

-----------------------------------------------------------------------------
(*****************************************************************************)
(* The machine code area: the inductive invariant.                           *)
(*****************************************************************************)

TraceRec == [entry : Int, size : Nat \ {0}, jump : UNION {[0..(n - 1) -> Int] : n \in 1..MaxExits}]

\* The elements of exitStubGroup_, and perhaps the word beyond.
Groups(gs) == \E w \in {NumGroups, NumGroups + 1} : gs \in [0..(w - 1) -> Int]

AreaType ==
  /\ top \in Nat /\ bottom \in Nat /\ bottom <= top /\ top <= AreaSize
  /\ Groups(group)
  /\ trace \in Seq(TraceRec)
  /\ IsFiniteSet(bridges)

\* The groups of stubs in gs lie apart, below b.
Apart(gs, b) ==
  /\ \A g \in DOMAIN gs : gs[g] # Unset => gs[g] \in Nat /\ gs[g] + GroupSize <= b
  /\ \A g, h \in DOMAIN gs :
       g # h /\ gs[g] # Unset /\ gs[h] # Unset =>
         gs[g] + GroupSize <= gs[h] \/ gs[h] + GroupSize <= gs[g]

\* The n pieces of code in C are apart, at t or above.
Committed(C, n, t) ==
  /\ IsFiniteSet(C) /\ Cardinality(C) = n
  /\ \A c, d \in C : c # d => c \cap d = {}
  /\ \A c \in C : c \subseteq t..(AreaSize - 1)

\* An exit of a trace in ts jumps to its stub or to one of the entries es.
JumpsTo(ts, gs, es) ==
  \A p \in DOMAIN ts : \A e \in DOMAIN ts[p].jump :
    \/ /\ e \in 0..(NumGroups * PerGroup - 1)
       /\ gs[e \div PerGroup] # Unset
       /\ ts[p].jump[e] = exitstubAddr(gs, e)
    \/ ts[p].jump[e] \in es

AreaInv ==
  /\ AreaType
  /\ Apart(group, bottom)
  /\ Committed(AreaCode(trace, bridges), Len(trace) + Cardinality(bridges), top)
  /\ JumpsTo(trace, group, AreaEntries(trace, bridges))

\* Numbers of exits, and the groups that hold their stubs.
LEMMA ExitGroup ==
  ASSUME NEW n \in 0..(NumGroups * PerGroup - 1)
  PROVE  /\ n \div PerGroup \in 0..(NumGroups - 1)
         /\ n % PerGroup \in 0..(PerGroup - 1)
         /\ n = (PerGroup * (n \div PerGroup)) + (n % PerGroup)
<1>1. PICK P \in Nat : PerGroup = P /\ P > 0
  BY MachineCodeAssumption
<1>2. PICK N \in Nat : NumGroups = N
  BY MachineCodeAssumption
<1>3. n \in Nat /\ n < N * P
  BY <1>1, <1>2
<1>4. PICK q \in Nat : n \div P = q
  BY <1>1, <1>3
<1>5. /\ n % P \in 0..(P - 1)
      /\ n = (P * (n \div P)) + (n % P)
  BY <1>1, <1>3
<1>6. q < N
  <2>1. SUFFICES ASSUME q >= N PROVE FALSE
    BY <1>2, <1>4
  <2>2. P * q >= P * N
    BY <1>1, <1>2, <1>4, <2>1
  <2>3. P * N = N * P
    BY <1>1, <1>2
  <2> QED BY <1>1, <1>2, <1>3, <1>4, <1>5, <2>2, <2>3
<1> QED BY <1>1, <1>2, <1>4, <1>5, <1>6

\* The elements of exitStubGroup_ are among the words.
LEMMA ElementsOfGroups ==
  ASSUME NEW gs, Groups(gs)
  PROVE  /\ 0..(NumGroups - 1) \subseteq DOMAIN gs
         /\ DOMAIN gs \subseteq Nat
         /\ \A g \in DOMAIN gs : gs[g] \in Int
<1>1. PICK w \in {NumGroups, NumGroups + 1} : gs \in [0..(w - 1) -> Int]
  BY DEF Groups
<1>2. NumGroups \in Nat /\ w \in Nat /\ NumGroups <= w
  BY <1>1, MachineCodeAssumption
<1> QED BY <1>1, <1>2

\* setupExitStubs makes a group for every exit, and none that does not exist.
LEMMA EnoughGroups ==
  ASSUME NEW nexits \in 1..MaxExits, ~ TooManyExits(nexits)
  PROVE  \A e \in 0..(nexits - 1) : /\ e \in 0..(NumGroups * PerGroup - 1)
                                    /\ e \div PerGroup \in 0..(NumGroups - 1)
                                    /\ e \div PerGroup < GroupsFor(nexits)
<1>1. PICK P \in Nat : PerGroup = P /\ P > 0
  BY MachineCodeAssumption
<1>2. PICK N \in Nat : NumGroups = N
  BY MachineCodeAssumption
<1>3. nexits \in Nat /\ nexits < N * P
  <2>1. nexits < P * N
    BY <1>1, <1>2 DEF TooManyExits
  <2>2. P * N = N * P
    BY <1>1, <1>2
  <2> QED BY <2>1, <2>2
<1>4. PICK k \in Nat : k = nexits + P + 1
  BY <1>1, <1>3
<1>5. PICK q \in Nat : k \div P = q /\ k < P * q + P
  <2>1. k \div P \in Nat /\ k % P \in 0..(P - 1) /\ k = (P * (k \div P)) + (k % P)
    BY <1>1, <1>4
  <2> QED BY <1>1, <2>1
<1>6. GroupsFor(nexits) = q
  BY <1>1, <1>4, <1>5 DEF GroupsFor
<1>7. ASSUME NEW e \in 0..(nexits - 1)
      PROVE  /\ e \in 0..(NumGroups * PerGroup - 1) /\ e \div PerGroup \in 0..(NumGroups - 1)
             /\ e \div PerGroup < q
  <2>1. e \in 0..(N * P - 1) /\ e \in Nat /\ e < nexits
    BY <1>1, <1>2, <1>3, <1>7
  <2>2. PICK r \in Nat : e \div P = r /\ P * r <= e
    <3>1. e \div P \in Nat /\ e % P \in 0..(P - 1) /\ e = (P * (e \div P)) + (e % P)
      BY <1>1, <2>1
    <3> QED BY <1>1, <2>1, <3>1
  <2>3. r < q
    <3>1. SUFFICES ASSUME r >= q PROVE FALSE
      BY <1>5, <2>2
    <3>2. P * r >= P * q
      BY <1>1, <1>5, <2>2, <3>1
    <3> QED BY <1>1, <1>3, <1>4, <1>5, <2>1, <2>2, <3>2
  <2>4. e \in 0..(NumGroups * PerGroup - 1)
    BY <1>1, <1>2, <2>1
  <2>5. e \div PerGroup \in 0..(NumGroups - 1)
    BY <2>4, ExitGroup
  <2> QED BY <1>1, <2>2, <2>3, <2>4, <2>5
<1> QED BY <1>6, <1>7

\* The sizes of the groups below one that is missing.
LEMMA CountBelow ==
  ASSUME NEW S, IsFiniteSet(S), S \subseteq Nat
  PROVE  /\ \A g \in Nat : Cardinality({h \in S : h < g}) \in Nat
         /\ \A g, k \in S : g < k =>
              Cardinality({h \in S : h < g}) + 1 <= Cardinality({h \in S : h < k})
         /\ \A g \in S : Cardinality({h \in S : h < g}) + 1 <= Cardinality(S)
<1> DEFINE B(g) == {h \in S : h < g}
<1>1. ASSUME NEW g
      PROVE  IsFiniteSet(B(g)) /\ Cardinality(B(g)) \in Nat
  BY FS_Subset, FS_CardinalityType
<1>2. ASSUME NEW g \in S
      PROVE  /\ IsFiniteSet(B(g) \cup {g})
             /\ Cardinality(B(g) \cup {g}) = Cardinality(B(g)) + 1
  <2>1. g \notin B(g)
    OBVIOUS
  <2> QED BY <1>1, <2>1, FS_AddElement
<1>3. ASSUME NEW g \in S, NEW k \in S, g < k
      PROVE  Cardinality(B(g)) + 1 <= Cardinality(B(k))
  <2>1. \A h \in S : h \in Nat
    OBVIOUS
  <2>2. \A h \in S : h < g \/ h = g => h < k
    BY <1>3, <2>1
  <2>3. B(g) \cup {g} \in SUBSET B(k)
    BY <2>2
  <2> HIDE DEF B
  <2>4. Cardinality(B(g) \cup {g}) <= Cardinality(B(k))
    BY <1>1, <2>3, FS_Subset
  <2> QED BY <1>2, <2>4
<1>4. ASSUME NEW g \in S
      PROVE  Cardinality(B(g)) + 1 <= Cardinality(S)
  <2>1. B(g) \cup {g} \in SUBSET S
    BY SMTT(40)
  <2>2. PICK T \in SUBSET S : T = B(g) \cup {g}
    BY <2>1
  <2>3. Cardinality(T) <= Cardinality(S)
    BY <2>2, FS_Subset
  <2>4. Cardinality(T) = Cardinality(B(g)) + 1
    BY <1>2, <2>2
  <2> HIDE DEF B
  <2> QED BY <2>3, <2>4
<1> QED BY <1>1, <1>3, <1>4

\* Of two stubs in different places the later begins where the earlier ends,
\* or behind.
LEMMA Scaled ==
  ASSUME NEW G \in Nat, NEW a \in Nat, NEW b \in Nat, a + 1 <= b
  PROVE  G * a \in Nat /\ G * b \in Nat /\ G * a + G <= G * b
<1>1. G * b >= G * (a + 1)
  OBVIOUS
<1>2. G * (a + 1) = G * a + G
  OBVIOUS
<1> QED BY <1>1, <1>2

\* A group of exit stubs takes a positive number of bytes.
LEMMA GroupSizePositive == GroupSize \in Nat \ {0} /\ GroupSize = 4 * PerGroup + 5
BY MachineCodeAssumption DEF GroupSize, EXITSTUB_SPACING

\* The groups that exist stay, the others are laid out behind one another.
LEMMA StubsApart ==
  ASSUME NEW nexits \in 1..MaxExits, AreaType, Apart(group, bottom),
         NEW gs, gs = setupExitStubs(nexits),
         NEW b, b = bottom + GroupSize * Cardinality(Missing(nexits))
  PROVE  /\ Groups(gs) /\ DOMAIN gs = DOMAIN group /\ b \in Nat
         /\ Apart(gs, b)
         /\ \A g \in DOMAIN group : group[g] # Unset => gs[g] = group[g]
         /\ \A g \in DOMAIN group : g < GroupsFor(nexits) => gs[g] # Unset
<1>0. PICK w \in {NumGroups, NumGroups + 1} : group \in [0..(w - 1) -> Int]
  BY DEF AreaType, Groups
<1>0a. PICK D : D = DOMAIN group
  OBVIOUS
<1>0b. w \in Nat /\ D = 0..(w - 1) /\ D \subseteq Nat
  BY <1>0, <1>0a, MachineCodeAssumption
<1>1. PICK K : K = Missing(nexits) /\ K \subseteq D /\ K \subseteq Nat
  BY <1>0a, <1>0b DEF Missing
<1>2. /\ IsFiniteSet(K)
      /\ \A g \in K : g \in D /\ group[g] = Unset
      /\ \A g \in D : g < GroupsFor(nexits) /\ group[g] = Unset => g \in K
  <2>1. IsFiniteSet(0..(w - 1))
    BY <1>0b, FS_Interval
  <2>2. IsFiniteSet(K)
    BY <1>0b, <1>1, <2>1, FS_Subset
  <2> QED BY <1>0a, <1>1, <2>2 DEF Missing
<1>3. PICK G \in Nat : GroupSize = G /\ G > 0
  BY GroupSizePositive
<1>4. PICK c \in [K -> Nat] : \A g \in K : c[g] = Cardinality({h \in K : h < g})
  <2>1. \A g \in K : Cardinality({h \in K : h < g}) \in Nat
    BY <1>1, <1>2, CountBelow
  <2> DEFINE below == [g \in K |-> Cardinality({h \in K : h < g})]
  <2>2. below \in [K -> Nat]
    BY <2>1
  <2>3. \A g \in K : below[g] = Cardinality({h \in K : h < g})
    OBVIOUS
  <2> HIDE DEF below
  <2> QED BY <2>2, <2>3
<1>5. PICK n \in Nat : Cardinality(K) = n
  BY <1>2, FS_CardinalityType
<1>6. /\ \A g, k \in K : g < k => c[g] + 1 <= c[k]
      /\ \A g \in K : c[g] + 1 <= n
  <2>1. /\ \A g, k \in K : g < k =>
             Cardinality({h \in K : h < g}) + 1 <= Cardinality({h \in K : h < k})
        /\ \A g \in K : Cardinality({h \in K : h < g}) + 1 <= Cardinality(K)
    BY <1>1, <1>2, CountBelow
  <2>2. ASSUME NEW g \in K, NEW k \in K, g < k
        PROVE  c[g] + 1 <= c[k]
    BY <1>4, <2>1, <2>2
  <2>3. ASSUME NEW g \in K
        PROVE  c[g] + 1 <= n
    BY <1>4, <1>5, <2>1
  <2> QED BY <2>2, <2>3
<1>7. \A g \in K : NewAddr(nexits, g) = bottom + G * c[g]
  BY <1>1, <1>3, <1>4 DEF NewAddr
<1>8. PICK bot \in Nat : bottom = bot
  BY DEF AreaType
<1>9. b = bot + G * n
  BY <1>1, <1>3, <1>5, <1>8
<1>10. \A g \in D : group[g] \in Int
  BY <1>0, <1>0a
<1>11. gs = [g \in D |-> IF g \in K THEN bot + G * c[g] ELSE group[g]]
  BY <1>0a, <1>1, <1>7, <1>8, <1>10 DEF setupExitStubs
<1>12. \A g \in K : /\ gs[g] = bot + G * c[g] /\ gs[g] \in Nat /\ gs[g] >= bot /\ gs[g] + G <= b
  <2>1. SUFFICES ASSUME NEW g \in K
                 PROVE  gs[g] = bot + G * c[g] /\ gs[g] \in Nat /\ gs[g] >= bot /\ gs[g] + G <= b
    OBVIOUS
  <2>2. gs[g] = bot + G * c[g]
    BY <1>2, <1>11
  <2>3. G * c[g] \in Nat /\ G * n \in Nat /\ G * c[g] + G <= G * n
    BY <1>4, <1>6, Scaled
  <2> QED BY <1>9, <2>2, <2>3
<1>13. \A g, k \in K : g < k => gs[g] + G <= gs[k]
  <2>1. SUFFICES ASSUME NEW g \in K, NEW k \in K, g < k PROVE gs[g] + G <= gs[k]
    OBVIOUS
  <2>2. G * c[g] \in Nat /\ G * c[k] \in Nat /\ G * c[g] + G <= G * c[k]
    BY <1>4, <1>6, <2>1, Scaled
  <2> QED BY <1>12, <2>2
<1>14. \A g \in D \ K : gs[g] = group[g]
  BY <1>11
<1>15. b \in Nat /\ b >= bot
  <2>1. G * n \in Nat
    OBVIOUS
  <2> QED BY <1>9, <2>1
<1>16. Groups(gs) /\ DOMAIN gs = DOMAIN group /\ DOMAIN gs = D
  <2>1. \A g \in K : bot + G * c[g] \in Int
    BY <1>12
  <2>2. gs \in [D -> Int]
    BY <1>10, <1>11, <2>1
  <2>3. gs \in [0..(w - 1) -> Int]
    BY <1>0b, <2>2
  <2> QED BY <1>0, <1>0a, <2>2, <2>3 DEF Groups
<1>17. Apart(gs, b)
  <2>1. \A g \in D \ K :
          gs[g] # Unset => gs[g] \in Nat /\ gs[g] + G <= bot
    BY <1>0a, <1>3, <1>8, <1>14 DEF Apart
  <2>2. ASSUME NEW g \in D, gs[g] # Unset
        PROVE  gs[g] \in Nat /\ gs[g] + GroupSize <= b
    BY <1>3, <1>12, <1>15, <2>1, <2>2
  <2>3. ASSUME NEW g \in D, NEW h \in D,
               g # h, gs[g] # Unset, gs[h] # Unset
        PROVE  gs[g] + G <= gs[h] \/ gs[h] + G <= gs[g]
    <3>1. CASE g \in K /\ h \in K
      <4>1. g < h \/ h < g
        BY <1>0b, <2>3
      <4> QED BY <1>13, <3>1, <4>1
    <3>2. CASE g \in K /\ h \notin K
      BY <1>12, <2>1, <2>3, <3>2
    <3>3. CASE g \notin K /\ h \in K
      BY <1>12, <2>1, <2>3, <3>3
    <3>4. CASE g \notin K /\ h \notin K
      BY <1>0a, <1>3, <1>14, <2>3, <3>4 DEF Apart
    <3> QED BY <3>1, <3>2, <3>3, <3>4
  <2> QED BY <1>3, <1>16, <2>2, <2>3 DEF Apart
<1>18. \A g \in D : group[g] # Unset => gs[g] = group[g]
  BY <1>0a, <1>2, <1>14
<1>19. \A g \in D : g < GroupsFor(nexits) => gs[g] # Unset
  <2>1. \A g \in K : gs[g] # Unset
    BY <1>12 DEF Unset
  <2> QED BY <1>0a, <1>2, <1>18, <2>1
<1> QED BY <1>0a, <1>15, <1>16, <1>17, <1>18, <1>19

\* The stubs of different exits are at different addresses.
LEMMA StubsDiffer ==
  ASSUME Groups(group), Apart(group, bottom),
         NEW n \in 0..(NumGroups * PerGroup - 1), group[n \div PerGroup] # Unset
  PROVE  Stubs(exitstubAddr(group, n)) = {n}
<1>1. PICK P \in Nat : PerGroup = P /\ P > 0
  BY MachineCodeAssumption
<1>2. ASSUME NEW m \in 0..(NumGroups * PerGroup - 1), group[m \div PerGroup] # Unset,
             exitstubAddr(group, m) = exitstubAddr(group, n)
      PROVE  m = n
  <2>1. PICK g \in 0..(NumGroups - 1), r \in 0..(P - 1) :
          n \div P = g /\ n % P = r /\ n = (P * g) + r
    BY <1>1, ExitGroup
  <2>2. PICK h \in 0..(NumGroups - 1), s \in 0..(P - 1) :
          m \div P = h /\ m % P = s /\ m = (P * h) + s
    BY <1>1, ExitGroup
  <2>3a. g \in DOMAIN group /\ h \in DOMAIN group
    BY ElementsOfGroups
  <2>3. PICK x \in Nat : group[g] = x /\ group[g] # Unset
    BY <1>1, <2>1, <2>3a DEF Apart
  <2>4. PICK y \in Nat : group[h] = y /\ group[h] # Unset
    BY <1>1, <1>2, <2>2, <2>3a DEF Apart
  <2>5. x + 4 * r = y + 4 * s
    BY <1>1, <1>2, <2>1, <2>2, <2>3, <2>4 DEF exitstubAddr, EXITSTUB_SPACING
  <2>6. g = h
    <3>1. SUFFICES ASSUME g # h PROVE FALSE
      OBVIOUS
    <3>2. x + GroupSize <= y \/ y + GroupSize <= x
      BY <2>3, <2>3a, <2>4, <3>1 DEF Apart
    <3>3. GroupSize = 4 * P + 5
      BY <1>1, GroupSizePositive
    <3> QED BY <2>5, <3>2, <3>3
  <2>7. r = s
    BY <2>3, <2>4, <2>5, <2>6
  <2> QED BY <2>1, <2>2, <2>6, <2>7
<1>3. n \in Stubs(exitstubAddr(group, n))
  BY DEF Stubs
<1>4. \A m \in Stubs(exitstubAddr(group, n)) : m = n
  BY <1>2 DEF Stubs
<1> QED BY <1>3, <1>4

\* A piece of code below all others.
LEMMA CodeGrows ==
  ASSUME NEW C, NEW n \in Nat, NEW t \in Int, Committed(C, n, t), t <= AreaSize,
         NEW size \in Nat \ {0}
  PROVE  /\ Range2(t - size, size) \notin C
         /\ Committed(C \cup {Range2(t - size, size)}, n + 1, t - size)
<1>1. PICK R : R = Range2(t - size, size)
  OBVIOUS
<1>2. \A x \in R : x \in (t - size)..(t - 1)
  BY <1>1 DEF Range2
<1>3. t - 1 \in R
  BY <1>1 DEF Range2
<1>4. \A c \in C : \A x \in c : x \in t..(AreaSize - 1)
  BY DEF Committed
<1>5. \A c \in C : c \cap R = {}
  BY <1>2, <1>4, MachineCodeAssumption
<1>6. R \notin C
  BY <1>3, <1>5
<1>7. IsFiniteSet(C \cup {R}) /\ Cardinality(C \cup {R}) = n + 1
  BY <1>6, FS_AddElement DEF Committed
<1>8. \A c, d \in C \cup {R} : c # d => c \cap d = {}
  BY <1>5 DEF Committed
<1>9. AreaSize \in Nat /\ t <= AreaSize
  BY MachineCodeAssumption
<1>10. \A c \in C \cup {R} : \A x \in c : x \in (t - size)..(AreaSize - 1)
  BY <1>2, <1>4, <1>9
<1> QED BY <1>1, <1>6, <1>7, <1>8, <1>10 DEF Committed

\* The code of a new trace comes to that of the others.
LEMMA CodeOfAppend ==
  ASSUME NEW t \in Seq(TraceRec), NEW b, NEW r \in TraceRec
  PROVE  /\ AreaCode(Append(t, r), b) = AreaCode(t, b) \cup {Range2(r.entry, r.size)}
         /\ AreaEntries(t, b) \subseteq AreaEntries(Append(t, r), b)
<1>1. PICK u : u = Append(t, r)
  OBVIOUS
<1>2. /\ DOMAIN t = 1..Len(t) /\ DOMAIN u = 1..(Len(t) + 1) /\ Len(t) \in Nat
      /\ \A p \in DOMAIN t : u[p] = t[p]
      /\ u[Len(t) + 1] = r
  BY <1>1
<1>3. \A p \in DOMAIN u : p \in DOMAIN t \/ u[p] = r
  BY <1>2
<1>4. \A p \in DOMAIN t : p \in DOMAIN u
  BY <1>2
<1>5. Len(t) + 1 \in DOMAIN u
  BY <1>2
<1>6. {Range2(u[p].entry, u[p].size) : p \in DOMAIN u}
        = {Range2(t[p].entry, t[p].size) : p \in DOMAIN t} \cup {Range2(r.entry, r.size)}
  BY <1>2, <1>3, <1>4, <1>5
<1>7. {t[p].entry : p \in DOMAIN t} \subseteq {u[p].entry : p \in DOMAIN u}
  BY <1>2, <1>4
<1> QED BY <1>1, <1>6, <1>7 DEF AreaCode, AreaEntries

\* The code of a new bridge comes to that of the others.
LEMMA CodeOfBridge ==
  ASSUME NEW t, NEW b, NEW x
  PROVE  /\ AreaCode(t, b \cup {x}) = AreaCode(t, b) \cup {Range2(x.entry, BridgeSize)}
         /\ AreaEntries(t, b \cup {x}) = AreaEntries(t, b) \cup {x.entry}
<1>1. {Range2(y.entry, BridgeSize) : y \in b \cup {x}}
        = {Range2(y.entry, BridgeSize) : y \in b} \cup {Range2(x.entry, BridgeSize)}
  OBVIOUS
<1>2. {y.entry : y \in b \cup {x}} = {y.entry : y \in b} \cup {x.entry}
  OBVIOUS
<1> QED BY <1>1, <1>2 DEF AreaCode, AreaEntries

\* Patching a guard changes the target of one exit.
Patched(t, p, e, target) == [t EXCEPT ![p].jump[e] = target]
\* A patch writes the target of one jump and moves no trace.
LEMMA PatchKeeps ==
  ASSUME NEW t \in Seq(TraceRec), NEW p \in DOMAIN t, NEW e, NEW target \in Int,
         NEW u, u = Patched(t, p, e, target)
  PROVE  /\ u \in Seq(TraceRec) /\ Len(u) = Len(t) /\ DOMAIN u = DOMAIN t
         /\ \A q \in DOMAIN t : u[q].entry = t[q].entry /\ u[q].size = t[q].size
         /\ \A q \in DOMAIN t : /\ DOMAIN u[q].jump = DOMAIN t[q].jump
                                /\ \A x \in DOMAIN t[q].jump :
                                     u[q].jump[x] = t[q].jump[x] \/ u[q].jump[x] = target
<1>1. t[p] \in TraceRec
  OBVIOUS
<1>2. PICK f : f = [t[p].jump EXCEPT ![e] = target]
  OBVIOUS
<1>3. PICK n \in 1..MaxExits : t[p].jump \in [0..(n - 1) -> Int]
  BY <1>1 DEF TraceRec
<1>4. f \in [0..(n - 1) -> Int] /\ DOMAIN f = DOMAIN t[p].jump
      /\ \A x \in DOMAIN f : f[x] = t[p].jump[x] \/ f[x] = target
  BY <1>2, <1>3
<1>5. PICK r : r = [t[p] EXCEPT !.jump = f]
  OBVIOUS
<1>6. r.entry = t[p].entry /\ r.size = t[p].size /\ r.jump = f /\ r \in TraceRec
  <2> DEFINE J == UNION {[0..(k - 1) -> Int] : k \in 1..MaxExits}
  <2>1. f \in J
    BY <1>4
  <2>2. t[p] \in [entry : Int, size : Nat \ {0}, jump : J]
    BY <1>1 DEF TraceRec
  <2> HIDE DEF J
  <2>3. /\ r.entry = t[p].entry /\ r.size = t[p].size /\ r.jump = f
        /\ r \in [entry : Int, size : Nat \ {0}, jump : J]
    BY <1>5, <2>1, <2>2
  <2> USE DEF J
  <2> QED BY <2>3 DEF TraceRec
<1>7. Patched(t, p, e, target) = [t EXCEPT ![p] = r]
  BY <1>2, <1>5 DEF Patched
<1>8. u \in Seq(TraceRec) /\ Len(u) = Len(t) /\ DOMAIN u = DOMAIN t
  BY <1>6, <1>7
<1>9. \A q \in DOMAIN t : u[q] = IF q = p THEN r ELSE t[q]
  BY <1>7
<1> QED BY <1>4, <1>6, <1>8, <1>9

\* The code of traces is where their entries and sizes say.
LEMMA CodeOfPatched ==
  ASSUME NEW t, NEW u, NEW b, DOMAIN u = DOMAIN t,
         \A q \in DOMAIN t : u[q].entry = t[q].entry /\ u[q].size = t[q].size
  PROVE  AreaCode(u, b) = AreaCode(t, b) /\ AreaEntries(u, b) = AreaEntries(t, b)
<1>1. {Range2(u[p].entry, u[p].size) : p \in DOMAIN u} = {Range2(t[p].entry, t[p].size) : p \in DOMAIN t}
  OBVIOUS
<1>2. {u[p].entry : p \in DOMAIN u} = {t[p].entry : p \in DOMAIN t}
  OBVIOUS
<1> QED BY <1>1, <1>2 DEF AreaCode, AreaEntries

\* The jumps are exact with more groups and more entries.
LEMMA JumpsKept ==
  ASSUME NEW ts, NEW gs, NEW es, JumpsTo(ts, gs, es), NEW hs, NEW fs, es \subseteq fs,
         Groups(gs), \A g \in DOMAIN gs : gs[g] # Unset => hs[g] = gs[g]
  PROVE  JumpsTo(ts, hs, fs)
<1> SUFFICES ASSUME NEW p \in DOMAIN ts, NEW e \in DOMAIN ts[p].jump
             PROVE  \/ /\ e \in 0..(NumGroups * PerGroup - 1)
                       /\ hs[e \div PerGroup] # Unset
                       /\ ts[p].jump[e] = exitstubAddr(hs, e)
                    \/ ts[p].jump[e] \in fs
  BY DEF JumpsTo
<1>1. CASE ts[p].jump[e] \in es
  BY <1>1
<1>2. CASE ts[p].jump[e] \notin es
  <2>1. /\ e \in 0..(NumGroups * PerGroup - 1)
        /\ gs[e \div PerGroup] # Unset
        /\ ts[p].jump[e] = exitstubAddr(gs, e)
    BY <1>2 DEF JumpsTo
  <2>2. hs[e \div PerGroup] = gs[e \div PerGroup]
    BY <2>1, ExitGroup, ElementsOfGroups
  <2> QED BY <2>1, <2>2 DEF exitstubAddr
<1> QED BY <1>1, <1>2

\* Jumps go to stubs and entries still when one goes to an entry instead.
LEMMA JumpsPatched ==
  ASSUME NEW ts, NEW gs, NEW es, JumpsTo(ts, gs, es), NEW us, DOMAIN us = DOMAIN ts,
         NEW target \in es,
         \A q \in DOMAIN ts : /\ DOMAIN us[q].jump = DOMAIN ts[q].jump
                              /\ \A x \in DOMAIN ts[q].jump :
                                   us[q].jump[x] = ts[q].jump[x] \/ us[q].jump[x] = target
  PROVE  JumpsTo(us, gs, es)
BY DEF JumpsTo

\* So they do with a new trace, whose jumps go to its exit stubs.
LEMMA JumpsAppended ==
  ASSUME NEW ts \in Seq(TraceRec), NEW gs, NEW es, JumpsTo(ts, gs, es), NEW r \in TraceRec,
         \A e \in DOMAIN r.jump : /\ e \in 0..(NumGroups * PerGroup - 1)
                                  /\ gs[e \div PerGroup] # Unset
                                  /\ r.jump[e] = exitstubAddr(gs, e)
  PROVE  JumpsTo(Append(ts, r), gs, es)
<1>1. PICK u : u = Append(ts, r)
  OBVIOUS
<1>2. /\ DOMAIN ts = 1..Len(ts) /\ DOMAIN u = 1..(Len(ts) + 1) /\ Len(ts) \in Nat
      /\ \A p \in DOMAIN ts : u[p] = ts[p]
      /\ u[Len(ts) + 1] = r
  BY <1>1
<1>3. \A p \in DOMAIN u : p \in DOMAIN ts \/ u[p] = r
  BY <1>2
<1> QED BY <1>1, <1>2, <1>3 DEF JumpsTo

\* At the start the area is empty.
LEMMA AreaInit == MCodeInit => AreaInv
<1> SUFFICES ASSUME MCodeInit PROVE AreaInv
  OBVIOUS
<1> USE DEF MCodeInit
<1>1. AreaType
  <2>1. trace \in Seq(TraceRec)
    OBVIOUS
  <2>2. IsFiniteSet(bridges)
    BY FS_EmptySet
  <2>3. top \in Nat /\ bottom \in Nat /\ bottom <= top /\ top <= AreaSize
    BY MachineCodeAssumption
  <2>4. Groups(group)
    <3>1. PICK last \in {NumGroups - 1, NumGroups} : group = [g \in 0..last |-> Unset]
      OBVIOUS
    <3>2. last + 1 \in {NumGroups, NumGroups + 1} /\ (last + 1) - 1 = last
      BY MachineCodeAssumption
    <3>3. group \in [0..((last + 1) - 1) -> Int]
      BY <3>1, <3>2 DEF Unset
    <3> QED BY <3>2, <3>3 DEF Groups
  <2> QED BY <2>1, <2>2, <2>3, <2>4 DEF AreaType
<1>2. Apart(group, bottom)
  BY DEF Apart, Unset
<1>3. DOMAIN trace = {} /\ Len(trace) = 0
  OBVIOUS
<1>4. AreaCode(trace, bridges) = {}
  BY <1>3 DEF AreaCode
<1>5. Len(trace) + Cardinality(bridges) = 0
  BY <1>3, FS_EmptySet
<1>6. Committed({}, 0, top)
  BY FS_EmptySet DEF Committed
<1>7. JumpsTo(trace, group, AreaEntries(trace, bridges))
  BY <1>3 DEF JumpsTo
<1> HIDE DEF MCodeInit
<1>8. Committed(AreaCode(trace, bridges), Len(trace) + Cardinality(bridges), top)
  BY <1>4, <1>5, <1>6
<1> QED BY <1>1, <1>2, <1>7, <1>8 DEF AreaInv

\* A trace with its stubs.
LEMMA AssembleKeeps ==
  ASSUME AreaInv, NEW nexits \in 1..MaxExits, NEW size \in CodeSizes, assemble(nexits, size),
         ~ (UNCHANGED <<top, bottom, group, trace, bridges>>)
  PROVE  AreaInv'
<1>1. PICK gs, b : gs = setupExitStubs(nexits) /\ b = bottom + GroupSize * Cardinality(Missing(nexits))
  OBVIOUS
<1>2. PICK r : r = [entry |-> top - size, size |-> size, jump |-> [e \in 0..(nexits - 1) |-> exitstubAddr(gs, e)]]
  OBVIOUS
<1>3. /\ ~ TooManyExits(nexits) /\ Commits(top - size, b)
      /\ group' = gs /\ bottom' = b /\ top' = top - size
      /\ trace' = Append(trace, r) /\ bridges' = bridges
  BY <1>1, <1>2 DEF assemble, Fatal
<1>4. AreaType /\ Apart(group, bottom)
  BY DEF AreaInv
<1>5. /\ Groups(gs) /\ DOMAIN gs = DOMAIN group /\ b \in Nat
      /\ Apart(gs, b)
      /\ \A g \in DOMAIN group : group[g] # Unset => gs[g] = group[g]
      /\ \A g \in DOMAIN group : g < GroupsFor(nexits) => gs[g] # Unset
  BY <1>1, <1>4, StubsApart
<1>6. size \in Nat \ {0} /\ top \in Nat /\ top <= AreaSize /\ AreaSize \in Nat
      /\ trace \in Seq(TraceRec) /\ IsFiniteSet(bridges)
  BY <1>4, MachineCodeAssumption DEF AreaType
<1>7. top - size \in Nat /\ b <= top - size /\ top - size <= AreaSize
  BY <1>3, <1>5, <1>6 DEF Commits
<1>8. r.entry = top - size /\ r.size = size /\ r.jump = [e \in 0..(nexits - 1) |-> exitstubAddr(gs, e)]
  BY <1>2
<1>9. \A e \in DOMAIN r.jump : /\ e \in 0..(NumGroups * PerGroup - 1)
                               /\ gs[e \div PerGroup] # Unset
                               /\ r.jump[e] = exitstubAddr(gs, e)
                               /\ r.jump[e] \in Int
  <2>1. SUFFICES ASSUME NEW e \in 0..(nexits - 1)
                 PROVE  /\ e \in 0..(NumGroups * PerGroup - 1)
                        /\ gs[e \div PerGroup] # Unset
                        /\ exitstubAddr(gs, e) \in Int
    BY <1>8
  <2>2. /\ e \in 0..(NumGroups * PerGroup - 1)
        /\ e \div PerGroup \in 0..(NumGroups - 1) /\ e \div PerGroup < GroupsFor(nexits)
    BY <1>3, EnoughGroups
  <2>3. e % PerGroup \in Nat
    BY MachineCodeAssumption
  <2>4. gs[e \div PerGroup] \in Int
    BY <1>5, <2>2, ElementsOfGroups
  <2>5. gs[e \div PerGroup] # Unset
    BY <1>5, <2>2, ElementsOfGroups
  <2> QED BY <2>2, <2>3, <2>4, <2>5 DEF exitstubAddr, EXITSTUB_SPACING
<1>10. r \in TraceRec
  <2> DEFINE J == UNION {[0..(k - 1) -> Int] : k \in 1..MaxExits}
  <2>1. r.jump \in [0..(nexits - 1) -> Int]
    BY <1>8, <1>9
  <2>2. r.jump \in J
    BY <2>1
  <2> HIDE DEF J
  <2>3. r \in [entry : Int, size : Nat \ {0}, jump : J]
    BY <1>2, <1>6, <1>7, <1>8, <2>2
  <2> USE DEF J
  <2> QED BY <2>3 DEF TraceRec
<1>11. AreaType'
  <2>1. trace' \in Seq(TraceRec)
    BY <1>3, <1>6, <1>10
  <2> QED BY <1>3, <1>5, <1>6, <1>7, <2>1 DEF AreaType
<1>12. Apart(group', bottom')
  BY <1>3, <1>5
<1>13. Committed(AreaCode(trace', bridges'), Len(trace') + Cardinality(bridges'), top')
  <2>1. PICK n \in Nat : Len(trace) + Cardinality(bridges) = n
    BY <1>6, FS_CardinalityType
  <2>2. Len(trace') + Cardinality(bridges') = n + 1
    <3>1. Len(trace') = Len(trace) + 1 /\ Len(trace) \in Nat
      BY <1>3, <1>6
    <3>2. Cardinality(bridges') = Cardinality(bridges) /\ Cardinality(bridges) \in Nat
      BY <1>3, <1>6, FS_CardinalityType
    <3> QED BY <2>1, <3>1, <3>2
  <2>3. Committed(AreaCode(trace, bridges), n, top)
    BY <2>1 DEF AreaInv
  <2>4. AreaCode(trace', bridges') = AreaCode(trace, bridges) \cup {Range2(top - size, size)}
    BY <1>3, <1>6, <1>8, <1>10, CodeOfAppend
  <2>5. Committed(AreaCode(trace, bridges) \cup {Range2(top - size, size)}, n + 1, top - size)
    <3>1. PICK C : C = AreaCode(trace, bridges)
      OBVIOUS
    <3>2. top \in Int /\ Committed(C, n, top)
      BY <1>6, <2>3, <3>1
    <3>3. Committed(C \cup {Range2(top - size, size)}, n + 1, top - size)
      BY <1>6, <3>2, CodeGrows
    <3> QED BY <3>1, <3>3
  <2> QED BY <1>3, <2>2, <2>4, <2>5
<1>14. JumpsTo(trace', group', AreaEntries(trace', bridges'))
  <2>1. AreaEntries(trace, bridges) \subseteq AreaEntries(trace', bridges')
    BY <1>3, <1>6, <1>10, CodeOfAppend
  <2>2. JumpsTo(trace, group, AreaEntries(trace, bridges))
    BY DEF AreaInv
  <2>3. JumpsTo(trace, gs, AreaEntries(trace', bridges'))
    BY <1>4, <1>5, <2>1, <2>2, JumpsKept DEF AreaType
  <2> QED BY <1>3, <1>6, <1>9, <1>10, <2>3, JumpsAppended
<1> QED BY <1>11, <1>12, <1>13, <1>14 DEF AreaInv

\* An exit leads to the last trace.
LEMMA SideTraceKeeps ==
  ASSUME AreaInv, PatchSideTrace
  PROVE  AreaInv'
<1>1. trace \in Seq(TraceRec)
  BY DEF AreaInv, AreaType
<1>2a. PICK target : target = trace[Len(trace)].entry
  OBVIOUS
<1>2b. PICK p \in DOMAIN trace : \E e : trace' = Patched(trace, p, e, target)
  <2>1. PICK p \in 1..(Len(trace) - 1) : \E e \in DOMAIN trace[p].jump :
          patchGuard(p, e, trace[Len(trace)].entry)
    BY DEF PatchSideTrace
  <2>2. p \in DOMAIN trace
    BY <1>1, <2>1
  <2> QED BY <1>2a, <2>1, <2>2 DEF patchGuard, Patched
<1>2c. PICK e : trace' = Patched(trace, p, e, target)
  BY <1>2b
<1>2. target = trace[Len(trace)].entry /\ trace' = Patched(trace, p, e, target)
  BY <1>2a, <1>2c
<1>3. Len(trace) \in DOMAIN trace
  BY <1>1 DEF PatchSideTrace
<1>4. target \in Int /\ target \in AreaEntries(trace, bridges)
  <2>1. trace[Len(trace)] \in TraceRec
    BY <1>1, <1>3
  <2> QED BY <1>2, <1>3, <2>1 DEF AreaEntries, TraceRec
<1>5. /\ trace' \in Seq(TraceRec) /\ Len(trace') = Len(trace) /\ DOMAIN trace' = DOMAIN trace
      /\ \A q \in DOMAIN trace : trace'[q].entry = trace[q].entry /\ trace'[q].size = trace[q].size
      /\ \A q \in DOMAIN trace : /\ DOMAIN trace'[q].jump = DOMAIN trace[q].jump
                                 /\ \A x \in DOMAIN trace[q].jump :
                                      trace'[q].jump[x] = trace[q].jump[x] \/ trace'[q].jump[x] = target
  BY <1>1, <1>2, <1>4, PatchKeeps
<1>6. top' = top /\ bottom' = bottom /\ group' = group /\ bridges' = bridges
  BY DEF PatchSideTrace
<1>7. /\ AreaCode(trace', bridges') = AreaCode(trace, bridges)
      /\ AreaEntries(trace', bridges') = AreaEntries(trace, bridges)
  BY <1>5, <1>6, CodeOfPatched
<1>8. JumpsTo(trace', group', AreaEntries(trace', bridges'))
  <2>1. JumpsTo(trace, group, AreaEntries(trace, bridges))
    BY DEF AreaInv
  <2>2. JumpsTo(trace', group, AreaEntries(trace, bridges))
    BY <1>4, <1>5, <2>1, JumpsPatched
  <2> QED BY <1>6, <1>7, <2>2
<1>9. AreaType'
  BY <1>5, <1>6 DEF AreaInv, AreaType
<1>10. Apart(group', bottom')
  BY <1>6 DEF AreaInv
<1>11. Committed(AreaCode(trace', bridges'), Len(trace') + Cardinality(bridges'), top')
  BY <1>5, <1>6, <1>7 DEF AreaInv
<1> QED BY <1>8, <1>9, <1>10, <1>11 DEF AreaInv

\* An exit leads to another trace by way of a bridge.
LEMMA FallthroughKeeps ==
  ASSUME AreaInv, NEW p \in DOMAIN trace, NEW e, NEW q, patchFallthrough(p, e, q),
         ~ (UNCHANGED <<top, bottom, group, trace, bridges>>)
  PROVE  AreaInv'
<1>1. PICK target, x : target = top - BridgeSize /\ x = [entry |-> target, to |-> q]
  OBVIOUS
<1>2. /\ Commits(target, bottom)
      /\ trace' = Patched(trace, p, e, target) /\ bridges' = bridges \cup {x} /\ top' = target
      /\ bottom' = bottom /\ group' = group
  BY <1>1 DEF patchFallthrough, patchGuard, Patched, Fatal
<1>3. AreaType /\ trace \in Seq(TraceRec) /\ IsFiniteSet(bridges)
  BY DEF AreaInv, AreaType
<1>4. /\ top \in Nat /\ top <= AreaSize /\ target \in Int /\ target <= AreaSize /\ bottom <= target
      /\ bottom \in Nat
  BY <1>1, <1>2, <1>3, MachineCodeAssumption DEF Commits, AreaType, BridgeSize
<1>5. /\ trace' \in Seq(TraceRec) /\ Len(trace') = Len(trace) /\ DOMAIN trace' = DOMAIN trace
      /\ \A k \in DOMAIN trace : trace'[k].entry = trace[k].entry /\ trace'[k].size = trace[k].size
      /\ \A k \in DOMAIN trace : /\ DOMAIN trace'[k].jump = DOMAIN trace[k].jump
                                 /\ \A n \in DOMAIN trace[k].jump :
                                      trace'[k].jump[n] = trace[k].jump[n] \/ trace'[k].jump[n] = target
  BY <1>2, <1>3, <1>4, PatchKeeps
<1>6. /\ AreaCode(trace', bridges) = AreaCode(trace, bridges)
      /\ AreaEntries(trace', bridges) = AreaEntries(trace, bridges)
  BY <1>5, CodeOfPatched
<1>7. x.entry = target
  BY <1>1
<1>8. /\ AreaCode(trace', bridges') = AreaCode(trace, bridges) \cup {Range2(target, BridgeSize)}
      /\ AreaEntries(trace', bridges') = AreaEntries(trace, bridges) \cup {target}
  BY <1>2, <1>6, <1>7, CodeOfBridge
<1>9. PICK n \in Nat : Len(trace) + Cardinality(bridges) = n
  BY <1>3, FS_CardinalityType
<1>10. Committed(AreaCode(trace, bridges), n, top)
  BY <1>9 DEF AreaInv
<1>11. /\ Range2(target, BridgeSize) \notin AreaCode(trace, bridges)
       /\ Committed(AreaCode(trace', bridges'), n + 1, target)
  <2>1. BridgeSize \in Nat \ {0}
    BY DEF BridgeSize
  <2>2. PICK C : C = AreaCode(trace, bridges)
    OBVIOUS
  <2>3. top \in Int /\ Committed(C, n, top)
    BY <1>4, <1>10, <2>2
  <2>4. /\ Range2(top - BridgeSize, BridgeSize) \notin C
        /\ Committed(C \cup {Range2(top - BridgeSize, BridgeSize)}, n + 1, top - BridgeSize)
    BY <1>4, <2>1, <2>3, CodeGrows
  <2> QED BY <1>1, <1>8, <2>2, <2>4
<1>12. x \notin bridges
  BY <1>7, <1>11 DEF AreaCode
<1>13. IsFiniteSet(bridges') /\ Len(trace') + Cardinality(bridges') = n + 1
  <2>1. IsFiniteSet(bridges') /\ Cardinality(bridges') = Cardinality(bridges) + 1
    BY <1>2, <1>3, <1>12, FS_AddElement
  <2>2. Len(trace) \in Nat /\ Cardinality(bridges) \in Nat
    BY <1>3, FS_CardinalityType
  <2> QED BY <1>5, <1>9, <2>1, <2>2
<1>14. AreaType'
  BY <1>2, <1>3, <1>4, <1>5, <1>13 DEF AreaType
<1>15. JumpsTo(trace', group', AreaEntries(trace', bridges'))
  <2>1. JumpsTo(trace, group, AreaEntries(trace, bridges))
    BY DEF AreaInv
  <2>2. AreaEntries(trace, bridges) \subseteq AreaEntries(trace', bridges')
    BY <1>8
  <2>3. JumpsTo(trace, group, AreaEntries(trace', bridges'))
    BY <1>3, <2>1, <2>2, JumpsKept DEF AreaType
  <2>4. target \in AreaEntries(trace', bridges')
    BY <1>8
  <2>5. JumpsTo(trace', group, AreaEntries(trace', bridges'))
    BY <1>5, <2>3, <2>4, JumpsPatched
  <2> QED BY <1>2, <2>5
<1>16. Apart(group', bottom')
  BY <1>2 DEF AreaInv
<1>17. Committed(AreaCode(trace', bridges'), Len(trace') + Cardinality(bridges'), top')
  BY <1>2, <1>11, <1>13
<1> QED BY <1>14, <1>15, <1>16, <1>17 DEF AreaInv

\* Every step of the assembler keeps the invariant of the area.
LEMMA AreaNext == AreaInv /\ [MCodeNext]_mcVars => AreaInv'
<1> SUFFICES ASSUME AreaInv, [MCodeNext]_mcVars PROVE AreaInv'
  OBVIOUS
<1>1. CASE UNCHANGED <<top, bottom, group, trace, bridges>>
  BY <1>1 DEF AreaInv, AreaType
<1>2. CASE ~ (UNCHANGED <<top, bottom, group, trace, bridges>>)
  <2>1. ASSUME NEW nexits \in 1..MaxExits, NEW size \in CodeSizes, assemble(nexits, size)
        PROVE  AreaInv'
    BY <1>2, <2>1, AssembleKeeps
  <2>2. CASE PatchSideTrace
    BY <2>2, SideTraceKeeps
  <2>3. ASSUME NEW p \in DOMAIN trace, NEW q \in DOMAIN trace, NEW e, patchFallthrough(p, e, q)
        PROVE  AreaInv'
    BY <1>2, <2>3, FallthroughKeeps
  <2>4. MCodeNext
    BY <1>2 DEF mcVars
  <2> QED BY <2>1, <2>2, <2>3, <2>4 DEF MCodeNext
<1> QED BY <1>1, <1>2

\* What the invariant says of the area.
LEMMA AreaInvExact == AreaInv => AreaExact
<1> SUFFICES ASSUME AreaInv PROVE AreaExact
  OBVIOUS
<1>1. Apart(group, bottom) /\ AreaType
  BY DEF AreaInv
<1>2. Groups(group)
  BY <1>1 DEF AreaType
<1>3. PICK G \in Nat : GroupSize = G
  BY GroupSizePositive
<1>4. \A g, h \in DOMAIN group : g # h /\ group[g] # Unset /\ group[h] # Unset =>
        Range2(group[g], GroupSize) \cap Range2(group[h], GroupSize) = {}
  <2>1. SUFFICES ASSUME NEW g \in DOMAIN group, NEW h \in DOMAIN group,
                        g # h, group[g] # Unset, group[h] # Unset
                 PROVE  Range2(group[g], G) \cap Range2(group[h], G) = {}
    BY <1>3
  <2>2. PICK x \in Nat, y \in Nat : group[g] = x /\ group[h] = y /\ (x + G <= y \/ y + G <= x)
    BY <1>1, <1>3, <2>1 DEF Apart
  <2>3. (x..(x + G - 1)) \cap (y..(y + G - 1)) = {}
    BY <2>2
  <2> QED BY <2>2, <2>3 DEF Range2
<1>5. \A g \in DOMAIN group : group[g] # Unset => group[g] + GroupSize <= top
  <2>1. \A g \in DOMAIN group : group[g] # Unset => group[g] \in Nat /\ group[g] + G <= bottom
    BY <1>1, <1>3 DEF Apart
  <2>2. bottom \in Nat /\ top \in Nat /\ bottom <= top
    BY <1>1 DEF AreaType
  <2> QED BY <1>3, <2>1, <2>2
<1>6. \A p \in DOMAIN trace : \A e \in DOMAIN trace[p].jump :
        Stubs(trace[p].jump[e]) = {e} \/ trace[p].jump[e] \in AreaEntries(trace, bridges)
  <2>1. SUFFICES ASSUME NEW p \in DOMAIN trace, NEW e \in DOMAIN trace[p].jump,
                        trace[p].jump[e] \notin AreaEntries(trace, bridges)
                 PROVE  Stubs(trace[p].jump[e]) = {e}
    OBVIOUS
  <2>2. /\ e \in 0..(NumGroups * PerGroup - 1)
        /\ group[e \div PerGroup] # Unset
        /\ trace[p].jump[e] = exitstubAddr(group, e)
    BY <2>1 DEF AreaInv, JumpsTo
  <2> QED BY <1>1, <1>2, <2>2, StubsDiffer
<1>7. Committed(AreaCode(trace, bridges), Len(trace) + Cardinality(bridges), top)
  BY DEF AreaInv
<1> QED BY <1>4, <1>5, <1>6, <1>7 DEF AreaExact, Committed

\* Code that was committed is never overwritten, and every guard jumps to
\* the stub of its own exit or to the entry of a trace or a bridge, for every
\* size of the area, number and size of groups, numbers of exits and sizes of
\* code, also when setupExitStubs goes beyond the array of groups: assemble,
\* setupExitStubs, patchGuard and patchFallthrough.
THEOREM AreaIntact == MCodeSpec => []AreaExact
<1>1. MCodeSpec => []AreaInv
  BY AreaInit, AreaNext, PTL DEF MCodeSpec
<1> QED BY <1>1, AreaInvExact, PTL

-----------------------------------------------------------------------------
(*****************************************************************************)
(* Operands.                                                                 *)
(*****************************************************************************)

\* A register is the fourth bit and the three bits of a field.
LEMMA RegisterBits ==
  ASSUME NEW r \in GPRs
  PROVE  /\ r % 8 \in 0..7 /\ r \div 8 \in 0..1 /\ (r % 8) + 8 * (r \div 8) = r
         /\ r % 8 = 4 <=> r \in {4, 12}
         /\ r % 8 = 5 <=> r \in {5, 13}
BY DEF GPRs

\* A number between -128 and 127 is what its low byte stands for.
LEMMA ByteExact ==
  ASSUME NEW i \in Int, checki8(i)
  PROVE  Byte(i) = i
BY DEF checki8, Byte

\* The mode chosen for an offset keeps its displacement, and is not the mode
\* without one where that stands for something else.
LEMMA DispExact ==
  ASSUME NEW rb, NEW ofs \in Int
  PROVE  /\ Disp(OfsMode(rb, ofs), ofs) = ofs
         /\ OfsMode(rb, ofs) \in {XM_OFS0, XM_OFS8, XM_OFS32}
         /\ OfsMode(rb, ofs) = XM_OFS0 => rb % 8 # EBP
BY ByteExact DEF Disp, OfsMode, XM_OFS0, XM_OFS8, XM_OFS32

\* A quotient and remainder are those of the number they make up.
LEMMA ModUnique ==
  ASSUME NEW d \in Nat \ {0}, NEW q \in Nat, NEW r \in 0..(d - 1)
  PROVE  ((d * q) + r) % d = r /\ ((d * q) + r) \div d = q
OBVIOUS

\* The memory operands that the processor decodes.
MemOperand(rr, b, x, ofs) == [r |-> rr, base |-> b, index |-> x, ofs |-> ofs, memory |-> TRUE]

\* What the processor reads of an operand with a base only,
LEMMA DecodeBase ==
  ASSUME NEW e, e.mod # 3, e.rm # 4, e.rm = 5 => e.mod # 0
  PROVE  Decode(e) = MemOperand(e.reg + 8 * e.R, e.rm + 8 * e.B, NoReg16, e.disp)
BY DEF Decode, XM_REG, XM_OFS0, MemOperand

\* of one with an index byte,
LEMMA DecodeSib ==
  ASSUME NEW e, e.mod # 3, e.rm = 4, NEW x, e.sib.index + 8 * e.X = x, NEW b, e.sib.base + 8 * e.B = b
  PROVE  Decode(e) = MemOperand(e.reg + 8 * e.R, IF e.mod = 0 /\ e.sib.base = 5 THEN NoReg16 ELSE b,
                             IF x = 4 THEN NoReg16 ELSE x, e.disp)
BY DEF Decode, XM_REG, XM_OFS0, MemOperand

\* op rr, [rb + ofs]
LEMMA MemoryExact ==
  ASSUME NEW rr \in GPRs, NEW rb \in GPRs, NEW ofs \in Int
  PROVE  Decode(emit_rmro(rr, rb, ofs)) = MemOperand(rr, rb, NoReg16, ofs)
<1>1. PICK e : e = emit_rmro(rr, rb, ofs)
  OBVIOUS
<1>2. /\ e.reg = rr % 8 /\ e.R = rr \div 8 /\ e.rm = rb % 8 /\ e.B = rb \div 8 /\ e.X = 0
      /\ e.mod = OfsMode(rb, ofs) /\ e.disp = Disp(OfsMode(rb, ofs), ofs)
      /\ e.sib = IF rb % 8 = ESP THEN [index |-> ESP, base |-> ESP] ELSE NoSib
  BY <1>1 DEF emit_rmro, Fields
<1>3. e.mod \in {0, 1, 2} /\ (e.mod = 0 => e.rm # 5) /\ e.disp = ofs
  BY <1>2, DispExact DEF XM_OFS0, XM_OFS8, XM_OFS32, EBP
<1>4. e.reg + 8 * e.R = rr /\ e.rm + 8 * e.B = rb
  BY <1>2, RegisterBits
<1>5. CASE e.rm = 4
  <2>1. e.sib.index = 4 /\ e.sib.base = 4
    BY <1>2, <1>5 DEF ESP
  <2>2. e.sib.index + 8 * e.X = 4 /\ e.sib.base + 8 * e.B = rb
    BY <1>2, <1>4, <1>5, <2>1
  <2>3. Decode(e) = MemOperand(e.reg + 8 * e.R, rb, NoReg16, e.disp)
    BY <1>3, <1>5, <2>1, <2>2, DecodeSib
  <2> QED BY <1>1, <1>3, <1>4, <2>3
<1>6. CASE e.rm # 4
  <2>1. Decode(e) = MemOperand(e.reg + 8 * e.R, e.rm + 8 * e.B, NoReg16, e.disp)
    BY <1>3, <1>6, DecodeBase
  <2> QED BY <1>1, <1>3, <1>4, <2>1
<1> QED BY <1>5, <1>6

\* op rr, [ofs]
LEMMA AbsoluteExact ==
  ASSUME NEW rr \in GPRs, NEW ofs \in Int
  PROVE  Decode(emit_abs(rr, ofs)) = MemOperand(rr, NoReg16, NoReg16, ofs)
<1>1. PICK e : e = emit_abs(rr, ofs)
  OBVIOUS
<1>2. /\ e.reg = rr % 8 /\ e.R = rr \div 8 /\ e.rm = 4 /\ e.B = 0 /\ e.X = 0
      /\ e.mod = 0 /\ e.disp = ofs /\ e.sib.index = 4 /\ e.sib.base = 5
  BY <1>1 DEF emit_abs, Fields, ESP, EBP, XM_OFS0
<1>3. e.sib.index + 8 * e.X = 4 /\ e.sib.base + 8 * e.B = 5
  BY <1>2
<1>4. Decode(e) = MemOperand(e.reg + 8 * e.R, NoReg16, NoReg16, e.disp)
  BY <1>2, <1>3, DecodeSib
<1> QED BY <1>1, <1>2, <1>4, RegisterBits

\* op rr, [rb + rx + ofs]
LEMMA IndexedExact ==
  ASSUME NEW rr \in GPRs, NEW rb \in GPRs, NEW rx \in GPRs \ {ESP}, NEW ofs \in Int
  PROVE  Decode(emit_rmrxo(rr, rb, rx, ofs)) = MemOperand(rr, rb, rx, ofs)
<1>1. PICK e : e = emit_rmrxo(rr, rb, rx, ofs)
  OBVIOUS
<1>2. /\ e.reg = rr % 8 /\ e.R = rr \div 8 /\ e.rm = 4 /\ e.B = rb \div 8 /\ e.X = rx \div 8
      /\ e.mod = OfsMode(rb, ofs) /\ e.disp = Disp(OfsMode(rb, ofs), ofs)
      /\ e.sib.index = rx % 8 /\ e.sib.base = rb % 8
  BY <1>1 DEF emit_rmrxo, Fields, ESP
<1>3. e.mod \in {0, 1, 2} /\ (e.mod = 0 => e.sib.base # 5) /\ e.disp = ofs
  BY <1>2, DispExact DEF XM_OFS0, XM_OFS8, XM_OFS32, EBP
<1>4. e.reg + 8 * e.R = rr /\ e.sib.base + 8 * e.B = rb /\ e.sib.index + 8 * e.X = rx
  BY <1>2, RegisterBits
<1>5. Decode(e) = MemOperand(e.reg + 8 * e.R, rb, rx, e.disp)
  <2>1. rx # 4
    BY DEF ESP
  <2> QED BY <1>2, <1>3, <1>4, <2>1, DecodeSib
<1> QED BY <1>1, <1>3, <1>4, <1>5

\* Operands that are registers.
RegOperand(r, b, o) ==
  [r |-> r, base |-> b, index |-> NoReg16, ofs |-> o, memory |-> FALSE]

\* and of a register.
LEMMA DecodeRegister ==
  ASSUME NEW e, e.mod = 3
  PROVE  Decode(e) = RegOperand(e.reg + 8 * e.R, e.rm + 8 * e.B, e.disp)
BY DEF Decode, XM_REG, NoOperand, RegOperand

\* An operand in a register is read back as it was encoded.
LEMMA RegisterFormsExact ==
  ASSUME NEW rr \in GPRs, NEW rb \in GPRs, NEW disp
  PROVE  Decode(Fields(rr, rb, 0, XM_REG, NoSib, disp)) = RegOperand(rr, rb, disp)
<1>1. PICK e : e = Fields(rr, rb, 0, XM_REG, NoSib, disp)
  OBVIOUS
<1>2. /\ e.reg = rr % 8 /\ e.R = rr \div 8 /\ e.rm = rb % 8 /\ e.B = rb \div 8
      /\ e.mod = 3 /\ e.disp = disp
  BY <1>1 DEF Fields, XM_REG
<1>3. e.reg + 8 * e.R = rr /\ e.rm + 8 * e.B = rb
  BY <1>2, RegisterBits
<1>4. Decode(e) = RegOperand(rr, rb, disp)
  BY <1>2, <1>3, DecodeRegister
<1> QED BY <1>1, <1>4

\* Constants: the two short forms extend to what the long one has.
LEMMA ConstantExact ==
  ASSUME NEW w \in 0..(HalfRange * HalfRange - 1)
  PROVE  (IF checku32(w) THEN w % HalfRange
          ELSE IF checki32(w) THEN SignExtend(w % HalfRange) ELSE w) = w
<1>1. PICK h \in Nat : HalfRange = 2 * h /\ (w \in Nat => h > 0)
  <2>1. HalfRange \in Nat /\ HalfRange % 2 = 0
    BY X86EncodeAssumption
  <2>2. HalfRange \div 2 \in Nat /\ HalfRange = 2 * (HalfRange \div 2)
    BY <2>1
  <2>3. HalfRange # 0
    OBVIOUS
  <2> QED BY <2>2, <2>3
<1>2. PICK H \in Nat : HalfRange = H /\ H > 0 /\ H = 2 * h /\ H \div 2 = h
  BY <1>1
<1>3. w \in Nat
  BY <1>2
<1>4. CASE w < H
  BY <1>2, <1>3, <1>4 DEF checku32
<1>5. CASE w >= H /\ w >= H * H - h
  <2>1. PICK k \in Nat : w = (H * (H - 1)) + k /\ k < H /\ k >= h
    <3>1. H * H = (H * (H - 1)) + H
      BY <1>2
    <3>2. PICK m \in Nat : m = H * (H - 1)
      BY <1>2
    <3>3. w - m \in Nat /\ w - m < H /\ w - m >= h
      BY <1>2, <1>3, <1>5, <3>1, <3>2
    <3> QED BY <1>3, <3>2, <3>3
  <2>2. w % H = k
    <3>1. k \in 0..(H - 1) /\ H - 1 \in Nat /\ H \in Nat \ {0}
      BY <1>2, <2>1
    <3> QED BY <2>1, <3>1, ModUnique
  <2>3. SignExtend(k) = w
    <3>1. H * H = (H * (H - 1)) + H
      BY <1>2
    <3>2. SignExtend(k) = H * H - H + k
      BY <1>2, <2>1 DEF SignExtend
    <3>3. PICK m, n \in Int : m = H * (H - 1) /\ n = H * H
      BY <1>2
    <3> QED BY <1>2, <2>1, <3>1, <3>2, <3>3
  <2> QED BY <1>2, <1>5, <2>2, <2>3 DEF checku32, checki32
<1>6. CASE w >= H /\ ~ (w >= H * H - h)
  BY <1>2, <1>3, <1>6 DEF checku32, checki32
<1> QED BY <1>2, <1>3, <1>4, <1>5, <1>6

\* Every operand, immediate and constant is encoded exactly.
LEMMA EncodedNext ==
  ASSUME EncNext
  PROVE  Decode(enc') = want'
<1>1. CASE EncMemory
  <2>1. PICK rr \in GPRs, rb \in GPRs, ofs \in Displacements :
          want' = MemOperand(rr, rb, NoReg16, ofs) /\ enc' = emit_rmro(rr, rb, ofs)
    BY <1>1 DEF EncMemory, MemOperand
  <2>2. ofs \in Int
    BY X86EncodeAssumption
  <2> QED BY <2>1, <2>2, MemoryExact
<1>2. CASE EncAbsolute
  <2>1. PICK rr \in GPRs, ofs \in Displacements :
          want' = MemOperand(rr, NoReg16, NoReg16, ofs) /\ enc' = emit_abs(rr, ofs)
    BY <1>2 DEF EncAbsolute, MemOperand
  <2>2. ofs \in Int
    BY X86EncodeAssumption
  <2> QED BY <2>1, <2>2, AbsoluteExact
<1>3. CASE EncIndexed
  <2>1. PICK rr \in GPRs, rb \in GPRs, rx \in GPRs \ {ESP}, ofs \in Displacements :
          want' = MemOperand(rr, rb, rx, ofs) /\ enc' = emit_rmrxo(rr, rb, rx, ofs)
    BY <1>3 DEF EncIndexed, MemOperand
  <2>2. ofs \in Int
    BY X86EncodeAssumption
  <2> QED BY <2>1, <2>2, IndexedExact
<1>4. CASE EncRegisters
  <2>1. PICK rr \in GPRs, rb \in GPRs :
          want' = [NoOperand EXCEPT !.r = rr, !.base = rb] /\ enc' = Fields(rr, rb, 0, XM_REG, NoSib, 0)
    BY <1>4 DEF EncRegisters, emit_rr
  <2>2. want' = RegOperand(rr, rb, 0)
    BY <2>1 DEF NoOperand, RegOperand
  <2> QED BY <2>1, <2>2, RegisterFormsExact
<1>5. 0 \in GPRs
  BY DEF GPRs
<1>6. CASE EncImmediate
  <2>1. PICK rb \in GPRs, i \in Displacements :
          want' = [NoOperand EXCEPT !.base = rb, !.ofs = i] /\ enc' = emit_gri(rb, i)
    BY <1>6 DEF EncImmediate
  <2>2. enc' = Fields(0, rb, 0, XM_REG, NoSib, i)
    <3>1. i \in Int
      BY X86EncodeAssumption
    <3>2. (IF checki8(i) THEN Byte(i) ELSE i) = i
      BY <3>1, ByteExact
    <3> QED BY <2>1, <3>2 DEF emit_gri
  <2>3. want' = RegOperand(0, rb, i)
    BY <2>1 DEF NoOperand, RegOperand
  <2> QED BY <1>5, <2>2, <2>3, RegisterFormsExact
<1>7. CASE EncConstant
  <2>1. PICK rb \in GPRs, w \in 0..(HalfRange * HalfRange - 1) :
          want' = [NoOperand EXCEPT !.base = rb, !.ofs = w] /\ enc' = loadi_u64(rb, w)
    BY <1>7 DEF EncConstant
  <2>2. enc' = Fields(0, rb, 0, XM_REG, NoSib, w)
    BY <2>1, ConstantExact DEF loadi_u64
  <2>3. want' = RegOperand(0, rb, w)
    BY <2>1 DEF NoOperand, RegOperand
  <2> QED BY <1>5, <2>2, <2>3, RegisterFormsExact
<1> QED BY <1>1, <1>2, <1>3, <1>4, <1>6, <1>7 DEF EncNext

\* The processor decodes what the emitters were asked for, for every
\* register, offset and immediate, and every constant of a word: emit_rmro,
\* emit_rmrxo, emit_rr, emit_gri and loadi_u64.
THEOREM OperandsExact == EncSpec => []EncodingExact
<1>1. EncInit => EncodingExact
  BY DEF EncInit, EncodingExact
<1>2. EncodingExact /\ [EncNext]_encVars => EncodingExact'
  BY EncodedNext DEF EncodingExact, encVars
<1> QED BY <1>1, <1>2, PTL DEF EncSpec


-----------------------------------------------------------------------------
(***************************************************************************)
(* Register allocation. The code is emitted backwards, and what the code   *)
(* so far needs is always where the allocator keeps it: in the register or *)
(* the spill slot of a live value. Registers that are taken and live       *)
(* values that have one belong to each other, and no two values share a    *)
(* spill slot. In the middle of an instruction one register waits for a    *)
(* value: for the one that the instruction defines, and then for its left  *)
(* operand. Of two values with the same home one would be destroyed, so    *)
(* that no place is needed for two. Once an instruction has taken the      *)
(* register of one operand for another (clash), the code is wrong and only *)
(* the allocation itself remains to be shown.                              *)
(***************************************************************************)

\* The values that are defined before the instructions from c on.
Live(c) == Lits \cup 1..c

\* Where a value goes that has neither a register nor a spill slot: there was
\* none left, and the assembler has given up.
Lost == {Reg(NoReg), Spill(0)}

RAState ==
  [free : SUBSET kGPR, cost : [kGPR -> Ref \cup {0}], spills : SUBSET (1..NumSpills),
   reg : [Ref -> kGPR \cup {NoReg}], hint : [Ref -> kGPR \cup {NoReg}],
   spill : [Ref -> 0..NumSpills], r : kGPR \cup {NoReg}, ok : BOOLEAN,
   need : SUBSET ((Place \cup Lost) \X Ref), wrong : BOOLEAN, clash : BOOLEAN]

\* Registers are taken by the live values that have them.
TakenInv(A, c) ==
  /\ \A r \in kGPR : r \in A.free \/ (A.cost[r] \in Live(c) /\ A.reg[A.cost[r]] = r)
  /\ \A v \in Live(c) : A.reg[v] = NoReg \/ (A.reg[v] \notin A.free /\ A.cost[A.reg[v]] = v)

\* No two values share a spill slot, and literals have none.
SlotsInv(A) ==
  /\ \A v \in Ref : A.spill[v] \notin A.spills
  /\ \A v, w \in Ref : v # w /\ A.spill[v] # 0 => A.spill[v] # A.spill[w]
  /\ \A v \in Lits : A.spill[v] = 0

\* Where the allocator keeps v.
HomeOf(A, v, p) ==
  \/ A.reg[v] # NoReg /\ p = Reg(A.reg[v])
  \/ A.spill[v] # 0 /\ p = Spill(A.spill[v])

\* What the code emitted so far needs: live values where the allocator keeps
\* them, and the value x in the register d, which is none of theirs.
NeedInv(A, c, d, x) ==
  \A p, v : <<p, v>> \in A.need =>
    \/ ~ A.ok /\ p \in Lost
    \/ d # NoReg /\ p = Reg(d) /\ v = x
    \/ v \in Live(c) /\ p # Reg(d) /\ HomeOf(A, v, p)

\* Nothing is claimed of the code once an instruction has lost an operand, or
\* while one is about to.
Gone == -2
Void(A, d) == A.clash \/ d = Gone

AllocInv(A, c, d, x) ==
  /\ A \in RAState /\ TakenInv(A, c) /\ SlotsInv(A)
  /\ Void(A, d) \/ (A.wrong = FALSE /\ NeedInv(A, c, d, x))

\* All but what the code needs.
SameAlloc(A, B) ==
  /\ B.free = A.free /\ B.cost = A.cost /\ B.spills = A.spills /\ B.reg = A.reg
  /\ B.hint = A.hint /\ B.spill = A.spill /\ B.r = A.r /\ B.ok = A.ok
  /\ B.clash = A.clash

\* Registers, spill slots and immediate operands are different places.
LEMMA PlaceFacts ==
  /\ \A r, q : Reg(r) = Reg(q) <=> r = q
  /\ \A s, t : Spill(s) = Spill(t) <=> s = t
  /\ \A r, s : Reg(r) # Spill(s)
  /\ \A r : Reg(r)[1] = "reg" /\ \A s : Spill(s)[1] = "spill"
  /\ \A v : Imm(v)[1] = "imm" /\ Imm(v)[2] = v
BY DEF Reg, Spill, Imm

\* A move to d asks its source for what d was needed for; an immediate is
\* right when nothing else is needed from d.
LEMMA CopyFields ==
  ASSUME NEW A \in RAState, NEW d \in Place, NEW s,
         s[1] = "imm" \/ s \in Place \cup Lost
  PROVE  /\ Copy(A, d, s) \in RAState /\ SameAlloc(A, Copy(A, d, s))
         /\ \A p, v : <<p, v>> \in Copy(A, d, s).need =>
              \/ <<p, v>> \in A.need /\ p # d
              \/ s[1] # "imm" /\ p = s /\ <<d, v>> \in A.need
         /\ s[1] # "imm" => Copy(A, d, s).wrong = A.wrong
         /\ (\A v : <<d, v>> \in A.need => v = s[2]) => Copy(A, d, s).wrong = A.wrong
<1> DEFINE moved == {n \in A.need : n[1] = d}
           nd == (A.need \ moved) \cup InPlaces({<<s, n[2]>> : n \in moved})
           w == A.wrong \/ (s[1] = "imm" /\ \E n \in moved : n[2] # s[2])
<1>1. A.need \subseteq (Place \cup Lost) \X Ref
  BY DEF RAState
<1>2. \A n \in A.need : n = <<n[1], n[2]>> /\ n[1] \in Place \cup Lost /\ n[2] \in Ref
  BY <1>1
<1>3. nd \subseteq (Place \cup Lost) \X Ref
  BY <1>2 DEF InPlaces
<1>4. Copy(A, d, s) = [A EXCEPT !.need = nd, !.wrong = w]
  BY DEF Copy
<1>5. w \in BOOLEAN
  OBVIOUS
<1> HIDE DEF nd, w
<1>6. /\ Copy(A, d, s) \in RAState /\ SameAlloc(A, Copy(A, d, s))
      /\ Copy(A, d, s).need = nd /\ Copy(A, d, s).wrong = w
  BY <1>3, <1>4, <1>5 DEF RAState, SameAlloc
<1>7. ASSUME NEW p, NEW v, <<p, v>> \in nd
      PROVE  \/ <<p, v>> \in A.need /\ p # d
             \/ s[1] # "imm" /\ p = s /\ <<d, v>> \in A.need
  BY <1>2, <1>7 DEF nd, InPlaces
<1>8. s[1] # "imm" => w = A.wrong
  BY DEF w, RAState
<1>9. ASSUME \A v : <<d, v>> \in A.need => v = s[2] PROVE w = A.wrong
  <2>1. \A n \in moved : n[2] = s[2]
    BY <1>2, <1>9
  <2> QED BY <2>1 DEF w, RAState
<1> QED BY <1>6, <1>7, <1>8, <1>9

\* B is A after a move to d from the place s.
Moved(A, B, d, s) ==
  /\ B \in RAState /\ SameAlloc(A, B) /\ B.wrong = A.wrong
  /\ \A p, v : <<p, v>> \in B.need =>
       (<<p, v>> \in A.need /\ p # d) \/ (p = s /\ <<d, v>> \in A.need)

\* A move from one place to another asks the second for what the first was
\* needed for.
LEMMA CopyPlace ==
  ASSUME NEW A \in RAState, NEW d \in Place, NEW s \in Place \cup Lost, s[1] # "imm",
         NEW B, B = Copy(A, d, s)
  PROVE  Moved(A, B, d, s)
<1>1. /\ Copy(A, d, s) \in RAState /\ SameAlloc(A, Copy(A, d, s))
      /\ \A p, v : <<p, v>> \in Copy(A, d, s).need =>
            \/ <<p, v>> \in A.need /\ p # d
            \/ s[1] # "imm" /\ p = s /\ <<d, v>> \in A.need
      /\ s[1] # "imm" => Copy(A, d, s).wrong = A.wrong
  BY CopyFields
<1> QED BY <1>1 DEF Moved

\* The registers and spill slots of the allocation are places.
LEMMA PlaceTypes ==
  /\ \A r \in kGPR : Reg(r) \in Place
  /\ \A r \in kGPR \cup {NoReg} : Reg(r) \in Place \cup Lost
  /\ \A s \in 0..NumSpills : Spill(s) \in Place \cup Lost
  /\ \A s \in 0..NumSpills : s # 0 => Spill(s) \in Place
  /\ \A p \in Place : p \notin Lost
  /\ kGPR \subseteq Nat /\ NoReg \notin kGPR /\ {EAX, ECX, EDX} \subseteq kGPR
  /\ EAX # ECX /\ EAX # EDX /\ ECX # EDX /\ Gone \notin kGPR /\ Gone # NoReg
<1>1. NumRegs \in Nat /\ NumRegs > 2 /\ NumSpills \in Nat
  BY RegAllocAssumption
<1>2. kGPR \subseteq Nat /\ NoReg \notin kGPR /\ {EAX, ECX, EDX} \subseteq kGPR
  BY <1>1 DEF kGPR, NoReg, EAX, ECX, EDX
<1>3. EAX # ECX /\ EAX # EDX /\ ECX # EDX
  BY DEF EAX, ECX, EDX
<1>4. \A r \in kGPR : Reg(r) \in Place
  BY DEF Place
<1>5. \A s \in 0..NumSpills : s # 0 => Spill(s) \in Place
  <2>1. \A s \in 0..NumSpills : s # 0 => s \in 1..NumSpills
    BY <1>1
  <2> QED BY <2>1 DEF Place
<1>6. \A r \in kGPR \cup {NoReg} : Reg(r) \in Place \cup Lost
  BY <1>4 DEF Lost
<1>7. \A s \in 0..NumSpills : Spill(s) \in Place \cup Lost
  BY <1>5 DEF Lost
<1>8. \A p \in Place : p \notin Lost
  <2>1. ~ (0 \in 1..NumSpills)
    OBVIOUS
  <2>2. \A r \in kGPR : Reg(r) # Reg(NoReg) /\ Reg(r) # Spill(0)
    BY <1>2, PlaceFacts
  <2>3. \A s \in 1..NumSpills : Spill(s) # Spill(0) /\ Spill(s) # Reg(NoReg)
    BY <2>1, PlaceFacts
  <2> QED BY <2>2, <2>3 DEF Place, Lost
<1>9. Gone \notin kGPR /\ Gone # NoReg
  BY <1>2 DEF Gone, NoReg
<1> QED BY <1>2, <1>3, <1>4, <1>5, <1>6, <1>7, <1>8, <1>9

\* An instruction that defines d makes its operands needed; it is right
\* when d was needed for its value only, and nothing from what it destroys.
LEMMA ComputeFields ==
  ASSUME NEW A \in RAState, NEW d \in kGPR, NEW val, NEW use, NEW clobber,
         \A u \in use : u[1][1] = "imm" \/ u \in (Place \cup Lost) \X Ref
  PROVE  /\ Compute(A, d, val, use, clobber) \in RAState
         /\ SameAlloc(A, Compute(A, d, val, use, clobber))
         /\ \A p, v : <<p, v>> \in Compute(A, d, val, use, clobber).need =>
              \/ <<p, v>> \in A.need /\ p # Reg(d)
              \/ <<p, v>> \in use /\ p[1] # "imm"
         /\ (\A p, v : <<p, v>> \in A.need => (p = Reg(d) => v = val) /\ p \notin clobber) =>
              Compute(A, d, val, use, clobber).wrong = A.wrong
<1> DEFINE nd == {n \in A.need : n[1] # Reg(d)} \cup InPlaces(use)
           w == A.wrong \/ \E n \in A.need : \/ n[1] = Reg(d) /\ n[2] # val
                                             \/ n[1] \in clobber
<1>1. A.need \subseteq (Place \cup Lost) \X Ref
  BY DEF RAState
<1>2. \A n \in A.need : n = <<n[1], n[2]>> /\ n[1] \in Place \cup Lost /\ n[2] \in Ref
  BY <1>1
<1>3. nd \subseteq (Place \cup Lost) \X Ref
  BY <1>1 DEF InPlaces
<1>4. Compute(A, d, val, use, clobber) = [A EXCEPT !.need = nd, !.wrong = w]
  BY DEF Compute
<1>5. w \in BOOLEAN
  OBVIOUS
<1> HIDE DEF nd, w
<1>6. /\ Compute(A, d, val, use, clobber) \in RAState
      /\ SameAlloc(A, Compute(A, d, val, use, clobber))
      /\ Compute(A, d, val, use, clobber).need = nd /\ Compute(A, d, val, use, clobber).wrong = w
  BY <1>3, <1>4, <1>5 DEF RAState, SameAlloc
<1>7. ASSUME NEW p, NEW v, <<p, v>> \in nd
      PROVE  \/ <<p, v>> \in A.need /\ p # Reg(d)
             \/ <<p, v>> \in use /\ p[1] # "imm"
  BY <1>7 DEF nd, InPlaces
<1>8. ASSUME \A p, v : <<p, v>> \in A.need => (p = Reg(d) => v = val) /\ p \notin clobber
      PROVE  w = A.wrong
  <2>1. \A n \in A.need : (n[1] = Reg(d) => n[2] = val) /\ n[1] \notin clobber
    BY <1>2, <1>8
  <2> QED BY <2>1 DEF w, RAState
<1> QED BY <1>6, <1>7, <1>8

\* An instruction that defines nothing only makes its operands needed.
LEMMA UseFields ==
  ASSUME NEW A \in RAState, NEW use,
         \A u \in use : u[1][1] = "imm" \/ u \in (Place \cup Lost) \X Ref
  PROVE  /\ Use(A, use) \in RAState /\ SameAlloc(A, Use(A, use)) /\ Use(A, use).wrong = A.wrong
         /\ \A p, v : <<p, v>> \in Use(A, use).need =>
              <<p, v>> \in A.need \/ (<<p, v>> \in use /\ p[1] # "imm")
<1> DEFINE nd == A.need \cup InPlaces(use)
<1>1. nd \subseteq (Place \cup Lost) \X Ref
  BY DEF InPlaces, RAState
<1>2. Use(A, use) = [A EXCEPT !.need = nd]
  BY DEF Use
<1>3. \A u \in nd : u \in A.need \/ (u \in use /\ u[1][1] # "imm")
  BY DEF InPlaces
<1> HIDE DEF nd
<1>4. /\ Use(A, use) \in RAState /\ SameAlloc(A, Use(A, use)) /\ Use(A, use).wrong = A.wrong
      /\ Use(A, use).need = nd
  BY <1>1, <1>2 DEF RAState, SameAlloc
<1> QED BY <1>3, <1>4

\* A value that a snapshot can find.
Located(A, v) == A.reg[v] # NoReg \/ A.spill[v] # 0 \/ ~ A.ok

\* What is located stays located, the assembler does not recover, and no
\* operand is lost.
Later(A, B) ==
  /\ (B.ok => A.ok) /\ B.clash = A.clash
  /\ \A v \in Ref \ Lits : Located(A, v) => Located(B, v)

\* One operation of the allocator after another.
LEMMA LaterTrans ==
  ASSUME NEW A, NEW B, NEW C, Later(A, B), Later(B, C)
  PROVE  Later(A, C)
BY DEF Later

\* The facts about the types that the proofs need.
LEMMA StateFacts ==
  ASSUME NEW A \in RAState
  PROVE  /\ A.free \subseteq kGPR /\ A.cost \in [kGPR -> Ref \cup {0}] /\ A.spills \subseteq 1..NumSpills
         /\ A.reg \in [Ref -> kGPR \cup {NoReg}] /\ A.hint \in [Ref -> kGPR \cup {NoReg}]
         /\ A.spill \in [Ref -> 0..NumSpills] /\ A.r \in kGPR \cup {NoReg} /\ A.ok \in BOOLEAN
         /\ A.wrong \in BOOLEAN /\ A.clash \in BOOLEAN
BY DEF RAState

\* A set of naturals has a least element.
LEMMA LeastOne ==
  ASSUME NEW T \in SUBSET Nat, T # {}
  PROVE  \E x \in T : \A y \in T : x <= y
<1>1. PICK R : R = {ss \in Nat \X Nat : ss[1] < ss[2]}
  OBVIOUS
<1>2. \A x, y \in Nat : <<x, y>> \in R <=> x < y
  BY <1>1
<1>3. IsWellFoundedOn(R, Nat)
  BY <1>1, NatLessThanWellFounded DEF OpToRel
<1>4. PICK x \in T : \A y \in T : ~ (<<y, x>> \in R)
  BY <1>3, WFMin
<1>5. ASSUME NEW y \in T PROVE x <= y
  <2>1. ~ (y < x) /\ x \in Nat /\ y \in Nat
    BY <1>2, <1>4
  <2> QED BY <2>1
<1> QED BY <1>5

\* A set of integers that is bounded below has a least one.
LEMMA MinIn ==
  ASSUME NEW S \in SUBSET Int, S # {}, NEW lo \in Int, \A y \in S : lo <= y
  PROVE  Min(S) \in S /\ \A y \in S : Min(S) <= y
<1> DEFINE T == {y - lo : y \in S}
<1>1. T \in SUBSET Nat /\ T # {}
  <2>1. \A y \in S : y \in Int /\ y - lo \in Nat
    OBVIOUS
  <2>2. PICK y \in S : TRUE
    OBVIOUS
  <2>3. y - lo \in T
    OBVIOUS
  <2> QED BY <2>1, <2>3
<1>2. PICK t \in T : \A u \in T : t <= u
  BY <1>1, LeastOne
<1>3. PICK m \in S : t = m - lo
  BY <1>2
<1>4. ASSUME NEW y \in S PROVE m <= y
  <2>1. y - lo \in T
    OBVIOUS
  <2>2. m - lo <= y - lo
    BY <1>2, <1>3, <2>1
  <2>3. y \in Int /\ m \in Int
    OBVIOUS
  <2> QED BY <2>2, <2>3
<1> QED BY <1>4 DEF Min

\* One that is bounded above has a greatest one.
LEMMA MaxIn ==
  ASSUME NEW S \in SUBSET Int, S # {}, NEW hi \in Int, \A y \in S : y <= hi
  PROVE  Max(S) \in S
<1> DEFINE T == {hi - y : y \in S}
<1>1. T \in SUBSET Nat /\ T # {}
  <2>1. \A y \in S : y \in Int /\ hi - y \in Nat
    OBVIOUS
  <2>2. PICK y \in S : TRUE
    OBVIOUS
  <2>3. hi - y \in T
    OBVIOUS
  <2> QED BY <2>1, <2>3
<1>2. PICK t \in T : \A u \in T : t <= u
  BY <1>1, LeastOne
<1>3. PICK m \in S : t = hi - m
  BY <1>2
<1>4. ASSUME NEW y \in S PROVE m >= y
  <2>1. hi - y \in T
    OBVIOUS
  <2>2. hi - m <= hi - y
    BY <1>2, <1>3, <2>1
  <2>3. y \in Int /\ m \in Int
    OBVIOUS
  <2> QED BY <2>2, <2>3
<1> QED BY <1>4 DEF Max

\* The first time a value is moved it gets a spill slot, while there are any
\* (SpillSet::alloc).
LEMMA SpillKeeps ==
  ASSUME NEW A, NEW c, NEW d, NEW x, AllocInv(A, c, d, x), NEW v \in Ref \ Lits
  PROVE  LET B == SpillSlot(A, v) IN
         /\ AllocInv(B, c, d, x) /\ Later(A, B)
         /\ B.free = A.free /\ B.cost = A.cost /\ B.reg = A.reg /\ B.hint = A.hint
         /\ B.r = A.r /\ B.need = A.need
         /\ B.spill[v] # 0 \/ ~ B.ok
<1> DEFINE B == SpillSlot(A, v)
<1>1. A \in RAState
  BY DEF AllocInv
<1>2. CASE A.spill[v] # 0
  <2>1. B = A
    BY <1>2 DEF SpillSlot
  <2> QED BY <1>2, <2>1 DEF Later
<1>3. CASE A.spill[v] = 0 /\ A.spills = {}
  <2>1. B = [A EXCEPT !.ok = FALSE]
    BY <1>3 DEF SpillSlot
  <2>2. /\ B \in RAState /\ B.free = A.free /\ B.cost = A.cost /\ B.reg = A.reg /\ B.hint = A.hint
        /\ B.r = A.r /\ B.need = A.need /\ B.spill = A.spill /\ B.spills = A.spills
        /\ B.ok = FALSE /\ B.wrong = A.wrong /\ B.clash = A.clash
    BY <1>1, <2>1 DEF RAState
  <2> HIDE DEF B
  <2>3. AllocInv(B, c, d, x)
    BY <2>2 DEF AllocInv, TakenInv, SlotsInv, NeedInv, HomeOf, Void
  <2> QED BY <2>2, <2>3 DEF Later, Located, B
<1>4. CASE A.spill[v] = 0 /\ A.spills # {}
  <2>1. PICK s : s = Min(A.spills)
    OBVIOUS
  <2>2. s \in A.spills /\ s \in 1..NumSpills /\ s # 0
    <3>1. A.spills \subseteq Int /\ \A y \in A.spills : 1 <= y
      BY <1>1 DEF RAState
    <3>2. s \in A.spills
      BY <1>4, <2>1, <3>1, MinIn
    <3> QED BY <3>2, <1>1 DEF RAState
  <2>3. B = [A EXCEPT !.spill[v] = s, !.spills = @ \ {s}]
    BY <1>4, <2>1 DEF SpillSlot
  <2>4. /\ B \in RAState /\ B.free = A.free /\ B.cost = A.cost /\ B.reg = A.reg /\ B.hint = A.hint
        /\ B.r = A.r /\ B.need = A.need /\ B.spill = [A.spill EXCEPT ![v] = s]
        /\ B.spills = A.spills \ {s} /\ B.ok = A.ok /\ B.wrong = A.wrong /\ B.clash = A.clash
    <3>1. PICK f, g : f = [A.spill EXCEPT ![v] = s] /\ g = A.spills \ {s}
      OBVIOUS
    <3>2. f \in [Ref -> 0..NumSpills] /\ g \subseteq 1..NumSpills
      BY <1>1, <2>2, <3>1 DEF RAState
    <3>3. B = [A EXCEPT !.spill = f, !.spills = g]
      BY <2>3, <3>1
    <3> HIDE DEF B
    <3> QED BY <1>1, <3>1, <3>2, <3>3 DEF RAState
  <2>5. A.spill \in [Ref -> 0..NumSpills]
    BY <1>1 DEF RAState
  <2>6. B.spill[v] = s /\ \A w \in Ref : w # v => B.spill[w] = A.spill[w]
    BY <2>4, <2>5
  <2> HIDE DEF B
  <2>7. SlotsInv(B)
    BY <1>4, <2>2, <2>4, <2>6 DEF AllocInv, SlotsInv
  <2>8. ASSUME ~ Void(A, d) PROVE NeedInv(B, c, d, x)
    <3> SUFFICES ASSUME NEW p, NEW w, <<p, w>> \in A.need
                 PROVE  \/ ~ B.ok /\ p \in Lost
                        \/ d # NoReg /\ p = Reg(d) /\ w = x
                        \/ w \in Live(c) /\ p # Reg(d) /\ HomeOf(B, w, p)
      BY <2>4 DEF NeedInv
    <3>1. w \in Ref
      BY <1>1 DEF RAState
    <3>2. HomeOf(A, w, p) => HomeOf(B, w, p)
      BY <1>4, <2>4, <2>6, <3>1 DEF HomeOf
    <3> QED BY <2>4, <2>8, <3>2 DEF AllocInv, NeedInv
  <2>9. AllocInv(B, c, d, x)
    BY <2>4, <2>7, <2>8 DEF AllocInv, TakenInv, Void
  <2>10. Later(A, B)
    BY <2>2, <2>4, <2>6 DEF Later, Located
  <2> QED BY <2>2, <2>4, <2>6, <2>9, <2>10 DEF B
<1> QED BY <1>2, <1>3, <1>4

\* Literals are the negative references, and the only ones that are loaded
\* again instead of kept (canRemat).
LEMMA RefFacts ==
  /\ Ref \subseteq Int /\ Lits \subseteq Ref /\ Ref \ Lits = 1..NumIns
  /\ \A v \in Ref : canRemat(v) <=> v \in Lits
  /\ SmallLits \subseteq Lits /\ BigLits \subseteq Lits
  /\ \A v \in Ref : -(NumSmallLits + NumBigLits) <= v
  /\ NumIns \in Nat /\ NumSmallLits + NumBigLits \in Nat
<1>1. NumIns \in Nat /\ NumSmallLits \in Nat /\ NumBigLits \in Nat
  BY RegAllocAssumption
<1>2. \A v \in Lits : v \in Int /\ v < 0 /\ -(NumSmallLits + NumBigLits) <= v
  BY <1>1 DEF Lits
<1>3. \A v \in 1..NumIns : v \in Int /\ ~ (v < 0) /\ -(NumSmallLits + NumBigLits) <= v
  BY <1>1
<1>4. Ref = Lits \cup 1..NumIns
  BY DEF Ref
<1>5. SmallLits \subseteq Lits
  <2>1. \A n \in 1..NumSmallLits : n \in 1..(NumSmallLits + NumBigLits)
    BY <1>1
  <2> QED BY <2>1 DEF SmallLits, Lits
<1> QED BY <1>1, <1>2, <1>3, <1>4, <1>5 DEF canRemat, BigLits

\* Literals are live all the time, an instruction from its definition on.
LEMMA LiveFacts ==
  ASSUME NEW c \in Int, c <= NumIns
  PROVE  Live(c) \subseteq Ref /\ Lits \subseteq Live(c) /\ (\A v \in 1..c : v \in Live(c) /\ v \notin Lits)
         /\ \A v \in Live(c) : v \in Lits \/ v \in 1..c
<1>1. \A v \in 1..c : v \in 1..NumIns
  BY RefFacts
<1>2. Lits \cup 1..NumIns = Ref
  BY DEF Ref
<1> QED BY <1>1, <1>2, RefFacts DEF Live

\* A register whose value is needed holds the value that it is taken by,
\* unless it is the one that waits.
LEMMA NeededReg ==
  ASSUME NEW A, NEW c, NEW d, NEW x, AllocInv(A, c, d, x), ~ Void(A, d),
         NEW r \in kGPR, r # d, NEW v, <<Reg(r), v>> \in A.need
  PROVE  v \in Live(c) /\ A.reg[v] = r /\ r \notin A.free /\ A.cost[r] = v
<1>1. Reg(r) \notin Lost
  BY PlaceTypes
<1>2. ~ (d # NoReg /\ Reg(r) = Reg(d))
  BY PlaceFacts
<1>3. v \in Live(c) /\ HomeOf(A, v, Reg(r))
  BY <1>1, <1>2 DEF AllocInv, NeedInv
<1>4. A.reg[v] = r
  BY <1>3, PlaceFacts DEF HomeOf
<1>5. r # NoReg
  BY PlaceTypes
<1> QED BY <1>3, <1>4, <1>5 DEF AllocInv, TakenInv

\* A spill slot that is needed is that of its value.
LEMMA NeededSlot ==
  ASSUME NEW A, NEW c \in Int, c <= NumIns, NEW d, NEW x, AllocInv(A, c, d, x), ~ Void(A, d),
         NEW w \in Ref, A.spill[w] # 0, NEW v, <<Spill(A.spill[w]), v>> \in A.need
  PROVE  v \in Live(c) /\ v = w
<1>1. A.spill[w] \in 0..NumSpills
  BY DEF AllocInv, RAState
<1>2. Spill(A.spill[w]) \notin Lost
  BY <1>1, PlaceTypes
<1>3. ~ (d # NoReg /\ Spill(A.spill[w]) = Reg(d))
  BY PlaceFacts
<1>4. v \in Live(c) /\ HomeOf(A, v, Spill(A.spill[w]))
  BY <1>2, <1>3 DEF AllocInv, NeedInv
<1>5. A.spill[v] = A.spill[w]
  BY <1>4, PlaceFacts DEF HomeOf
<1>6. v \in Ref
  BY <1>4, LiveFacts
<1> QED BY <1>4, <1>5, <1>6 DEF AllocInv, SlotsInv

\* The register of v becomes free.
LEMMA ReleaseFields ==
  ASSUME NEW A \in RAState, NEW v \in Ref, NEW r \in kGPR, NEW h \in kGPR \cup {NoReg},
         NEW R, R = SetHint(freeReg(A, r), v, h)
  PROVE  /\ R \in RAState /\ R.free = A.free \cup {r} /\ R.r = r /\ R.cost = A.cost
         /\ R.spills = A.spills /\ R.spill = A.spill /\ R.ok = A.ok /\ R.need = A.need
         /\ R.wrong = A.wrong /\ R.clash = A.clash
         /\ R.reg[v] = NoReg /\ \A w \in Ref : w # v => R.reg[w] = A.reg[w]
<1> DEFINE F == freeReg(A, r)
           B == SetHint(F, v, h)
<1>1. PICK g : g = A.free \cup {r}
  OBVIOUS
<1>2. g \subseteq kGPR
  BY <1>1 DEF RAState
<1>3. F = [A EXCEPT !.free = g, !.r = r]
  BY <1>1 DEF freeReg
<1>4. /\ F \in RAState /\ F.free = g /\ F.r = r /\ F.cost = A.cost /\ F.hint = A.hint
      /\ F.spills = A.spills /\ F.spill = A.spill /\ F.ok = A.ok /\ F.need = A.need
      /\ F.wrong = A.wrong /\ F.clash = A.clash /\ F.reg = A.reg
  <2> HIDE DEF F
  <2> QED BY <1>2, <1>3 DEF RAState
<1> HIDE DEF F
<1>5. PICK m, k : m = [A.reg EXCEPT ![v] = NoReg] /\ k = [A.hint EXCEPT ![v] = h]
  OBVIOUS
<1>6. m \in [Ref -> kGPR \cup {NoReg}] /\ k \in [Ref -> kGPR \cup {NoReg}]
  BY <1>5, StateFacts
<1>7. B = [F EXCEPT !.reg = m, !.hint = k]
  BY <1>4, <1>5 DEF SetHint
<1>8. /\ B \in RAState /\ B.free = F.free /\ B.r = F.r /\ B.cost = F.cost
      /\ B.spills = F.spills /\ B.spill = F.spill /\ B.ok = F.ok /\ B.need = F.need
      /\ B.wrong = F.wrong /\ B.clash = F.clash /\ B.reg = m /\ B.hint = k
  <2> HIDE DEF B
  <2> QED BY <1>4, <1>6, <1>7 DEF RAState
<1>9. m[v] = NoReg /\ \A w \in Ref : w # v => m[w] = A.reg[w]
  BY <1>5, StateFacts
<1> HIDE DEF B
<1>10. /\ B \in RAState /\ B.free = A.free \cup {r} /\ B.r = r /\ B.cost = A.cost
       /\ B.spills = A.spills /\ B.spill = A.spill /\ B.ok = A.ok /\ B.need = A.need
       /\ B.wrong = A.wrong /\ B.clash = A.clash
       /\ B.reg[v] = NoReg /\ \A w \in Ref : w # v => B.reg[w] = A.reg[w]
  BY <1>1, <1>4, <1>5, <1>8, <1>9
<1> QED BY <1>10 DEF B, F

\* v has given up its register.
Freed(A, B, v) ==
  /\ B.free = A.free \cup {A.reg[v]} /\ B.r = A.reg[v] /\ B.cost = A.cost
  /\ B.reg[v] = NoReg /\ \A w \in Ref : w # v => B.reg[w] = A.reg[w]

\* The registers that are left are taken as before.
LEMMA FreedTaken ==
  ASSUME NEW A, NEW B, NEW c \in Int, c <= NumIns, TakenInv(A, c), NEW v \in Live(c), A.reg[v] # NoReg,
         A \in RAState, Freed(A, B, v)
  PROVE  TakenInv(B, c)
<1>1. Live(c) \subseteq Ref
  BY LiveFacts
<1>2. A.reg[v] \in kGPR /\ A.cost[A.reg[v]] = v
  BY <1>1, StateFacts DEF TakenInv
<1>3. ASSUME NEW r \in kGPR PROVE r \in B.free \/ (B.cost[r] \in Live(c) /\ B.reg[B.cost[r]] = r)
  BY <1>1, <1>2, <1>3 DEF TakenInv, Freed
<1>4. ASSUME NEW w \in Live(c) PROVE B.reg[w] = NoReg \/ (B.reg[w] \notin B.free /\ B.cost[B.reg[w]] = w)
  BY <1>1, <1>2, <1>4 DEF TakenInv, Freed
<1> QED BY <1>3, <1>4 DEF TakenInv

\* A literal gives up its register by being loaded where it is needed.
LEMMA RematKeeps ==
  ASSUME NEW A, NEW c \in Int, c <= NumIns, NEW d, NEW x, AllocInv(A, c, d, x),
         NEW v \in Lits, A.reg[v] # NoReg, A.reg[v] # d
  PROVE  LET B == rematConstant(A, v) IN
         AllocInv(B, c, d, x) /\ Later(A, B) /\ Freed(A, B, v)
<1> DEFINE r == A.reg[v]
           F == SetHint(freeReg(A, r), v, NoReg)
           B == Copy(F, Reg(r), Imm(v))
<1>1. A \in RAState /\ v \in Ref /\ v \in Live(c) /\ r \in kGPR /\ Live(c) \subseteq Ref
  BY RefFacts, LiveFacts, StateFacts DEF AllocInv
<1>2. rematConstant(A, v) = B
  BY DEF rematConstant
<1>3. /\ F \in RAState /\ F.free = A.free \cup {r} /\ F.r = r /\ F.cost = A.cost
      /\ F.spills = A.spills /\ F.spill = A.spill /\ F.ok = A.ok /\ F.need = A.need
      /\ F.wrong = A.wrong /\ F.clash = A.clash
      /\ F.reg[v] = NoReg /\ \A w \in Ref : w # v => F.reg[w] = A.reg[w]
  <2> NoReg \in kGPR \cup {NoReg}
    OBVIOUS
  <2> HIDE DEF r
  <2> QED BY <1>1, ReleaseFields
<1> HIDE DEF F, r
<1>4. ASSUME ~ Void(A, d) PROVE \A u : <<Reg(r), u>> \in A.need => u = v
  <2> SUFFICES ASSUME NEW u, <<Reg(r), u>> \in A.need PROVE u = v
    OBVIOUS
  <2>1. A.cost[r] = u
    BY <1>1, <1>4, NeededReg DEF r
  <2>2. A.cost[r] = v
    BY <1>1 DEF AllocInv, TakenInv, r
  <2> QED BY <2>1, <2>2
<1>5. /\ B \in RAState /\ SameAlloc(F, B) /\ (~ Void(A, d) => B.wrong = F.wrong)
      /\ \A p, w : <<p, w>> \in B.need => <<p, w>> \in A.need /\ p # Reg(r)
  <2>1. Reg(r) \in Place /\ Imm(v)[1] = "imm" /\ Imm(v)[2] = v
    BY <1>1, PlaceTypes, PlaceFacts
  <2>2. ~ Void(A, d) => \A u : <<Reg(r), u>> \in F.need => u = Imm(v)[2]
    BY <1>3, <1>4, <2>1
  <2>3. /\ B \in RAState /\ SameAlloc(F, B) /\ (~ Void(A, d) => B.wrong = F.wrong)
        /\ \A p, w : <<p, w>> \in B.need => <<p, w>> \in F.need /\ p # Reg(r)
    BY <1>3, <2>1, <2>2, CopyFields
  <2> QED BY <1>3, <2>3
<1> HIDE DEF B
<1>6. Freed(A, B, v)
  BY <1>3, <1>5 DEF Freed, SameAlloc, r
<1>7. TakenInv(B, c)
  BY <1>1, <1>6, FreedTaken DEF AllocInv
<1>8. B.spill = A.spill /\ B.spills = A.spills /\ B.ok = A.ok /\ B.clash = A.clash
      /\ (~ Void(A, d) => B.wrong = FALSE)
  BY <1>3, <1>5 DEF SameAlloc, AllocInv
<1>9. SlotsInv(B)
  BY <1>8 DEF SlotsInv, AllocInv
<1>10. ASSUME ~ Void(A, d) PROVE NeedInv(B, c, d, x)
  <2> SUFFICES ASSUME NEW p, NEW w, <<p, w>> \in B.need
               PROVE  \/ ~ B.ok /\ p \in Lost
                      \/ d # NoReg /\ p = Reg(d) /\ w = x
                      \/ w \in Live(c) /\ p # Reg(d) /\ HomeOf(B, w, p)
    BY DEF NeedInv
  <2>1. <<p, w>> \in A.need /\ p # Reg(r)
    BY <1>5
  <2>2. w \in Live(c) /\ HomeOf(A, w, p) => HomeOf(B, w, p)
    BY <1>1, <1>6, <1>8, <2>1 DEF HomeOf, Freed, r
  <2> QED BY <1>8, <1>10, <2>1, <2>2 DEF AllocInv, NeedInv
<1>11. Later(A, B)
  BY <1>6, <1>8 DEF Later, Located, Freed
<1> QED BY <1>2, <1>5, <1>6, <1>7, <1>8, <1>9, <1>10, <1>11 DEF AllocInv, Void

\* Another value gives up its register by being loaded from its spill slot
\* (restoreReg).
LEMMA RestoreKeeps ==
  ASSUME NEW A, NEW c \in Int, c <= NumIns, NEW d, NEW x, AllocInv(A, c, d, x),
         NEW v \in Live(c), A.reg[v] # NoReg, A.reg[v] # d, NEW B, B = restoreReg(A, v)
  PROVE  AllocInv(B, c, d, x) /\ Later(A, B) /\ Freed(A, B, v)
<1>1. A \in RAState /\ v \in Ref /\ A.reg[v] \in kGPR /\ Live(c) \subseteq Ref
  BY LiveFacts, StateFacts DEF AllocInv
<1>2. CASE v \in Lits
  <2>1. B = rematConstant(A, v)
    BY <1>1, <1>2, RefFacts DEF restoreReg
  <2> QED BY <1>2, <2>1, RematKeeps
<1>3. CASE v \notin Lits
  <2>1. PICK S : S = SpillSlot(A, v)
    OBVIOUS
  <2>2. /\ AllocInv(S, c, d, x) /\ Later(A, S)
        /\ S.free = A.free /\ S.cost = A.cost /\ S.reg = A.reg /\ S.hint = A.hint
        /\ S.r = A.r /\ S.need = A.need
        /\ S.spill[v] # 0 \/ ~ S.ok
    BY <1>1, <1>3, <2>1, SpillKeeps
  <2>3. PICK r \in kGPR : r = A.reg[v]
    BY <1>1
  <2>4. PICK F : F = SetHint(freeReg(S, r), v, r)
    OBVIOUS
  <2>5. B = Copy(F, Reg(r), Spill(S.spill[v]))
    BY <1>1, <1>3, <2>1, <2>2, <2>3, <2>4, RefFacts DEF restoreReg
  <2>6. S \in RAState /\ S.spill[v] \in 0..NumSpills /\ S.ok \in BOOLEAN
    BY <1>1, <2>2, StateFacts DEF AllocInv
  <2>7. /\ F \in RAState /\ F.free = A.free \cup {r} /\ F.r = r /\ F.cost = A.cost
        /\ F.spills = S.spills /\ F.spill = S.spill /\ F.ok = S.ok /\ F.need = S.need
        /\ F.wrong = S.wrong /\ F.clash = S.clash
        /\ F.reg[v] = NoReg /\ \A w \in Ref : w # v => F.reg[w] = A.reg[w]
    <3>1. S \in RAState /\ v \in Ref /\ r \in kGPR \cup {NoReg}
      BY <1>1, <2>3, <2>6
    <3>2. /\ F \in RAState /\ F.free = S.free \cup {r} /\ F.r = r /\ F.cost = S.cost
          /\ F.spills = S.spills /\ F.spill = S.spill /\ F.ok = S.ok /\ F.need = S.need
          /\ F.wrong = S.wrong /\ F.clash = S.clash
          /\ F.reg[v] = NoReg /\ \A w \in Ref : w # v => F.reg[w] = S.reg[w]
      BY <2>4, <3>1, ReleaseFields
    <3> QED BY <2>2, <3>2
  <2>8. /\ B \in RAState /\ SameAlloc(F, B) /\ B.wrong = F.wrong
        /\ \A p, w : <<p, w>> \in B.need =>
             \/ <<p, w>> \in S.need /\ p # Reg(r)
             \/ p = Spill(S.spill[v]) /\ <<Reg(r), w>> \in S.need
    <3>1. Spill(S.spill[v])[1] # "imm"
      BY PlaceFacts
    <3>2. Reg(r) \in Place /\ Spill(S.spill[v]) \in Place \cup Lost
      BY <2>6, PlaceTypes
    <3>3. Moved(F, B, Reg(r), Spill(S.spill[v]))
      BY <2>5, <2>7, <3>1, <3>2, CopyPlace
    <3> QED BY <2>7, <3>3 DEF Moved
  <2>9. Freed(A, B, v)
    BY <2>3, <2>7, <2>8 DEF Freed, SameAlloc
  <2>10. TakenInv(B, c)
    BY <1>1, <2>9, FreedTaken DEF AllocInv
  <2>11. B.spill = S.spill /\ B.spills = S.spills /\ B.ok = S.ok /\ B.clash = A.clash
         /\ (Void(S, d) <=> Void(A, d)) /\ (~ Void(A, d) => B.wrong = FALSE)
    <3>1. B.spill = S.spill /\ B.spills = S.spills /\ B.ok = S.ok /\ B.clash = S.clash /\ B.wrong = S.wrong
      BY <2>7, <2>8 DEF SameAlloc
    <3>2. S.clash = A.clash
      BY <2>2 DEF Later
    <3>3. Void(S, d) <=> Void(A, d)
      BY <3>2 DEF Void
    <3> QED BY <2>2, <3>1, <3>2, <3>3 DEF AllocInv
  <2>12. SlotsInv(B)
    BY <2>2, <2>11 DEF SlotsInv, AllocInv
  <2>13. ASSUME ~ Void(A, d) PROVE NeedInv(B, c, d, x)
    <3> SUFFICES ASSUME NEW p, NEW w, <<p, w>> \in B.need
                 PROVE  \/ ~ B.ok /\ p \in Lost
                        \/ d # NoReg /\ p = Reg(d) /\ w = x
                        \/ w \in Live(c) /\ p # Reg(d) /\ HomeOf(B, w, p)
      BY DEF NeedInv
    <3>1. CASE <<p, w>> \in S.need /\ p # Reg(r)
      <4>1. w \in Live(c) /\ HomeOf(S, w, p) => HomeOf(B, w, p)
        BY <1>1, <2>2, <2>3, <2>9, <2>11, <3>1 DEF HomeOf, Freed
      <4> QED BY <2>2, <2>11, <2>13, <3>1, <4>1 DEF AllocInv, NeedInv
    <3>2. CASE p = Spill(S.spill[v]) /\ <<Reg(r), w>> \in S.need
      <4>1. r # d
        BY <2>3
      <4>2. w \in Live(c) /\ S.cost[r] = w
        BY <2>2, <2>11, <2>13, <3>2, <4>1, NeededReg
      <4>3. A.cost[r] = v
        BY <1>1, <2>3 DEF AllocInv, TakenInv
      <4>4. w = v
        BY <2>2, <4>2, <4>3
      <4>5. CASE S.spill[v] # 0
        <5>1. p # Reg(d)
          BY <3>2, PlaceFacts
        <5> QED BY <2>11, <3>2, <4>2, <4>4, <4>5, <5>1 DEF HomeOf
      <4>6. CASE S.spill[v] = 0
        <5>1. p \in Lost
          BY <3>2, <4>6 DEF Lost
        <5> QED BY <2>2, <2>11, <4>6, <5>1
      <4> QED BY <4>5, <4>6
    <3> QED BY <2>8, <3>1, <3>2
  <2>14. Later(A, B)
    <3>1. (B.ok => A.ok) /\ B.clash = A.clash
      BY <2>2, <2>11 DEF Later
    <3>2. ASSUME NEW w \in Ref \ Lits, Located(A, w) PROVE Located(B, w)
      <4>1. Located(S, w)
        BY <2>2, <3>2 DEF Later
      <4>2. CASE w = v
        BY <2>2, <2>11, <4>2 DEF Located
      <4>3. CASE w # v
        BY <2>2, <2>9, <2>11, <4>1, <4>3 DEF Located, Freed
      <4> QED BY <4>2, <4>3
    <3> QED BY <3>1, <3>2 DEF Later
  <2> QED BY <2>8, <2>9, <2>10, <2>11, <2>12, <2>13, <2>14 DEF AllocInv, Void
<1> QED BY <1>2, <1>3

\* v has given up a register of allow.
Evicted(A, B, c, d, x, v, allow) ==
  /\ A.reg[v] \in allow /\ Freed(A, B, v) /\ Later(A, B)
  /\ AllocInv(B, c, IF A.reg[v] = d THEN Gone ELSE d, x)

\* evictReg frees one of the registers that it may take, when none is free.
\* When it takes the one that waits, the value it waits for is lost.
LEMMA EvictKeeps ==
  ASSUME NEW A, NEW c \in Int, c <= NumIns, NEW d, NEW x, AllocInv(A, c, d, x),
         NEW allow \in SUBSET kGPR, allow # {}, \A r \in allow : r \notin A.free,
         NEW B, B = evictReg(A, allow)
  PROVE  \E v \in Live(c) : Evicted(A, B, c, d, x, v, allow)
<1> DEFINE S == {A.cost[r] : r \in allow}
<1>1. Live(c) \subseteq Ref
  BY LiveFacts
<1>2. \A r \in allow : A.cost[r] \in Live(c) /\ A.reg[A.cost[r]] = r
  BY DEF AllocInv, TakenInv
<1>3. PICK lo \in Int : lo = -(NumSmallLits + NumBigLits)
  BY RefFacts
<1>4. S \subseteq Int /\ S # {} /\ \A y \in S : lo <= y
  <2>1. \A v \in Ref : v \in Int /\ lo <= v
    BY <1>3, RefFacts
  <2>2. PICK r \in allow : TRUE
    OBVIOUS
  <2>3. A.cost[r] \in S
    OBVIOUS
  <2>4. \A y \in S : y \in Ref
    BY <1>1, <1>2
  <2> QED BY <2>1, <2>3, <2>4
<1>5. Min(S) \in S
  BY <1>3, <1>4, MinIn
<1>6. PICK q \in allow : Min(S) = A.cost[q]
  BY <1>5
<1>7. PICK v \in Live(c) : v = Min(S) /\ A.reg[v] = q
  BY <1>2, <1>6
<1>8. B = restoreReg(A, v)
  BY <1>7 DEF evictReg
<1>9. A.reg[v] \in allow /\ A.reg[v] # NoReg /\ A.reg[v] # Gone
  BY <1>7, PlaceTypes
<1>10. PICK e : e = IF A.reg[v] = d THEN Gone ELSE d
  OBVIOUS
<1>11. AllocInv(A, c, e, x) /\ A.reg[v] # e
  BY <1>9, <1>10 DEF AllocInv, Void
<1>12. AllocInv(B, c, e, x) /\ Later(A, B) /\ Freed(A, B, v)
  BY <1>8, <1>9, <1>11, RestoreKeeps
<1> QED BY <1>9, <1>10, <1>12 DEF Evicted

\* What allocRef changes when it has found a register.
LEMMA TakeFields ==
  ASSUME NEW A \in RAState, NEW v \in Ref, NEW r \in kGPR, NEW B, B = Take(A, v, r)
  PROVE  /\ B \in RAState /\ B.free = A.free \ {r} /\ B.r = r
         /\ B.cost[r] = v /\ \A q \in kGPR : q # r => B.cost[q] = A.cost[q]
         /\ B.spills = A.spills /\ B.spill = A.spill /\ B.ok = A.ok /\ B.need = A.need
         /\ B.wrong = A.wrong /\ B.clash = A.clash
         /\ B.reg[v] = r /\ \A w \in Ref : w # v => B.reg[w] = A.reg[w]
<1>1. PICK m, k, f, o : /\ m = [A.reg EXCEPT ![v] = r] /\ k = [A.hint EXCEPT ![v] = NoReg]
                        /\ f = A.free \ {r} /\ o = [A.cost EXCEPT ![r] = v]
  OBVIOUS
<1>2. /\ m \in [Ref -> kGPR \cup {NoReg}] /\ k \in [Ref -> kGPR \cup {NoReg}]
      /\ f \subseteq kGPR /\ o \in [kGPR -> Ref \cup {0}]
  BY <1>1, StateFacts
<1>3. B = [A EXCEPT !.reg = m, !.hint = k, !.free = f, !.cost = o, !.r = r]
  BY <1>1 DEF Take
<1>4. /\ B \in RAState /\ B.free = f /\ B.r = r /\ B.cost = o
      /\ B.spills = A.spills /\ B.spill = A.spill /\ B.ok = A.ok /\ B.need = A.need
      /\ B.wrong = A.wrong /\ B.clash = A.clash /\ B.reg = m
  BY <1>2, <1>3 DEF RAState
<1>5. /\ m[v] = r /\ \A w \in Ref : w # v => m[w] = A.reg[w]
      /\ o[r] = v /\ \A q \in kGPR : q # r => o[q] = A.cost[q]
  BY <1>1, StateFacts
<1> QED BY <1>1, <1>4, <1>5

\* A live value without a register takes a free one.
LEMMA TakeKeeps ==
  ASSUME NEW A, NEW c \in Int, c <= NumIns, NEW d, NEW x, AllocInv(A, c, d, x),
         NEW v \in Live(c), A.reg[v] = NoReg, NEW r \in kGPR, r \in A.free, NEW B, B = Take(A, v, r)
  PROVE  /\ AllocInv(B, c, d, x) /\ Later(A, B)
         /\ B.free = A.free \ {r} /\ B.r = r
         /\ B.reg[v] = r /\ \A w \in Ref : w # v => B.reg[w] = A.reg[w]
<1>1. A \in RAState /\ v \in Ref /\ Live(c) \subseteq Ref /\ r # NoReg
  BY LiveFacts, PlaceTypes DEF AllocInv
<1>2. /\ B \in RAState /\ B.free = A.free \ {r} /\ B.r = r
      /\ B.cost[r] = v /\ \A q \in kGPR : q # r => B.cost[q] = A.cost[q]
      /\ B.spills = A.spills /\ B.spill = A.spill /\ B.ok = A.ok /\ B.need = A.need
      /\ B.wrong = A.wrong /\ B.clash = A.clash
      /\ B.reg[v] = r /\ \A w \in Ref : w # v => B.reg[w] = A.reg[w]
  BY <1>1, TakeFields
<1>3. TakenInv(B, c)
  <2>1. ASSUME NEW q \in kGPR, q \notin B.free
        PROVE  B.cost[q] \in Live(c) /\ B.reg[B.cost[q]] = q
    <3>1. CASE q = r
      BY <1>2, <3>1
    <3>2. CASE q # r
      <4>1. q \notin A.free
        BY <1>2, <2>1, <3>2
      <4>2. A.cost[q] \in Live(c) /\ A.reg[A.cost[q]] = q /\ q # NoReg
        BY <4>1, PlaceTypes DEF AllocInv, TakenInv
      <4>3. A.cost[q] # v
        BY <4>2
      <4> QED BY <1>1, <1>2, <3>2, <4>2, <4>3
    <3> QED BY <3>1, <3>2
  <2>2. ASSUME NEW w \in Live(c), B.reg[w] # NoReg
        PROVE  B.reg[w] \notin B.free /\ B.cost[B.reg[w]] = w
    <3>1. CASE w = v
      BY <1>2, <3>1
    <3>2. CASE w # v
      <4>1. B.reg[w] = A.reg[w] /\ A.reg[w] \in kGPR
        BY <1>1, <1>2, <2>2, <3>2, StateFacts
      <4>2. A.reg[w] \notin A.free /\ A.cost[A.reg[w]] = w
        BY <2>2, <4>1 DEF AllocInv, TakenInv
      <4> QED BY <1>2, <4>1, <4>2
    <3> QED BY <3>1, <3>2
  <2> QED BY <2>1, <2>2 DEF TakenInv
<1>4. SlotsInv(B)
  BY <1>2 DEF SlotsInv, AllocInv
<1>5. ASSUME ~ Void(A, d) PROVE NeedInv(B, c, d, x)
  <2> SUFFICES ASSUME NEW p, NEW w, <<p, w>> \in A.need
               PROVE  \/ ~ B.ok /\ p \in Lost
                      \/ d # NoReg /\ p = Reg(d) /\ w = x
                      \/ w \in Live(c) /\ p # Reg(d) /\ HomeOf(B, w, p)
    BY <1>2 DEF NeedInv
  <2>1. w \in Live(c) /\ HomeOf(A, w, p) => HomeOf(B, w, p)
    BY <1>1, <1>2 DEF HomeOf
  <2> QED BY <1>2, <1>5, <2>1 DEF AllocInv, NeedInv
<1>6. Later(A, B)
  BY <1>1, <1>2 DEF Later, Located
<1> QED BY <1>2, <1>3, <1>4, <1>5, <1>6 DEF AllocInv, Void

\* v gets a register of allow. A value that has one may lose it, if it is in
\* allow and there is no free one, or if it is a literal.
Taking(A, B, v, allow) ==
  /\ B.r \in kGPR /\ B.reg[v] = B.r
  /\ B.r \in allow \/ B.r = A.reg[v]
  /\ \A q \in A.free : q # B.r => q \in B.free
  /\ \A w \in Ref : w # v => \/ B.reg[w] = A.reg[w]
                             \/ /\ B.reg[w] = NoReg /\ A.reg[w] \in allow
                                /\ w \in Lits \/ \A q \in allow : q \notin A.free

\* Taking the register that was freed.
LEMMA FreedTake ==
  ASSUME NEW A, NEW c \in Int, c <= NumIns, NEW d, NEW x, AllocInv(A, c, d, x),
         NEW allow \in SUBSET kGPR, NEW u \in Live(c), A.reg[u] \in allow,
         u \in Lits \/ \A q \in allow : q \notin A.free,
         NEW F, Freed(A, F, u), AllocInv(F, c, d, x), Later(A, F),
         NEW v \in Live(c), A.reg[v] = NoReg, NEW B, B = Take(F, v, A.reg[u])
  PROVE  AllocInv(B, c, d, x) /\ Later(A, B) /\ Taking(A, B, v, allow)
<1>1. PICK r \in kGPR : r = A.reg[u] /\ r # NoReg /\ r \in allow
  BY PlaceTypes
<1>2. Live(c) \subseteq Ref
  BY LiveFacts
<1>3. F.reg[v] = NoReg /\ r \in F.free /\ u # v
  BY <1>1, <1>2 DEF Freed
<1>4. /\ AllocInv(B, c, d, x) /\ Later(F, B)
      /\ B.free = F.free \ {r} /\ B.r = r
      /\ B.reg[v] = r /\ \A w \in Ref : w # v => B.reg[w] = F.reg[w]
  <2>1. B = Take(F, v, r)
    BY <1>1
  <2>2. r \in kGPR /\ r \in F.free /\ F.reg[v] = NoReg
    BY <1>1, <1>3
  <2>3. c \in Int /\ c <= NumIns /\ v \in Live(c) /\ AllocInv(F, c, d, x)
    OBVIOUS
  <2> QED BY ONLY <2>1, <2>2, <2>3, TakeKeeps
<1>5. Later(A, B)
  BY <1>4, LaterTrans
<1>6. \A q \in A.free : q # B.r => q \in B.free
  BY <1>4 DEF Freed
<1>7. ASSUME NEW w \in Ref, w # v
      PROVE  \/ B.reg[w] = A.reg[w]
             \/ /\ B.reg[w] = NoReg /\ A.reg[w] \in allow
                /\ w \in Lits \/ \A q \in allow : q \notin A.free
  BY <1>1, <1>2, <1>4, <1>7 DEF Freed
<1> QED BY <1>1, <1>4, <1>5, <1>6, <1>7 DEF Taking

\* allocRef gives a value a register it may have, whichever of the three
\* ways it finds it, and does not touch the register that waits.
LEMMA AllocRefKeeps ==
  ASSUME NEW A, NEW c \in Int, c <= NumIns, NEW d, NEW x, AllocInv(A, c, d, x),
         NEW allow \in SUBSET kGPR, allow # {},
         d \in {NoReg, Gone} \/ d \in A.free \/ (A.cost[d] \notin Lits /\ \E q \in allow : q \in A.free),
         NEW v \in Live(c), A.reg[v] = NoReg,
         NEW B, B = allocRef(A, v, allow)
  PROVE  AllocInv(B, c, d, x) /\ Later(A, B) /\ Taking(A, B, v, allow)
<1>1. PICK pick : pick = A.free \cap allow
  OBVIOUS
<1>2. PICK h : h = getHint(A.hint[v])
  OBVIOUS
<1>3. h \in kGPR
  BY <1>2, PlaceTypes DEF getHint, EAX, ECX
<1>4. \/ pick = {} /\ \E F : F = evictReg(A, allow) /\ B = Take(F, v, F.r)
      \/ h \in pick /\ B = Take(A, v, h)
      \/ pick # {} /\ h \notin pick /\ h \in allow /\ canRemat(A.cost[h])
         /\ B = Take(rematConstant(A, A.cost[h]), v, h)
      \/ pick # {} /\ B = Take(A, v, Min(pick))
  BY <1>1, <1>2 DEF allocRef
<1>5. A \in RAState /\ Live(c) \subseteq Ref
  BY LiveFacts DEF AllocInv
<1>6. ASSUME NEW r \in pick, B = Take(A, v, r)
      PROVE  AllocInv(B, c, d, x) /\ Later(A, B) /\ Taking(A, B, v, allow)
  <2>1. PICK q \in kGPR : q = r /\ q \in A.free /\ q \in allow
    BY <1>1
  <2>2. B = Take(A, v, q)
    BY <1>6, <2>1
  <2>3. /\ AllocInv(B, c, d, x) /\ Later(A, B)
        /\ B.free = A.free \ {q} /\ B.r = q
        /\ B.reg[v] = q /\ \A w \in Ref : w # v => B.reg[w] = A.reg[w]
    BY <2>1, <2>2, TakeKeeps
  <2> QED BY <2>1, <2>3 DEF Taking
<1>7. CASE pick = {} /\ \E F : F = evictReg(A, allow) /\ B = Take(F, v, F.r)
  <2>1. PICK F : F = evictReg(A, allow) /\ B = Take(F, v, F.r)
    BY <1>7
  <2>2. (\A r \in allow : r \notin A.free) /\ (d = Gone \/ d \notin allow)
    BY <1>1, <1>7, PlaceTypes
  <2>3. PICK u \in Live(c) : Evicted(A, F, c, d, x, u, allow)
    BY <2>1, <2>2, EvictKeeps
  <2>4. /\ A.reg[u] \in allow /\ Freed(A, F, u) /\ Later(A, F)
        /\ F.r = A.reg[u] /\ AllocInv(F, c, d, x)
    BY <2>2, <2>3 DEF Freed, Evicted
  <2> QED BY <2>1, <2>2, <2>4, FreedTake
<1>8. CASE h \in pick /\ B = Take(A, v, h)
  BY <1>6, <1>8
<1>9. CASE pick # {} /\ h \notin pick /\ h \in allow /\ canRemat(A.cost[h])
           /\ B = Take(rematConstant(A, A.cost[h]), v, h)
  <2>1. h \notin A.free
    BY <1>1, <1>9
  <2>2. PICK u \in Live(c) : u = A.cost[h] /\ A.reg[u] = h
    BY <1>3, <2>1 DEF AllocInv, TakenInv
  <2>3. u \in Lits /\ A.reg[u] # NoReg /\ A.reg[u] # d
    BY <1>3, <1>5, <1>9, <2>1, <2>2, RefFacts, PlaceTypes
  <2>4. PICK F : F = rematConstant(A, u)
    OBVIOUS
  <2>5. AllocInv(F, c, d, x) /\ Later(A, F) /\ Freed(A, F, u)
    BY <2>3, <2>4, RematKeeps
  <2> QED BY <1>9, <2>2, <2>3, <2>4, <2>5, FreedTake
<1>10. CASE pick # {} /\ B = Take(A, v, Min(pick))
  <2>1. \A y \in pick : y \in Nat
    BY <1>1, PlaceTypes
  <2>2. pick \subseteq Int /\ \A y \in pick : 0 <= y
    BY <2>1
  <2>3. Min(pick) \in pick
    BY <1>10, <2>2, MinIn
  <2> QED BY <1>6, <1>10, <2>3
<1> QED BY <1>4, <1>7, <1>8, <1>9, <1>10

\* The register that an operation returns is not part of the allocation.
LEMMA SetRKeeps ==
  ASSUME NEW A, NEW c, NEW d, NEW x, AllocInv(A, c, d, x),
         NEW r \in kGPR \cup {NoReg}, NEW B, B = [A EXCEPT !.r = r]
  PROVE  /\ AllocInv(B, c, d, x) /\ Later(A, B) /\ B.r = r
         /\ B.free = A.free /\ B.reg = A.reg /\ B.cost = A.cost /\ B.spill = A.spill
         /\ B.hint = A.hint /\ B.ok = A.ok /\ B.need = A.need
<1>1. A \in RAState
  BY DEF AllocInv
<1>2. /\ B \in RAState /\ B.free = A.free /\ B.cost = A.cost /\ B.reg = A.reg /\ B.hint = A.hint
      /\ B.r = r /\ B.need = A.need /\ B.spill = A.spill /\ B.spills = A.spills
      /\ B.ok = A.ok /\ B.wrong = A.wrong /\ B.clash = A.clash
  BY <1>1 DEF RAState
<1>3. AllocInv(B, c, d, x)
  BY <1>2 DEF AllocInv, TakenInv, SlotsInv, NeedInv, HomeOf, Void
<1> QED BY <1>2, <1>3 DEF Later, Located

\* alloc1 leaves a value where it is, or gives it a register.
LEMMA Alloc1Keeps ==
  ASSUME NEW A, NEW c \in Int, c <= NumIns, NEW d, NEW x, AllocInv(A, c, d, x),
         NEW allow \in SUBSET kGPR, allow # {}, NEW v \in Live(c),
         d \in {NoReg, Gone} \/ d \in A.free \/ (A.cost[d] \notin Lits /\ \E q \in allow : q \in A.free),
         NEW B, B = alloc1(A, v, allow)
  PROVE  /\ AllocInv(B, c, d, x) /\ Later(A, B) /\ Taking(A, B, v, allow)
         /\ A.reg[v] # NoReg => B.reg = A.reg /\ B.free = A.free
<1>1. Live(c) \subseteq Ref /\ A \in RAState
  BY LiveFacts DEF AllocInv
<1>2. CASE A.reg[v] = NoReg
  <2>1. B = allocRef(A, v, allow)
    BY <1>2 DEF alloc1, isReg
  <2> QED BY <1>2, <2>1, AllocRefKeeps
<1>3. CASE A.reg[v] # NoReg
  <2>1. PICK r \in kGPR : r = A.reg[v]
    BY <1>1, <1>3, StateFacts
  <2>2. B = [A EXCEPT !.r = r]
    BY <1>3, <2>1 DEF alloc1, isReg
  <2>3. /\ AllocInv(B, c, d, x) /\ Later(A, B) /\ B.r = r
        /\ B.free = A.free /\ B.reg = A.reg
    BY <2>2, SetRKeeps
  <2> QED BY <2>1, <2>3 DEF Taking
<1> QED BY <1>2, <1>3

Settled(A, c) == AllocInv(A, c, NoReg, 0)

\* Before an instruction has lost an operand, the code is right.
LEMMA NotVoid ==
  ASSUME NEW A, NEW c, NEW d \in kGPR \cup {NoReg}, NEW x, AllocInv(A, c, d, x)
  PROVE  /\ A \in RAState /\ TakenInv(A, c) /\ SlotsInv(A)
         /\ A.clash \/ (A.wrong = FALSE /\ NeedInv(A, c, d, x))
         /\ Void(A, d) <=> A.clash
BY PlaceTypes DEF AllocInv, Void

\* What is needed is where the allocator keeps it.
LEMMA SettledNeed ==
  ASSUME NEW A, NEW c, Settled(A, c), NEW p, NEW v, <<p, v>> \in A.need
  PROVE  A.clash \/ (~ A.ok /\ p \in Lost) \/ (v \in Live(c) /\ HomeOf(A, v, p))
BY PlaceTypes DEF Settled, AllocInv, NeedInv, Void

\* After an instruction has lost an operand, only the allocation matters.
LEMMA VoidKeeps ==
  ASSUME NEW A, NEW c, NEW d, NEW x, AllocInv(A, c, d, x), A.clash, NEW B \in RAState, SameAlloc(A, B),
         NEW e, NEW y
  PROVE  AllocInv(B, c, e, y)
<1>1. B.clash
  BY DEF SameAlloc
<1>2. TakenInv(B, c) /\ SlotsInv(B)
  BY DEF AllocInv, TakenInv, SlotsInv, SameAlloc
<1> QED BY <1>1, <1>2 DEF AllocInv, Void

\* An operand that an instruction finds.
Found(A, c, u) ==
  \/ u[1][1] = "imm"
  \/ \E p, v : u = <<p, v>> /\ v \in Live(c) /\ HomeOf(A, v, p)
  \/ \E p, v : u = <<p, v>> /\ v \in Ref /\ p \in Lost /\ ~ A.ok
  \/ A.clash /\ u \in (Place \cup Lost) \X Ref

\* Nothing is kept in the register that is none.
LEMMA HomeIsPlace ==
  ASSUME NEW A \in RAState, NEW v \in Ref, NEW p, HomeOf(A, v, p)
  PROVE  p \in Place /\ p # Reg(NoReg)
<1>1. A.reg[v] \in kGPR \cup {NoReg} /\ A.spill[v] \in 0..NumSpills
  BY StateFacts
<1>2. CASE A.reg[v] # NoReg /\ p = Reg(A.reg[v])
  BY <1>1, <1>2, PlaceTypes, PlaceFacts
<1>3. CASE A.spill[v] # 0 /\ p = Spill(A.spill[v])
  BY <1>1, <1>3, PlaceTypes, PlaceFacts
<1> QED BY <1>2, <1>3 DEF HomeOf

\* The operands of an instruction are places of values, or immediates.
LEMMA FoundIsUse ==
  ASSUME NEW A \in RAState, NEW c \in Int, c <= NumIns, NEW u, Found(A, c, u)
  PROVE  u[1][1] = "imm" \/ u \in (Place \cup Lost) \X Ref
<1>1. ASSUME NEW p, NEW v, u = <<p, v>>, v \in Live(c), HomeOf(A, v, p)
      PROVE  u \in (Place \cup Lost) \X Ref
  BY <1>1, LiveFacts, HomeIsPlace
<1> QED BY <1>1 DEF Found

\* Operands that are where the allocator keeps them may be used.
LEMMA UseKeeps ==
  ASSUME NEW A, NEW c \in Int, c <= NumIns, Settled(A, c),
         NEW use, \A u \in use : Found(A, c, u), NEW B, B = Use(A, use)
  PROVE  Settled(B, c) /\ SameAlloc(A, B) /\ Later(A, B)
<1>1. A \in RAState
  BY DEF Settled, AllocInv
<1>2. \A u \in use : u[1][1] = "imm" \/ u \in (Place \cup Lost) \X Ref
  BY <1>1, FoundIsUse
<1>3. /\ B \in RAState /\ SameAlloc(A, B) /\ B.wrong = A.wrong
      /\ \A p, v : <<p, v>> \in B.need => <<p, v>> \in A.need \/ (<<p, v>> \in use /\ p[1] # "imm")
  BY <1>1, <1>2, UseFields
<1>11. A.clash \/ A.wrong = FALSE
  BY PlaceTypes DEF Settled, AllocInv, Void
<1>4. TakenInv(B, c) /\ SlotsInv(B)
  BY <1>3 DEF Settled, AllocInv, TakenInv, SlotsInv, SameAlloc
<1>5. \A p, v : HomeOf(A, v, p) => HomeOf(B, v, p)
  BY <1>3 DEF HomeOf, SameAlloc
<1>6. ASSUME NEW p, NEW v, <<p, v>> \in B.need
      PROVE  A.clash \/ (~ B.ok /\ p \in Lost) \/ (v \in Live(c) /\ p # Reg(NoReg) /\ HomeOf(B, v, p))
  <2>1. A.clash \/ (~ A.ok /\ p \in Lost) \/ (v \in Live(c) /\ HomeOf(A, v, p))
    <3>1. CASE <<p, v>> \in A.need
      BY <3>1, SettledNeed
    <3>2. CASE <<p, v>> \in use /\ p[1] # "imm"
      BY <3>2 DEF Found
    <3> QED BY <1>3, <1>6, <3>1, <3>2
  <2>2. v \in Live(c) /\ HomeOf(A, v, p) => p # Reg(NoReg)
    BY <1>1, HomeIsPlace, LiveFacts
  <2> QED BY <1>3, <1>5, <2>1, <2>2 DEF SameAlloc
<1>7. Later(A, B)
  BY <1>3 DEF SameAlloc, Later, Located
<1>8. A.clash = B.clash
  BY <1>3 DEF SameAlloc
<1>9. ~ A.clash => NeedInv(B, c, NoReg, 0)
  BY <1>6 DEF NeedInv
<1>10. Settled(B, c)
  BY <1>3, <1>4, <1>8, <1>9, <1>11 DEF Settled, AllocInv, Void
<1> QED BY <1>3, <1>7, <1>10

\* A guard needs the values of its snapshot where they are at the time.
LEMMA GuardKeeps ==
  ASSUME NEW A, NEW c \in Int, c <= NumIns, Settled(A, c),
         NEW snap, \A k \in DOMAIN snap : snap[k] \in Live(c) /\ Located(A, snap[k]),
         NEW B, B = Guard(A, snap)
  PROVE  Settled(B, c) /\ SameAlloc(A, B) /\ Later(A, B)
<1> DEFINE use == {<<RestoreLoc(A, snap[k]), snap[k]>> : k \in DOMAIN snap}
<1>1. ASSUME NEW v \in Live(c), Located(A, v) PROVE Found(A, c, <<RestoreLoc(A, v), v>>)
  <2>1. v \in Ref
    BY LiveFacts
  <2>2. CASE A.spill[v] # 0
    BY <2>2 DEF RestoreLoc, Found, HomeOf
  <2>3. CASE A.spill[v] = 0 /\ A.reg[v] # NoReg
    BY <2>3 DEF RestoreLoc, Found, HomeOf
  <2>4. CASE A.spill[v] = 0 /\ A.reg[v] = NoReg
    <3>1. ~ A.ok /\ RestoreLoc(A, v) = Reg(NoReg)
      BY <1>1, <2>4 DEF Located, RestoreLoc
    <3>2. RestoreLoc(A, v) \in Lost
      BY <3>1 DEF Lost
    <3> QED BY <2>1, <3>1, <3>2 DEF Found
  <2> QED BY <2>2, <2>3, <2>4
<1>2. \A u \in use : Found(A, c, u)
  BY <1>1
<1>3. B = Use(A, use)
  BY DEF Guard
<1> HIDE DEF use
<1> QED BY <1>2, <1>3, UseKeeps

\* A value of a snapshot gets a register if it has none and a spill slot if
\* there is no register left (snapshotAlloc1).
LEMMA SnapshotAlloc1Keeps ==
  ASSUME NEW A, NEW c \in Int, c <= NumIns, Settled(A, c), NEW v \in 1..c,
         NEW B, B = snapshotAlloc1(A, v)
  PROVE  Settled(B, c) /\ Later(A, B) /\ Located(B, v)
<1>1. v \in Live(c) /\ v \in Ref \ Lits /\ ~ canRemat(v)
  BY LiveFacts, RefFacts
<1>2. CASE isReg(A, v) \/ A.spill[v] # 0
  <2>1. B = A
    BY <1>2 DEF snapshotAlloc1
  <2> QED BY <1>2, <2>1 DEF Later, Located, isReg
<1>3. CASE ~ isReg(A, v) /\ A.spill[v] = 0 /\ A.free # {}
  <2>1. B = allocRef(A, v, kGPR)
    BY <1>1, <1>3 DEF snapshotAlloc1
  <2>2. AllocInv(B, c, NoReg, 0) /\ Later(A, B) /\ Taking(A, B, v, kGPR)
    <3>1. AllocInv(A, c, NoReg, 0) /\ A.reg[v] = NoReg /\ kGPR # {} /\ kGPR \in SUBSET kGPR
      BY <1>3, PlaceTypes DEF isReg, Settled
    <3> QED BY <1>1, <2>1, <3>1, AllocRefKeeps
  <2> QED BY <2>2, PlaceTypes DEF Taking, Located, Settled
<1>4. CASE ~ isReg(A, v) /\ A.spill[v] = 0 /\ A.free = {}
  <2>1. B = SpillSlot(A, v)
    BY <1>1, <1>4 DEF snapshotAlloc1
  <2>2. AllocInv(B, c, NoReg, 0) /\ Later(A, B) /\ (B.spill[v] # 0 \/ ~ B.ok)
    BY <1>1, <2>1, SpillKeeps DEF Settled
  <2> QED BY <2>2 DEF Located, Settled
<1> QED BY <1>2, <1>3, <1>4

\* Induction over the naturals, for a set of them.
LEMMA SetInduction ==
  ASSUME NEW T \in SUBSET Nat, 0 \in T, \A n \in T : n + 1 \in T
  PROVE  T = Nat
<1>1. SUFFICES ASSUME Nat \ T # {} PROVE FALSE
  OBVIOUS
<1>2. PICK x \in Nat \ T : \A y \in Nat \ T : x <= y
  BY <1>1, LeastOne
<1>3. CASE x = 0
  BY <1>3
<1>4. CASE x # 0
  <2>1. x - 1 \in Nat /\ ~ (x <= x - 1)
    BY <1>4
  <2>2. x - 1 \in T
    BY <1>2, <2>1
  <2>3. (x - 1) + 1 \in T /\ (x - 1) + 1 = x
    BY <2>1, <2>2
  <2> QED BY <2>3
<1> QED BY <1>3, <1>4

\* L steps in D from A, the step n by G[n].
Stepwise(L, D, A, G) == L \in Nat /\ A \in D /\ \A n \in 1..L : \A X \in D : G[n][X] \in D
Iteration(f, L, D, A, G) ==
  f \in [0..L -> D] /\ f[0] = A /\ \A n \in 1..L : f[n] = G[n][f[n - 1]]

\* A recursive function that takes the steps G from A exists, and satisfies
\* its equation.
LEMMA Iterate ==
  ASSUME NEW L, NEW D, NEW A, NEW G, Stepwise(L, D, A, G)
  PROVE  \E f : Iteration(f, L, D, A, G)
<1>1. L \in Nat /\ A \in D /\ \A n \in 1..L : \A X \in D : G[n][X] \in D
  BY DEF Stepwise
<1> DEFINE Good(f, m) == f \in [0..m -> D] /\ f[0] = A /\ \A n \in 1..m : f[n] = G[n][f[n - 1]]
           T == {m \in Nat : m <= L => \E f : Good(f, m)}
<1>2. 0 \in T
  <2>1. PICK f : f = [n \in 0..0 |-> A]
    OBVIOUS
  <2>2. Good(f, 0)
    BY <1>1, <2>1
  <2> QED BY <2>2
<1>3. ASSUME NEW m \in T PROVE m + 1 \in T
  <2> SUFFICES ASSUME m + 1 <= L PROVE \E f : Good(f, m + 1)
    OBVIOUS
  <2>1. m \in Nat /\ m <= L /\ m + 1 \in 1..L
    BY <1>1
  <2>2. PICK f : Good(f, m)
    BY <2>1
  <2>3. f[m] \in D /\ G[m + 1][f[m]] \in D
    BY <1>1, <2>1, <2>2
  <2>4. PICK g : g = [n \in 0..(m + 1) |-> IF n = m + 1 THEN G[m + 1][f[m]] ELSE f[n]]
    OBVIOUS
  <2>5. g \in [0..(m + 1) -> D]
    <3>1. ASSUME NEW n \in 0..(m + 1) PROVE g[n] \in D
      <4>1. n = m + 1 \/ n \in 0..m
        BY <2>1
      <4> QED BY <2>2, <2>3, <2>4, <4>1
    <3> QED BY <2>4, <3>1
  <2>6. g[0] = A
    BY <2>1, <2>2, <2>4
  <2>7. ASSUME NEW n \in 1..(m + 1) PROVE g[n] = G[n][g[n - 1]]
    <3>1. CASE n = m + 1
      <4>1. n - 1 = m /\ n \in 0..(m + 1) /\ m \in 0..(m + 1) /\ m # m + 1
        BY <2>1, <3>1
      <4>2. g[n] = G[m + 1][f[m]] /\ g[m] = f[m]
        BY <2>4, <3>1, <4>1
      <4> QED BY <3>1, <4>1, <4>2
    <3>2. CASE n # m + 1
      <4>1. n \in 1..m /\ n - 1 # m + 1 /\ n \in 0..(m + 1) /\ n - 1 \in 0..(m + 1)
        BY <2>1, <3>2
      <4>2. g[n] = f[n] /\ g[n - 1] = f[n - 1]
        BY <2>4, <3>2, <4>1
      <4> QED BY <2>2, <4>1, <4>2
    <3> QED BY <3>1, <3>2
  <2> QED BY <2>5, <2>6, <2>7
<1>4. T \in SUBSET Nat
  OBVIOUS
<1>5. L \in T
  <2> HIDE DEF T
  <2> QED BY <1>1, <1>2, <1>3, <1>4, SetInduction
<1>6. \E f : Good(f, L)
  BY <1>1, <1>5
<1> QED BY <1>6 DEF Iteration

\* Doing nothing.
LEMMA LaterSelf == \A A : Later(A, A)
BY DEF Later

\* All the values of a snapshot are somewhere when snapshotAlloc is done.
LEMMA SnapshotAllocKeeps ==
  ASSUME NEW A, NEW c \in Int, c <= NumIns, Settled(A, c), NEW snap \in Seq(1..c),
         NEW B, B = snapshotAlloc(A, snap)
  PROVE  Settled(B, c) /\ Later(A, B) /\ \A k \in DOMAIN snap : snap[k] \in 1..c /\ Located(B, snap[k])
<1> DEFINE F(f) == f = [n \in 0..Len(snap) |-> IF n = 0 THEN A ELSE snapshotAlloc1(f[n - 1], snap[n])]
<1>1. PICK p : p = CHOOSE f : F(f)
  OBVIOUS
<1>2. B = p[Len(snap)]
  BY ONLY <1>1, B = snapshotAlloc(A, snap), ZenonT(60) DEF snapshotAlloc, F
<1>3. PICK L \in Nat : L = Len(snap) /\ DOMAIN snap = 1..L
  OBVIOUS
<1>4. \A n \in 1..L : snap[n] \in 1..c
  BY <1>3
<1> DEFINE D == {X \in RAState : Settled(X, c)}
           G == [n \in 1..L |-> [X \in D |-> snapshotAlloc1(X, snap[n])]]
<1>5. ASSUME NEW X \in D, NEW n \in 1..L
      PROVE  /\ snapshotAlloc1(X, snap[n]) \in D /\ Later(X, snapshotAlloc1(X, snap[n]))
             /\ Located(snapshotAlloc1(X, snap[n]), snap[n])
  <2>1. Settled(X, c) /\ snap[n] \in 1..c
    BY <1>4
  <2>2. PICK Y : Y = snapshotAlloc1(X, snap[n])
    OBVIOUS
  <2>3. Settled(Y, c) /\ Later(X, Y) /\ Located(Y, snap[n])
    BY <2>1, <2>2, SnapshotAlloc1Keeps
  <2> QED BY <2>2, <2>3 DEF Settled, AllocInv
<1>6. A \in D
  BY DEF Settled, AllocInv
<1> HIDE DEF D
<1>7. \E f : F(f)
  <2>1. \A n \in 1..L : \A X \in D : G[n][X] \in D
    BY <1>5
  <2>2. PICK f \in [0..L -> D] : f[0] = A /\ \A n \in 1..L : f[n] = G[n][f[n - 1]]
    <3> HIDE DEF G
    <3>1. Stepwise(L, D, A, G)
      BY <1>6, <2>1 DEF Stepwise
    <3>2. PICK f : Iteration(f, L, D, A, G)
      BY <3>1, Iterate
    <3>3. f \in [0..L -> D] /\ f[0] = A /\ \A n \in 1..L : f[n] = G[n][f[n - 1]]
      BY <3>2 DEF Iteration
    <3> QED BY <3>3
  <2>3. ASSUME NEW n \in 1..L PROVE f[n] = snapshotAlloc1(f[n - 1], snap[n])
    <3>1. n - 1 \in 0..L
      OBVIOUS
    <3>2. f[n - 1] \in D
      BY <2>2, <3>1
    <3> QED BY <2>2, <3>2
  <2>4. f = [n \in 0..L |-> IF n = 0 THEN A ELSE snapshotAlloc1(f[n - 1], snap[n])]
    <3>1. ASSUME NEW n \in 0..L PROVE f[n] = IF n = 0 THEN A ELSE snapshotAlloc1(f[n - 1], snap[n])
      <4>1. n = 0 \/ n \in 1..L
        OBVIOUS
      <4> QED BY <2>2, <2>3, <4>1
    <3> QED BY <2>2, <3>1
  <2> QED BY <1>3, <2>4
<1>8. p = [n \in 0..L |-> IF n = 0 THEN A ELSE snapshotAlloc1(p[n - 1], snap[n])]
  BY <1>1, <1>3, <1>7
<1> DEFINE T == {m \in Nat : m <= L => /\ p[m] \in D /\ Later(A, p[m])
                                       /\ \A k \in 1..m : Located(p[m], snap[k])}
<1>9. 0 \in T
  BY <1>6, <1>8, LaterSelf
<1>10. ASSUME NEW m \in T PROVE m + 1 \in T
  <2> SUFFICES ASSUME m + 1 <= L
               PROVE  /\ p[m + 1] \in D /\ Later(A, p[m + 1])
                      /\ \A k \in 1..(m + 1) : Located(p[m + 1], snap[k])
    OBVIOUS
  <2>1. m \in Nat /\ m <= L /\ m + 1 \in 1..L /\ m + 1 \in 0..L /\ (m + 1) - 1 = m /\ m + 1 # 0
    OBVIOUS
  <2>2. p[m] \in D /\ Later(A, p[m]) /\ \A k \in 1..m : Located(p[m], snap[k])
    BY <2>1
  <2>3. p[m + 1] = snapshotAlloc1(p[m], snap[m + 1])
    BY <1>8, <2>1
  <2>4. p[m + 1] \in D /\ Later(p[m], p[m + 1]) /\ Located(p[m + 1], snap[m + 1])
    BY <1>5, <2>1, <2>2, <2>3
  <2>5. ASSUME NEW k \in 1..(m + 1) PROVE Located(p[m + 1], snap[k])
    <3>1. k = m + 1 \/ (k \in 1..m /\ k \in 1..L)
      BY <2>1
    <3>2. ASSUME k \in 1..m /\ k \in 1..L PROVE Located(p[m + 1], snap[k])
      <4>1. snap[k] \in Ref \ Lits
        BY <1>4, <3>2, LiveFacts
      <4> QED BY <2>2, <2>4, <3>2, <4>1 DEF Later
    <3> QED BY <2>4, <3>1, <3>2
  <2> QED BY <2>2, <2>4, <2>5, LaterTrans
<1>11. T \in SUBSET Nat
  OBVIOUS
<1>12. L \in T
  <2> HIDE DEF T
  <2> QED BY <1>9, <1>10, <1>11, SetInduction
<1> QED BY <1>2, <1>3, <1>4, <1>12 DEF D

\* v may be stored: the operands of the address are in registers that are
\* not to be taken for v.
Storing(A, c, base, v, allow) ==
  /\ Settled(A, c) /\ v \in Live(c) /\ allow \in SUBSET kGPR /\ allow # {}
  /\ \A u \in base : u[1][1] = "imm" \/ \E w \in Live(c) :
       u = <<Reg(A.reg[w]), w>> /\ A.reg[w] # NoReg /\ A.reg[w] \notin allow

\* A store to memory: its value is a small literal or gets a register that
\* is not the one of its base.
LEMMA MemstoreKeeps ==
  ASSUME NEW A, NEW c \in Int, c <= NumIns, NEW base, NEW v, NEW allow, Storing(A, c, base, v, allow),
         NEW B, B = memstore(A, base, v, allow)
  PROVE  /\ Settled(B, c) /\ Later(A, B)
         /\ \A w \in Live(c) : A.reg[w] # NoReg /\ A.reg[w] \notin allow => B.reg[w] = A.reg[w]
<1>1. /\ Settled(A, c) /\ v \in Live(c) /\ allow \in SUBSET kGPR /\ allow # {}
      /\ \A u \in base : u[1][1] = "imm" \/ \E w \in Live(c) :
           u = <<Reg(A.reg[w]), w>> /\ A.reg[w] # NoReg /\ A.reg[w] \notin allow
  BY DEF Storing
<1>2. CASE is32BitLiteral(v)
  <2>1. PICK use : use = base \cup {<<Imm(v), v>>}
    OBVIOUS
  <2>2. B = Use(A, use)
    BY <1>2, <2>1 DEF memstore
  <2>3. \A u \in use : Found(A, c, u)
    <3>1. Found(A, c, <<Imm(v), v>>)
      BY PlaceFacts DEF Found
    <3>2. ASSUME NEW u \in base PROVE Found(A, c, u)
      BY <1>1 DEF Found, HomeOf
    <3> QED BY <2>1, <3>1, <3>2
  <2>4. Settled(B, c) /\ SameAlloc(A, B) /\ Later(A, B)
    BY <1>1, <2>2, <2>3, UseKeeps
  <2> QED BY <2>4 DEF SameAlloc
<1>3. CASE ~ is32BitLiteral(v)
  <2>1. PICK C : C = alloc1(A, v, allow)
    OBVIOUS
  <2>2. PICK use : use = base \cup {<<Reg(C.r), v>>}
    OBVIOUS
  <2>3. B = Use(C, use)
    BY <1>3, <2>1, <2>2 DEF memstore
  <2>4. /\ Settled(C, c) /\ Later(A, C) /\ Taking(A, C, v, allow)
        /\ A.reg[v] # NoReg => C.reg = A.reg
    BY <1>1, <2>1, Alloc1Keeps DEF Settled
  <2>5. ASSUME NEW w \in Live(c), A.reg[w] # NoReg, A.reg[w] \notin allow PROVE C.reg[w] = A.reg[w]
    <3>1. w \in Ref
      BY LiveFacts
    <3>2. CASE w = v
      BY <2>4, <2>5, <3>2
    <3>3. CASE w # v
      BY <2>4, <2>5, <3>1, <3>3 DEF Taking
    <3> QED BY <3>2, <3>3
  <2>6. Found(C, c, <<Reg(C.r), v>>)
    BY <1>1, <2>4, PlaceTypes DEF Found, HomeOf, Taking
  <2>7. ASSUME NEW u \in base PROVE Found(C, c, u)
    BY <1>1, <2>5 DEF Found, HomeOf
  <2>8. \A u \in use : Found(C, c, u)
    BY <2>2, <2>6, <2>7
  <2>9. Settled(B, c) /\ SameAlloc(C, B) /\ Later(C, B)
    BY <2>3, <2>4, <2>8, UseKeeps
  <2>10. Later(A, B)
    BY <2>4, <2>9, LaterTrans
  <2> QED BY <2>5, <2>9, <2>10 DEF SameAlloc
<1> QED BY <1>2, <1>3

\* The values that SAVE stores to the stack, one after the other.
LEMMA MemstoresKeep ==
  ASSUME NEW A, NEW c \in Int, c <= NumIns, Settled(A, c), NEW refs \in Seq(Live(c)),
         NEW B, B = memstores(A, refs)
  PROVE  Settled(B, c)
<1> DEFINE F(f) == f = [n \in 0..Len(refs) |-> IF n = 0 THEN A ELSE memstore(f[n - 1], {}, refs[n], kGPR)]
<1>1. PICK p : p = CHOOSE f : F(f)
  OBVIOUS
<1>2. B = p[Len(refs)]
  BY ONLY <1>1, B = memstores(A, refs), ZenonT(60) DEF memstores, F
<1>3. PICK L \in Nat : L = Len(refs) /\ DOMAIN refs = 1..L
  OBVIOUS
<1>4. \A n \in 1..L : refs[n] \in Live(c)
  BY <1>3
<1> DEFINE D == {X \in RAState : Settled(X, c)}
           G == [n \in 1..L |-> [X \in D |-> memstore(X, {}, refs[n], kGPR)]]
<1>5. ASSUME NEW X \in D, NEW n \in 1..L
      PROVE  memstore(X, {}, refs[n], kGPR) \in D
  <2>1. Settled(X, c) /\ refs[n] \in Live(c) /\ kGPR \in SUBSET kGPR /\ kGPR # {}
    BY <1>4, PlaceTypes
  <2>2. PICK Y, base : Y = memstore(X, base, refs[n], kGPR) /\ base = {}
    OBVIOUS
  <2>3. \A u \in base : u[1][1] = "imm" \/ \E w \in Live(c) :
          u = <<Reg(X.reg[w]), w>> /\ X.reg[w] # NoReg /\ X.reg[w] \notin kGPR
    BY <2>2
  <2>4. Storing(X, c, base, refs[n], kGPR)
    BY <2>1, <2>3 DEF Storing
  <2>5. Settled(Y, c)
    BY <2>2, <2>4, MemstoreKeeps
  <2> QED BY <2>2, <2>5 DEF Settled, AllocInv
<1>6. A \in D
  BY DEF Settled, AllocInv
<1> HIDE DEF D
<1>7. \E f : F(f)
  <2>1. \A n \in 1..L : \A X \in D : G[n][X] \in D
    BY <1>5
  <2>2. PICK f \in [0..L -> D] : f[0] = A /\ \A n \in 1..L : f[n] = G[n][f[n - 1]]
    <3> HIDE DEF G
    <3>1. Stepwise(L, D, A, G)
      BY <1>6, <2>1 DEF Stepwise
    <3>2. PICK f : Iteration(f, L, D, A, G)
      BY <3>1, Iterate
    <3>3. f \in [0..L -> D] /\ f[0] = A /\ \A n \in 1..L : f[n] = G[n][f[n - 1]]
      BY <3>2 DEF Iteration
    <3> QED BY <3>3
  <2>3. ASSUME NEW n \in 1..L PROVE f[n] = memstore(f[n - 1], {}, refs[n], kGPR)
    <3>1. n - 1 \in 0..L
      OBVIOUS
    <3>2. f[n - 1] \in D
      BY <2>2, <3>1
    <3> QED BY <2>2, <3>2
  <2>4. f = [n \in 0..L |-> IF n = 0 THEN A ELSE memstore(f[n - 1], {}, refs[n], kGPR)]
    <3>1. ASSUME NEW n \in 0..L PROVE f[n] = IF n = 0 THEN A ELSE memstore(f[n - 1], {}, refs[n], kGPR)
      <4>1. n = 0 \/ n \in 1..L
        OBVIOUS
      <4> QED BY <2>2, <2>3, <4>1
    <3> QED BY <2>2, <3>1
  <2> QED BY <1>3, <2>4
<1>8. p = [n \in 0..L |-> IF n = 0 THEN A ELSE memstore(p[n - 1], {}, refs[n], kGPR)]
  BY <1>1, <1>3, <1>7
<1> DEFINE T == {m \in Nat : m <= L => p[m] \in D}
<1>9. 0 \in T
  BY <1>6, <1>8
<1>10. ASSUME NEW m \in T PROVE m + 1 \in T
  <2> SUFFICES ASSUME m + 1 <= L PROVE p[m + 1] \in D
    OBVIOUS
  <2>1. m \in Nat /\ m <= L /\ m + 1 \in 1..L /\ m + 1 \in 0..L /\ (m + 1) - 1 = m /\ m + 1 # 0
    OBVIOUS
  <2>2. p[m] \in D
    BY <2>1
  <2>3. p[m + 1] = memstore(p[m], {}, refs[m + 1], kGPR)
    BY <1>8, <2>1
  <2> QED BY <1>5, <2>1, <2>2, <2>3
<1>11. T \in SUBSET Nat
  OBVIOUS
<1>12. L \in T
  <2> HIDE DEF T
  <2> QED BY <1>9, <1>10, <1>11, SetInduction
<1> QED BY <1>2, <1>3, <1>12 DEF D

\* A register of allow may have been taken from the value that had it.
Cleared(A, B, allow) ==
  /\ \A q \in A.free : q \in B.free
  /\ \A w \in Ref : B.reg[w] = A.reg[w] \/ (B.reg[w] = NoReg /\ A.reg[w] \in allow)

\* A scratch register is free when allocScratchReg returns it, and stays
\* untaken by its values.
LEMMA ScratchKeeps ==
  ASSUME NEW A, NEW c \in Int, c <= NumIns, NEW d, NEW x, AllocInv(A, c, d, x), d \in {NoReg, Gone} \/ d \in A.free,
         NEW allow \in SUBSET kGPR, allow # {}, NEW B, B = allocScratchReg(A, allow)
  PROVE  /\ AllocInv(B, c, d, x) /\ Later(A, B) /\ B.r \in allow /\ B.r \in B.free
         /\ Cleared(A, B, allow)
<1>1. PICK pick : pick = A.free \cap allow
  OBVIOUS
<1>2. CASE pick = {}
  <2>1. B = evictReg(A, allow)
    BY <1>1, <1>2 DEF allocScratchReg
  <2>2. (\A r \in allow : r \notin A.free) /\ (d = Gone \/ d \notin allow)
    BY <1>1, <1>2, PlaceTypes
  <2>3. PICK u \in Live(c) : Evicted(A, B, c, d, x, u, allow)
    BY <2>1, <2>2, EvictKeeps
  <2>4. /\ A.reg[u] \in allow /\ Freed(A, B, u) /\ Later(A, B) /\ AllocInv(B, c, d, x)
    BY <2>2, <2>3 DEF Evicted
  <2> QED BY <2>4 DEF Freed, Cleared
<1>3. CASE pick # {}
  <2>1. PICK r : r = Max(pick)
    OBVIOUS
  <2>2. B = [A EXCEPT !.r = r]
    BY <1>1, <1>3, <2>1 DEF allocScratchReg
  <2>3. r \in pick
    <3>1. NumRegs \in Nat
      BY RegAllocAssumption
    <3>2. \A y \in pick : y \in 0..(NumRegs - 1)
      BY <1>1 DEF kGPR
    <3>3. \A y \in 0..(NumRegs - 1) : y \in Int /\ y <= NumRegs
      BY <3>1
    <3>4. pick \subseteq Int /\ \A y \in pick : y <= NumRegs
      BY <3>2, <3>3
    <3> QED BY <1>3, <2>1, <3>1, <3>4, MaxIn
  <2>4. r \in kGPR \cup {NoReg}
    BY <1>1, <2>3
  <2>5. /\ AllocInv(B, c, d, x) /\ Later(A, B) /\ B.r = r /\ B.free = A.free /\ B.reg = A.reg
    BY <2>2, <2>4, SetRKeeps
  <2> QED BY <1>1, <2>3, <2>5 DEF Cleared
<1> QED BY <1>2, <1>3

\* A register that an instruction needs for itself is emptied (evictSet).
LEMMA EvictSetKeeps ==
  ASSUME NEW A, NEW c \in Int, c <= NumIns, NEW d, NEW x, AllocInv(A, c, d, x),
         NEW r \in kGPR, r # d, NEW B, B = evictSet(A, r)
  PROVE  /\ AllocInv(B, c, d, x) /\ Later(A, B) /\ r \in B.free
         /\ \A q \in A.free : q \in B.free
         /\ \A w \in Ref : B.reg[w] = A.reg[w] \/ (B.reg[w] = NoReg /\ A.reg[w] = r)
<1>1. CASE r \in A.free
  <2>1. B = A
    BY <1>1 DEF evictSet
  <2> QED BY <1>1, <2>1, LaterSelf
<1>2. CASE r \notin A.free
  <2>1. PICK v \in Live(c) : v = A.cost[r] /\ A.reg[v] = r
    BY <1>2 DEF AllocInv, TakenInv
  <2>2. B = restoreReg(A, v)
    BY <1>2, <2>1 DEF evictSet
  <2>3. A.reg[v] # NoReg /\ A.reg[v] # d
    BY <2>1, PlaceTypes
  <2>4. AllocInv(B, c, d, x) /\ Later(A, B) /\ Freed(A, B, v)
    BY <2>2, <2>3, RestoreKeeps
  <2> QED BY <2>1, <2>4 DEF Freed
<1> QED BY <1>1, <1>2

\* The register d of the value n is free where n is defined.
Defining(A, n, d) ==
  /\ A \in RAState /\ (A.clash \/ A.wrong = FALSE) /\ TakenInv(A, n - 1) /\ SlotsInv(A)
  /\ d \in kGPR /\ d \in A.free /\ A.r = d
  /\ \A p, v : <<p, v>> \in A.need =>
       \/ A.clash
       \/ ~ A.ok /\ p \in Lost
       \/ p = Reg(d) /\ v = n
       \/ A.spill[n] # 0 /\ p = Spill(A.spill[n]) /\ v = n
       \/ v \in Live(n - 1) /\ p # Reg(d) /\ HomeOf(A, v, p)

\* The values that are live before instruction n are those that are live
\* after it, but n.
LEMMA LiveBefore ==
  ASSUME NEW n \in 1..NumIns
  PROVE  /\ n - 1 \in Int /\ n - 1 <= NumIns /\ n \in Int /\ n <= NumIns /\ n \in Ref /\ n \notin Lits
         /\ n \in Live(n) /\ Live(n - 1) \subseteq Live(n) /\ n \notin Live(n - 1)
         /\ (\A v \in Live(n) : v = n \/ v \in Live(n - 1)) /\ Live(n) \subseteq Ref
<1>1. NumIns \in Nat /\ n \in Int /\ n <= NumIns /\ n - 1 \in Int /\ n - 1 <= NumIns
  BY RefFacts
<1>2. n \in 1..n /\ n \notin 1..(n - 1) /\ 1..(n - 1) \subseteq 1..n
  OBVIOUS
<1>3. \A v \in 1..n : v = n \/ v \in 1..(n - 1)
  OBVIOUS
<1>4. n \in Ref /\ n \notin Lits
  BY RefFacts
<1>5. Live(n) \subseteq Ref
  BY <1>1, LiveFacts
<1> QED BY <1>1, <1>2, <1>3, <1>4, <1>5 DEF Live

\* What freeReg changes.
LEMMA FreeRegFields ==
  ASSUME NEW A \in RAState, NEW r \in kGPR, NEW B, B = freeReg(A, r)
  PROVE  /\ B \in RAState /\ B.free = A.free \cup {r} /\ B.r = r /\ B.cost = A.cost
         /\ B.spills = A.spills /\ B.spill = A.spill /\ B.ok = A.ok /\ B.need = A.need
         /\ B.wrong = A.wrong /\ B.clash = A.clash /\ B.reg = A.reg
<1>1. PICK g : g = A.free \cup {r}
  OBVIOUS
<1>2. g \subseteq kGPR
  BY <1>1 DEF RAState
<1>3. B = [A EXCEPT !.free = g, !.r = r]
  BY <1>1 DEF freeReg
<1> QED BY <1>1, <1>2, <1>3 DEF RAState

\* What setting the register of a reference changes.
LEMMA SetRegFields ==
  ASSUME NEW A \in RAState, NEW n \in Ref, A.r \in kGPR, NEW B, B = SetReg(A, n)
  PROVE  /\ B \in RAState /\ B.free = A.free /\ B.r = A.r /\ B.cost = A.cost
         /\ B.spills = A.spills /\ B.spill = A.spill /\ B.ok = A.ok /\ B.need = A.need
         /\ B.wrong = A.wrong /\ B.clash = A.clash /\ B.reg[n] = A.r /\ \A w \in Ref : w # n => B.reg[w] = A.reg[w]
<1>1. PICK m, k : m = [A.reg EXCEPT ![n] = A.r] /\ k = [A.hint EXCEPT ![n] = NoReg]
  OBVIOUS
<1>2. m \in [Ref -> kGPR \cup {NoReg}] /\ k \in [Ref -> kGPR \cup {NoReg}]
  BY <1>1, StateFacts
<1>3. B = [A EXCEPT !.reg = m, !.hint = k]
  BY <1>1 DEF SetReg
<1>4. /\ B \in RAState /\ B.free = A.free /\ B.r = A.r /\ B.cost = A.cost
      /\ B.spills = A.spills /\ B.spill = A.spill /\ B.ok = A.ok /\ B.need = A.need
      /\ B.wrong = A.wrong /\ B.clash = A.clash /\ B.reg = m
  BY <1>2, <1>3 DEF RAState
<1>5. m[n] = A.r /\ \A w \in Ref : w # n => m[w] = A.reg[w]
  BY <1>1, StateFacts
<1> QED BY <1>4, <1>5

\* It takes a register that is free.
LEMMA SetRegDefines ==
  ASSUME NEW n \in 1..NumIns, NEW A, Settled(A, n), A.reg[n] = NoReg, A.r \in kGPR, A.r \in A.free,
         NEW B, B = SetReg(A, n)
  PROVE  /\ Defining(B, n, A.r) /\ B.free = A.free /\ \A w \in Ref : w # n => B.reg[w] = A.reg[w]
         /\ B.ok = A.ok
<1>1. A \in RAState /\ (A.clash \/ A.wrong = FALSE) /\ TakenInv(A, n) /\ SlotsInv(A)
  BY NotVoid DEF Settled
<1>2. n \in Ref /\ Live(n) \subseteq Ref /\ n \notin Live(n - 1) /\ Live(n - 1) \subseteq Live(n)
      /\ (\A v \in Live(n) : v = n \/ v \in Live(n - 1))
  BY LiveBefore
<1>3. /\ B \in RAState /\ B.free = A.free /\ B.r = A.r /\ B.cost = A.cost
      /\ B.spills = A.spills /\ B.spill = A.spill /\ B.ok = A.ok /\ B.need = A.need
      /\ B.wrong = A.wrong /\ B.clash = A.clash /\ B.reg[n] = A.r /\ \A w \in Ref : w # n => B.reg[w] = A.reg[w]
  BY <1>1, <1>2, SetRegFields
<1>4. TakenInv(B, n - 1)
  <2>1. ASSUME NEW q \in kGPR, q \notin A.free PROVE A.cost[q] \in Live(n - 1) /\ B.reg[A.cost[q]] = q
    <3>1. A.cost[q] \in Live(n) /\ A.reg[A.cost[q]] = q /\ q # NoReg
      BY <1>1, <2>1, PlaceTypes DEF TakenInv
    <3> QED BY <1>2, <1>3, <3>1
  <2>2. ASSUME NEW w \in Live(n - 1)
        PROVE  B.reg[w] = NoReg \/ (B.reg[w] \notin B.free /\ B.cost[B.reg[w]] = w)
    <3>1. w \in Live(n) /\ w \in Ref /\ w # n
      BY <1>2, <2>2
    <3>2. A.reg[w] = NoReg \/ (A.reg[w] \notin A.free /\ A.cost[A.reg[w]] = w)
      BY <1>1, <3>1 DEF TakenInv
    <3> QED BY <1>3, <3>1, <3>2
  <2> QED BY <1>3, <2>1, <2>2 DEF TakenInv
<1>5. SlotsInv(B)
  BY <1>1, <1>3 DEF SlotsInv
<1>6. ASSUME NEW p, NEW v, <<p, v>> \in A.need
      PROVE  \/ A.clash
             \/ ~ A.ok /\ p \in Lost
             \/ B.spill[n] # 0 /\ p = Spill(B.spill[n]) /\ v = n
             \/ v \in Live(n - 1) /\ p # Reg(A.r) /\ HomeOf(B, v, p)
  <2>1. A.clash \/ (~ A.ok /\ p \in Lost) \/ (v \in Live(n) /\ HomeOf(A, v, p))
    BY <1>6, SettledNeed
  <2>2. ASSUME v = n, HomeOf(A, v, p) PROVE B.spill[n] # 0 /\ p = Spill(B.spill[n])
    BY <1>3, <2>2 DEF HomeOf
  <2>3. ASSUME ~ A.clash, v \in Live(n - 1), HomeOf(A, v, p) PROVE p # Reg(A.r) /\ HomeOf(B, v, p)
    <3>1. p # Reg(A.r)
      <4>1. SUFFICES ASSUME p = Reg(A.r) PROVE FALSE
        OBVIOUS
      <4>2. PICK q \in kGPR : q = A.r /\ q # NoReg
        BY PlaceTypes
      <4>3. AllocInv(A, n, NoReg, 0) /\ ~ Void(A, NoReg)
        BY <2>3, PlaceTypes DEF Settled, Void
      <4>4. <<Reg(q), v>> \in A.need
        BY <1>6, <4>1, <4>2
      <4>5. q \notin A.free
        BY <4>2, <4>3, <4>4, NeededReg
      <4> QED BY <4>2, <4>5
    <3>2. v \in Ref /\ v # n
      BY <1>2, <2>3
    <3>3. B.reg[v] = A.reg[v] /\ B.spill = A.spill
      BY <1>3, <3>2
    <3>4. HomeOf(B, v, p)
      BY <2>3, <3>3 DEF HomeOf
    <3> QED BY <3>1, <3>4
  <2> QED BY <1>2, <2>1, <2>2, <2>3
<1> QED BY <1>1, <1>3, <1>4, <1>5, <1>6 DEF Defining

\* The register of the value that is defined is free before it.
LEMMA FreeRegDefines ==
  ASSUME NEW n \in 1..NumIns, NEW A, Settled(A, n), A.reg[n] # NoReg,
         NEW B, B = freeReg(A, A.reg[n])
  PROVE  /\ Defining(B, n, A.reg[n]) /\ B.free = A.free \cup {A.reg[n]} /\ B.reg = A.reg
         /\ B.ok = A.ok
<1>1. A \in RAState /\ (A.clash \/ A.wrong = FALSE) /\ TakenInv(A, n) /\ SlotsInv(A)
  BY NotVoid DEF Settled
<1>2. n \in Ref /\ n \in Live(n) /\ Live(n) \subseteq Ref /\ n \notin Live(n - 1) /\ Live(n - 1) \subseteq Live(n)
      /\ (\A v \in Live(n) : v = n \/ v \in Live(n - 1))
  BY LiveBefore
<1>3. PICK d \in kGPR : d = A.reg[n] /\ A.cost[d] = n
  BY <1>1, <1>2, StateFacts DEF TakenInv
<1>4. /\ B \in RAState /\ B.free = A.free \cup {d} /\ B.r = d /\ B.cost = A.cost
      /\ B.spills = A.spills /\ B.spill = A.spill /\ B.ok = A.ok /\ B.need = A.need
      /\ B.wrong = A.wrong /\ B.clash = A.clash /\ B.reg = A.reg
  BY <1>1, <1>3, FreeRegFields
<1>5. TakenInv(B, n - 1)
  <2>1. ASSUME NEW q \in kGPR, q \notin B.free PROVE A.cost[q] \in Live(n - 1) /\ A.reg[A.cost[q]] = q
    <3>1. A.cost[q] \in Live(n) /\ A.reg[A.cost[q]] = q
      BY <1>1, <1>4, <2>1 DEF TakenInv
    <3>2. q # d
      BY <1>4, <2>1
    <3> QED BY <1>2, <1>3, <3>1, <3>2
  <2>2. ASSUME NEW w \in Live(n - 1), A.reg[w] # NoReg
        PROVE  A.reg[w] \notin B.free /\ A.cost[A.reg[w]] = w
    <3>1. A.reg[w] \notin A.free /\ A.cost[A.reg[w]] = w
      BY <1>1, <1>2, <2>2 DEF TakenInv
    <3>2. A.reg[w] # d
      BY <1>2, <1>3, <3>1
    <3> QED BY <1>4, <3>1, <3>2
  <2> QED BY <1>4, <2>1, <2>2 DEF TakenInv
<1>6. SlotsInv(B)
  BY <1>1, <1>4 DEF SlotsInv
<1>7. ASSUME NEW p, NEW v, <<p, v>> \in A.need
      PROVE  \/ A.clash
             \/ ~ A.ok /\ p \in Lost
             \/ p = Reg(d) /\ v = n
             \/ B.spill[n] # 0 /\ p = Spill(B.spill[n]) /\ v = n
             \/ v \in Live(n - 1) /\ p # Reg(d) /\ HomeOf(B, v, p)
  <2>1. A.clash \/ (~ A.ok /\ p \in Lost) \/ (v \in Live(n) /\ HomeOf(A, v, p))
    BY <1>7, SettledNeed
  <2>2. ASSUME v = n, HomeOf(A, v, p)
        PROVE  p = Reg(d) \/ (B.spill[n] # 0 /\ p = Spill(B.spill[n]))
    BY <1>3, <1>4, <2>2 DEF HomeOf
  <2>3. ASSUME ~ A.clash, v \in Live(n - 1), HomeOf(A, v, p) PROVE p # Reg(d) /\ HomeOf(B, v, p)
    <3>1. p # Reg(d)
      <4>1. SUFFICES ASSUME p = Reg(d) PROVE FALSE
        OBVIOUS
      <4>2. d # NoReg
        BY PlaceTypes
      <4>3. A.cost[d] = v
        BY <1>7, <2>3, <4>1, <4>2, NeededReg, PlaceTypes DEF Settled, Void
      <4> QED BY <1>2, <1>3, <2>3, <4>3
    <3> QED BY <1>4, <2>3, <3>1 DEF HomeOf
  <2> QED BY <1>2, <2>1, <2>2, <2>3
<1> QED BY <1>1, <1>3, <1>4, <1>5, <1>6, <1>7 DEF Defining

\* A value that has a spill slot is stored there when it is defined; then it
\* is needed in its register only (saveReg).
LEMMA SaveRegKeeps ==
  ASSUME NEW n \in 1..NumIns, NEW A, NEW d, Defining(A, n, d), NEW B, B = saveReg(A, n)
  PROVE  AllocInv(B, n - 1, d, n) /\ SameAlloc(A, B)
<1>1. /\ A \in RAState /\ (A.clash \/ A.wrong = FALSE) /\ TakenInv(A, n - 1) /\ SlotsInv(A) /\ d \in kGPR /\ A.r = d
  BY DEF Defining
<1>2. n \in Ref /\ n \notin Live(n - 1) /\ Live(n - 1) \subseteq Ref
  BY LiveBefore
<1>3. d # NoReg
  BY <1>1, PlaceTypes
<1>4. CASE A.spill[n] = 0
  <2>1. B = A
    BY <1>4 DEF saveReg
  <2>2. A.clash \/ NeedInv(A, n - 1, d, n)
    BY <1>3, <1>4 DEF Defining, NeedInv
  <2> QED BY <1>1, <2>1, <2>2 DEF AllocInv, SameAlloc, Void
<1>5. CASE A.spill[n] # 0
  <2>1. PICK s : s = A.spill[n]
    OBVIOUS
  <2>2. B = Copy(A, Spill(s), Reg(d))
    BY <1>1, <1>5, <2>1 DEF saveReg
  <2>3. s \in 0..NumSpills /\ s # 0
    BY <1>1, <1>2, <1>5, <2>1, StateFacts
  <2>4. Spill(s) \in Place /\ Reg(d) \in Place /\ Spill(s) \notin Lost
    BY <1>1, <2>3, PlaceTypes
  <2>5. Reg(d)[1] # "imm"
    BY PlaceFacts
  <2>6. /\ B \in RAState /\ SameAlloc(A, B) /\ B.wrong = A.wrong
        /\ \A p, v : <<p, v>> \in B.need =>
             (<<p, v>> \in A.need /\ p # Spill(s)) \/ (p = Reg(d) /\ <<Spill(s), v>> \in A.need)
    <3>1. Moved(A, B, Spill(s), Reg(d))
      BY <1>1, <2>2, <2>4, <2>5, CopyPlace
    <3> QED BY <3>1 DEF Moved
  <2>7. ASSUME NEW p, NEW v, <<p, v>> \in A.need, p # Spill(s)
        PROVE  \/ A.clash
               \/ ~ A.ok /\ p \in Lost
               \/ p = Reg(d) /\ v = n
               \/ v \in Live(n - 1) /\ p # Reg(d) /\ HomeOf(A, v, p)
    BY <2>1, <2>7 DEF Defining
  <2>8. ASSUME ~ A.clash, NEW v, <<Spill(s), v>> \in A.need PROVE v = n
    <3>1. v = n \/ (v \in Live(n - 1) /\ HomeOf(A, v, Spill(s)))
      BY <2>4, <2>8, PlaceFacts DEF Defining
    <3>2. ASSUME v \in Live(n - 1), HomeOf(A, v, Spill(s)) PROVE v = n
      <4>1. A.spill[v] = s
        BY <3>2, PlaceFacts DEF HomeOf
      <4> QED BY <1>1, <1>2, <2>1, <2>3, <3>2, <4>1 DEF SlotsInv
    <3> QED BY <3>1, <3>2
  <2>9. ASSUME NEW p, NEW v, HomeOf(A, v, p) PROVE HomeOf(B, v, p)
    BY <2>6, <2>9 DEF HomeOf, SameAlloc
  <2>10. ASSUME ~ A.clash PROVE NeedInv(B, n - 1, d, n)
    <3> SUFFICES ASSUME NEW p, NEW v, <<p, v>> \in B.need
                 PROVE  \/ ~ B.ok /\ p \in Lost
                        \/ d # NoReg /\ p = Reg(d) /\ v = n
                        \/ v \in Live(n - 1) /\ p # Reg(d) /\ HomeOf(B, v, p)
      BY DEF NeedInv
    <3>1. B.ok = A.ok
      BY <2>6 DEF SameAlloc
    <3>2. (<<p, v>> \in A.need /\ p # Spill(s)) \/ (p = Reg(d) /\ <<Spill(s), v>> \in A.need)
      BY <2>6
    <3>3. CASE <<p, v>> \in A.need /\ p # Spill(s)
      BY <1>3, <2>7, <2>9, <2>10, <3>1, <3>3
    <3>4. CASE p = Reg(d) /\ <<Spill(s), v>> \in A.need
      BY <1>3, <2>8, <2>10, <3>4
    <3> QED BY <3>2, <3>3, <3>4
  <2>11. TakenInv(B, n - 1) /\ SlotsInv(B)
    BY <1>1, <2>6 DEF TakenInv, SlotsInv, SameAlloc
  <2>12. B.clash = A.clash
    BY <2>6 DEF SameAlloc
  <2> QED BY <1>1, <2>6, <2>10, <2>11, <2>12 DEF AllocInv, Void
<1> QED BY <1>4, <1>5

\* B is the state after n got the register B.r at its definition.
Dest(A, B, n, allow) ==
  /\ AllocInv(B, n - 1, B.r, n)
  /\ B.r \in kGPR /\ B.r \in B.free
  /\ B.r \in allow \/ B.r = A.reg[n]
  /\ \A q \in A.free : q \in B.free
  /\ \A w \in Ref : w # n => B.reg[w] = A.reg[w] \/ (B.reg[w] = NoReg /\ A.reg[w] \in allow)

\* destReg finds the register for the value that an instruction defines: it
\* is free, and waits for the value.
LEMMA DestKeeps ==
  ASSUME NEW n \in 1..NumIns, NEW A, Settled(A, n), NEW allow \in SUBSET kGPR, allow # {},
         NEW B, B = destReg(A, n, allow)
  PROVE  Dest(A, B, n, allow)
<1>1. n \in Int /\ n <= NumIns /\ n \in Ref
  BY LiveBefore
<1>2. A \in RAState
  BY DEF Settled, AllocInv
<1>3. PICK D : D = pickDest(A, n, allow)
  OBVIOUS
<1>4. B = saveReg(D, n)
  BY <1>3 DEF destReg
<1>5. \E d \in kGPR :
        /\ Defining(D, n, d)
        /\ d \in allow \/ d = A.reg[n]
        /\ \A q \in A.free : q \in D.free
        /\ \A w \in Ref : w # n => D.reg[w] = A.reg[w] \/ (D.reg[w] = NoReg /\ A.reg[w] \in allow)
  <2>1. CASE A.reg[n] # NoReg
    <3>1. D = freeReg(A, A.reg[n])
      BY <1>3, <2>1 DEF pickDest, isReg
    <3>2. /\ Defining(D, n, A.reg[n]) /\ D.free = A.free \cup {A.reg[n]} /\ D.reg = A.reg
      BY <2>1, <3>1, FreeRegDefines
    <3>3. A.reg[n] \in kGPR
      BY <1>1, <1>2, <2>1, StateFacts
    <3> QED BY <3>2, <3>3
  <2>2. CASE A.reg[n] = NoReg
    <3>1. PICK h : h = getHint(A.hint[n])
      OBVIOUS
    <3>2. PICK C : C = IF A.hint[n] # NoReg /\ h \in A.free \cap allow THEN [A EXCEPT !.r = h]
                       ELSE allocScratchReg(A, allow)
      OBVIOUS
    <3>3. D = SetReg(C, n)
      BY <1>3, <2>2, <3>1, <3>2 DEF pickDest, isReg
    <3>4. /\ Settled(C, n) /\ C.r \in allow /\ C.r \in C.free /\ \A q \in A.free : q \in C.free
          /\ \A w \in Ref : C.reg[w] = A.reg[w] \/ (C.reg[w] = NoReg /\ A.reg[w] \in allow)
      <4>1. CASE A.hint[n] # NoReg /\ h \in A.free \cap allow
        <5>1. C = [A EXCEPT !.r = h] /\ h \in kGPR \cup {NoReg}
          BY <3>2, <4>1
        <5>2. Settled(C, n) /\ C.r = h /\ C.free = A.free /\ C.reg = A.reg
          BY <5>1, SetRKeeps DEF Settled
        <5> QED BY <4>1, <5>2
      <4>2. CASE ~ (A.hint[n] # NoReg /\ h \in A.free \cap allow)
        <5>1. C = allocScratchReg(A, allow)
          BY <3>2, <4>2
        <5> QED BY <1>1, <5>1, ScratchKeeps DEF Settled, Cleared
      <4> QED BY <4>1, <4>2
    <3>5. C.reg[n] = NoReg
      BY <1>1, <2>2, <3>4
    <3>6. C.r \in kGPR
      BY <3>4
    <3>7. Defining(D, n, C.r) /\ D.free = C.free /\ \A w \in Ref : w # n => D.reg[w] = C.reg[w]
      BY <3>3, <3>4, <3>5, <3>6, SetRegDefines
    <3> QED BY <3>4, <3>6, <3>7
  <2> QED BY <2>1, <2>2
<1>6. PICK d \in kGPR :
        /\ Defining(D, n, d)
        /\ d \in allow \/ d = A.reg[n]
        /\ \A q \in A.free : q \in D.free
        /\ \A w \in Ref : w # n => D.reg[w] = A.reg[w] \/ (D.reg[w] = NoReg /\ A.reg[w] \in allow)
  BY <1>5
<1>7. AllocInv(B, n - 1, d, n) /\ SameAlloc(D, B)
  BY <1>4, <1>6, SaveRegKeeps
<1>8. D.r = d /\ d \in D.free
  BY <1>6 DEF Defining
<1> QED BY <1>6, <1>7, <1>8 DEF Dest, SameAlloc

\* The register of a waiting value gets the content of the register of the
\* value it waits for.
LEMMA MoveKeeps ==
  ASSUME NEW A, NEW c \in Int, c <= NumIns, NEW d \in kGPR, NEW l \in Live(c), AllocInv(A, c, d, l),
         A.r \in kGPR, A.reg[l] = A.r, NEW B, B = MoveTo(A, d)
  PROVE  Settled(B, c)
<1>0. ASSUME A.clash PROVE Settled(B, c)
  <2>1. B \in RAState /\ SameAlloc(A, B)
    <3>1. A \in RAState
      BY DEF AllocInv
    <3>2. CASE A.r = d
      BY <3>1, <3>2 DEF MoveTo, SameAlloc
    <3>3. CASE A.r # d
      <4>1. B = Copy(A, Reg(d), Reg(A.r)) /\ Reg(d) \in Place /\ Reg(A.r) \in Place
        BY <3>3, PlaceTypes DEF MoveTo
      <4> QED BY <3>1, <4>1, CopyFields
    <3> QED BY <3>2, <3>3
  <2> QED BY <1>0, <2>1, VoidKeeps DEF Settled
<1> SUFFICES ASSUME ~ A.clash PROVE Settled(B, c)
  BY <1>0
<1>1. A \in RAState /\ A.wrong = FALSE /\ TakenInv(A, c) /\ SlotsInv(A) /\ NeedInv(A, c, d, l)
  BY NotVoid
<1>2. A.r # NoReg /\ d # NoReg
  BY PlaceTypes
<1>3. HomeOf(A, l, Reg(A.r))
  BY <1>2 DEF HomeOf
<1>4. CASE A.r = d
  <2>1. B = A
    BY <1>4 DEF MoveTo
  <2>2. ASSUME NEW p, NEW v, <<p, v>> \in A.need
        PROVE  (~ A.ok /\ p \in Lost) \/ (v \in Live(c) /\ HomeOf(A, v, p))
    BY <1>1, <1>3, <1>4, <2>2 DEF NeedInv
  <2>3. ASSUME NEW v, NEW p, HomeOf(A, v, p), v \in Live(c) PROVE p # Reg(NoReg)
    BY <2>3, PlaceFacts DEF HomeOf
  <2>4. NeedInv(A, c, NoReg, 0)
    BY <2>2, <2>3 DEF NeedInv
  <2> QED BY <1>1, <2>1, <2>4 DEF Settled, AllocInv
<1>5. CASE A.r # d
  <2>1. B = Copy(A, Reg(d), Reg(A.r))
    BY <1>5 DEF MoveTo
  <2>2. Reg(d) \in Place /\ Reg(A.r) \in Place /\ Reg(A.r)[1] # "imm" /\ Reg(d) \notin Lost
    BY PlaceTypes, PlaceFacts
  <2>3. /\ B \in RAState /\ SameAlloc(A, B) /\ B.wrong = A.wrong
        /\ \A p, v : <<p, v>> \in B.need =>
             (<<p, v>> \in A.need /\ p # Reg(d)) \/ (p = Reg(A.r) /\ <<Reg(d), v>> \in A.need)
    <3>1. Moved(A, B, Reg(d), Reg(A.r))
      BY <1>1, <2>1, <2>2, CopyPlace
    <3> QED BY <3>1 DEF Moved
  <2>4. ASSUME NEW v, <<Reg(d), v>> \in A.need PROVE v = l
    BY <1>1, <2>2, <2>4 DEF NeedInv
  <2>5. ASSUME NEW p, NEW v, <<p, v>> \in B.need
        PROVE  (~ A.ok /\ p \in Lost) \/ (v \in Live(c) /\ HomeOf(A, v, p))
    <3>1. (<<p, v>> \in A.need /\ p # Reg(d)) \/ (p = Reg(A.r) /\ <<Reg(d), v>> \in A.need)
      BY <2>3, <2>5
    <3>2. CASE <<p, v>> \in A.need /\ p # Reg(d)
      BY <1>1, <3>2 DEF NeedInv
    <3>3. CASE p = Reg(A.r) /\ <<Reg(d), v>> \in A.need
      <4>1. v = l
        BY <2>4, <3>3
      <4> QED BY <1>3, <3>3, <4>1
    <3> QED BY <3>1, <3>2, <3>3
  <2>6. ASSUME NEW v, NEW p, HomeOf(A, v, p), v \in Live(c) PROVE p # Reg(NoReg) /\ HomeOf(B, v, p)
    BY <2>3, <2>6, PlaceFacts DEF HomeOf, SameAlloc
  <2>7. NeedInv(B, c, NoReg, 0)
    BY <2>3, <2>5, <2>6 DEF NeedInv, SameAlloc
  <2>8. TakenInv(B, c) /\ SlotsInv(B)
    BY <1>1, <2>3 DEF TakenInv, SlotsInv, SameAlloc
  <2> QED BY <1>1, <2>3, <2>7, <2>8 DEF Settled, AllocInv
<1> QED BY <1>4, <1>5

\* A hint is no more than that.
LEMMA SetHintKeeps ==
  ASSUME NEW A, NEW c, NEW d, NEW x, AllocInv(A, c, d, x), NEW v \in Ref, NEW h \in kGPR,
         NEW B, B = [A EXCEPT !.hint[v] = h]
  PROVE  AllocInv(B, c, d, x) /\ B.free = A.free /\ B.reg = A.reg /\ B.clash = A.clash
<1>1. A \in RAState
  BY DEF AllocInv
<1>2. PICK f : f = [A.hint EXCEPT ![v] = h]
  OBVIOUS
<1>3. f \in [Ref -> kGPR \cup {NoReg}]
  BY <1>1, <1>2, StateFacts
<1>4. B = [A EXCEPT !.hint = f]
  BY <1>2
<1>5. /\ B \in RAState /\ B.free = A.free /\ B.cost = A.cost /\ B.reg = A.reg
      /\ B.need = A.need /\ B.spill = A.spill /\ B.spills = A.spills
      /\ B.ok = A.ok /\ B.wrong = A.wrong /\ B.clash = A.clash
  BY <1>1, <1>3, <1>4 DEF RAState
<1> QED BY <1>5 DEF AllocInv, TakenInv, SlotsInv, NeedInv, HomeOf, Void

\* A literal that has no register is loaded to the waiting one.
LEMMA LoadLiteral ==
  ASSUME NEW A, NEW c \in Int, c <= NumIns, NEW d \in kGPR, d \in A.free, NEW l \in Lits, AllocInv(A, c, d, l),
         A.reg[l] = NoReg, NEW B, B = rematConstant([A EXCEPT !.reg[l] = d], l)
  PROVE  Settled(B, c)
<1>1. /\ A \in RAState /\ TakenInv(A, c) /\ SlotsInv(A)
      /\ A.clash \/ (A.wrong = FALSE /\ NeedInv(A, c, d, l))
  BY NotVoid
<1>2. l \in Ref /\ d # NoReg
  BY RefFacts, PlaceTypes
<1>3. PICK A1 : A1 = [A EXCEPT !.reg[l] = d]
  OBVIOUS
<1>4. PICK m : m = [A.reg EXCEPT ![l] = d]
  OBVIOUS
<1>5. m \in [Ref -> kGPR \cup {NoReg}] /\ m[l] = d /\ \A w \in Ref : w # l => m[w] = A.reg[w]
  BY <1>1, <1>2, <1>4, StateFacts
<1>6. A1 = [A EXCEPT !.reg = m]
  BY <1>3, <1>4
<1>7. /\ A1 \in RAState /\ A1.free = A.free /\ A1.cost = A.cost /\ A1.reg = m
      /\ A1.need = A.need /\ A1.spill = A.spill /\ A1.spills = A.spills
      /\ A1.ok = A.ok /\ A1.wrong = A.wrong /\ A1.clash = A.clash
  BY <1>1, <1>5, <1>6 DEF RAState
<1>8. PICK F : F = SetHint(freeReg(A1, d), l, NoReg)
  OBVIOUS
<1>9. /\ F \in RAState /\ F.free = A.free \cup {d} /\ F.cost = A.cost
      /\ F.spills = A.spills /\ F.spill = A.spill /\ F.ok = A.ok /\ F.need = A.need
      /\ F.wrong = A.wrong /\ F.clash = A.clash /\ F.reg[l] = NoReg /\ \A w \in Ref : w # l => F.reg[w] = A.reg[w]
  <2>1. NoReg \in kGPR \cup {NoReg}
    OBVIOUS
  <2> QED BY <1>2, <1>5, <1>7, <1>8, <2>1, ReleaseFields
<1>10. \A w \in Ref : F.reg[w] = A.reg[w]
  BY <1>9
<1>11. B = Copy(F, Reg(d), Imm(l))
  <2>1. A1.reg[l] = d
    BY <1>5, <1>7
  <2>2. B = rematConstant(A1, l)
    BY <1>3
  <2> QED BY <1>8, <2>1, <2>2 DEF rematConstant
<1>12. Reg(d) \in Place /\ Reg(d) \notin Lost
  BY PlaceTypes
<1>13. A.clash \/ \A v : <<Reg(d), v>> \in F.need => v = l
  BY <1>1, <1>9, <1>12 DEF NeedInv
<1>14. /\ B \in RAState /\ SameAlloc(F, B) /\ (A.clash \/ B.wrong = FALSE)
       /\ \A p, v : <<p, v>> \in B.need => <<p, v>> \in A.need /\ p # Reg(d)
  <2>1. PICK s : s = Imm(l)
    OBVIOUS
  <2>2. s[1] = "imm" /\ s[2] = l /\ B = Copy(F, Reg(d), s)
    BY <1>11, <2>1, PlaceFacts
  <2>3. PICK q : q = Reg(d)
    OBVIOUS
  <2>4. q \in Place /\ F \in RAState /\ B = Copy(F, q, s)
    BY <1>9, <1>12, <2>2, <2>3
  <2>5. /\ Copy(F, q, s) \in RAState /\ SameAlloc(F, Copy(F, q, s))
        /\ \A p, v : <<p, v>> \in Copy(F, q, s).need =>
              \/ <<p, v>> \in F.need /\ p # q
              \/ s[1] # "imm" /\ p = s /\ <<q, v>> \in F.need
        /\ (\A v : <<q, v>> \in F.need => v = s[2]) => Copy(F, q, s).wrong = F.wrong
    <3>1. s[1] = "imm" \/ s \in Place \cup Lost
      BY <2>2
    <3> QED BY <2>4, <3>1, CopyFields
  <2>6. A.clash \/ B.wrong = F.wrong
    BY <1>13, <2>2, <2>3, <2>4, <2>5
  <2>7. \A p, v : <<p, v>> \in B.need => <<p, v>> \in A.need /\ p # Reg(d)
    BY <1>9, <2>2, <2>3, <2>4, <2>5
  <2> QED BY <1>1, <1>9, <2>4, <2>5, <2>6, <2>7
<1>15. Live(c) \subseteq Ref
  BY LiveFacts
<1>16. TakenInv(B, c) /\ SlotsInv(B)
  <2>1. B.free = A.free /\ B.cost = A.cost /\ B.spill = A.spill /\ B.spills = A.spills
    BY <1>9, <1>14 DEF SameAlloc
  <2>2. \A w \in Ref : B.reg[w] = A.reg[w]
    BY <1>10, <1>14 DEF SameAlloc
  <2> QED BY <1>1, <1>15, <2>1, <2>2 DEF TakenInv, SlotsInv
<1>17. ASSUME ~ A.clash PROVE NeedInv(B, c, NoReg, 0)
  <2> SUFFICES ASSUME NEW p, NEW v, <<p, v>> \in B.need
               PROVE  \/ ~ B.ok /\ p \in Lost
                      \/ v \in Live(c) /\ p # Reg(NoReg) /\ HomeOf(B, v, p)
    BY DEF NeedInv
  <2>1. <<p, v>> \in A.need /\ p # Reg(d)
    BY <1>14
  <2>2. (~ A.ok /\ p \in Lost) \/ (v \in Live(c) /\ HomeOf(A, v, p))
    BY <1>1, <1>17, <2>1 DEF NeedInv
  <2>3. B.ok = A.ok
    BY <1>9, <1>14 DEF SameAlloc
  <2>4. ASSUME v \in Live(c), HomeOf(A, v, p) PROVE p # Reg(NoReg) /\ HomeOf(B, v, p)
    <3>1. B.reg[v] = A.reg[v] /\ B.spill = A.spill
      BY <1>9, <1>10, <1>14, <1>15, <2>4 DEF SameAlloc
    <3> QED BY <2>4, <3>1, PlaceFacts DEF HomeOf
  <2> QED BY <2>2, <2>3, <2>4
<1>18. B.clash = A.clash
  BY <1>9, <1>14 DEF SameAlloc
<1> QED BY <1>14, <1>16, <1>17, <1>18 DEF Settled, AllocInv, Void

\* The left operand of an instruction with two operands comes to be in the
\* register of its result (allocLeft).
LEMMA AllocLeftKeeps ==
  ASSUME NEW A, NEW c \in Int, c <= NumIns, NEW d \in kGPR, NEW l \in Live(c), AllocInv(A, c, d, l),
         d \in A.free \/ A.reg[l] = d \/ (A.clash /\ l \notin Lits),
         NEW B, B = allocLeft(A, d, l)
  PROVE  Settled(B, c)
<1>1. A \in RAState /\ l \in Ref
  BY LiveFacts DEF AllocInv
<1>2. CASE A.reg[l] = NoReg /\ l \in Lits
  <2>1. B = rematConstant([A EXCEPT !.reg[l] = d], l)
    BY <1>1, <1>2, RefFacts DEF allocLeft, isReg
  <2>2. d \in A.free
    BY <1>2, PlaceTypes
  <2> QED BY <1>2, <2>1, <2>2, LoadLiteral
<1>3. CASE A.reg[l] # NoReg
  <2>1. PICK r \in kGPR : r = A.reg[l]
    BY <1>1, <1>3, StateFacts
  <2>2. PICK C : C = [A EXCEPT !.r = r]
    OBVIOUS
  <2>3. AllocInv(C, c, d, l) /\ C.r = r /\ C.reg = A.reg
    BY <2>2, SetRKeeps
  <2>4. B = MoveTo(C, d)
    BY <1>3, <2>1, <2>2 DEF allocLeft, isReg
  <2>5. C.r \in kGPR /\ C.reg[l] = C.r
    BY <2>1, <2>3
  <2> QED BY <2>3, <2>4, <2>5, MoveKeeps
<1>4. CASE A.reg[l] = NoReg /\ l \notin Lits
  <2>1. PICK H : H = IF A.hint[l] = NoReg THEN [A EXCEPT !.hint[l] = d] ELSE A
    OBVIOUS
  <2>2. AllocInv(H, c, d, l) /\ H.free = A.free /\ H.reg = A.reg /\ H.clash = A.clash
    <3>1. CASE A.hint[l] = NoReg
      <4>1. H = [A EXCEPT !.hint[l] = d]
        BY <2>1, <3>1
      <4> QED BY <1>1, <4>1, SetHintKeeps
    <3>2. CASE A.hint[l] # NoReg
      BY <2>1, <3>2
    <3> QED BY <3>1, <3>2
  <2>3. PICK C : C = allocRef(H, l, kGPR)
    OBVIOUS
  <2>4. B = MoveTo(C, d)
    BY <1>1, <1>4, <2>1, <2>3, RefFacts DEF allocLeft, isReg
  <2>5. AllocInv(C, c, d, l) /\ Taking(H, C, l, kGPR)
    <3>1. H.reg[l] = NoReg /\ kGPR # {} /\ kGPR \in SUBSET kGPR
      BY <1>4, <2>2
    <3>2. CASE d \in A.free
      BY <2>2, <2>3, <3>1, <3>2, AllocRefKeeps
    <3>3. CASE A.clash
      <4>1. AllocInv(H, c, Gone, 0)
        BY <2>2, <3>3 DEF AllocInv, Void
      <4>2. AllocInv(C, c, Gone, 0) /\ Taking(H, C, l, kGPR) /\ Later(H, C)
        BY <2>3, <3>1, <4>1, AllocRefKeeps
      <4> QED BY <2>2, <3>3, <4>2 DEF AllocInv, Void, Later
    <3> QED BY <1>4, <3>2, <3>3, PlaceTypes
  <2>6. C.r \in kGPR /\ C.reg[l] = C.r
    BY <2>5 DEF Taking
  <2> QED BY <2>4, <2>5, <2>6, MoveKeeps
<1> QED BY <1>2, <1>3, <1>4

\* No live value has a register that is free.
LEMMA FreeIsNoHome ==
  ASSUME NEW A, NEW c, NEW d, NEW x, AllocInv(A, c, d, x), NEW e, e \in A.free, NEW v \in Live(c)
  PROVE  A.reg[v] # e /\ ~ HomeOf(A, v, Reg(e))
<1>1. e \in kGPR /\ e # NoReg
  BY StateFacts, PlaceTypes DEF AllocInv
<1>2. A.reg[v] # e
  BY <1>1 DEF AllocInv, TakenInv
<1> QED BY <1>2, PlaceFacts DEF HomeOf

\* u can be fetched while the value l waits for the register e.
Fetched(A, c, e, l, u) ==
  \/ u[1][1] = "imm"
  \/ u = <<Reg(e), l>>
  \/ \E p, v : u = <<p, v>> /\ v \in Live(c) /\ HomeOf(A, v, p)

\* What is needed, while a register waits for a value.
LEMMA PendingNeed ==
  ASSUME NEW A, NEW c, NEW d \in kGPR, NEW x, AllocInv(A, c, d, x), ~ A.clash,
         NEW p, NEW v, <<p, v>> \in A.need
  PROVE  /\ p = Reg(d) => v = x
         /\ p # Reg(d) => (~ A.ok /\ p \in Lost) \/ (v \in Live(c) /\ HomeOf(A, v, p))
<1>1. Reg(d) \notin Lost
  BY PlaceTypes
<1> QED BY <1>1, NotVoid DEF NeedInv

\* The instruction that defines n in d is emitted, and the register e waits
\* for its left operand.
LEMMA ComputeKeeps ==
  ASSUME NEW A, NEW c \in Int, c <= NumIns, NEW d \in kGPR, NEW n, AllocInv(A, c, d, n),
         NEW e \in kGPR, e \in A.free, NEW l \in Live(c),
         NEW use, \A u \in use : Fetched(A, c, e, l, u),
         NEW clobber, \A p \in clobber : \E q \in A.free : q # d /\ p = Reg(q),
         NEW B, B = Compute(A, d, n, use, clobber)
  PROVE  AllocInv(B, c, e, l) /\ SameAlloc(A, B)
<1>1. A \in RAState /\ (A.clash \/ A.wrong = FALSE) /\ TakenInv(A, c) /\ SlotsInv(A) /\ A.free \subseteq kGPR
  BY NotVoid, StateFacts
<1>2. e # NoReg /\ Live(c) \subseteq Ref /\ Reg(e) \in Place
  BY PlaceTypes, LiveFacts
<1>3. \A u \in use : u[1][1] = "imm" \/ u \in (Place \cup Lost) \X Ref
  <2> SUFFICES ASSUME NEW u \in use, u[1][1] # "imm" PROVE u \in (Place \cup Lost) \X Ref
    OBVIOUS
  <2>1. CASE u = <<Reg(e), l>>
    BY <1>2, <2>1
  <2>2. CASE \E p, v : u = <<p, v>> /\ v \in Live(c) /\ HomeOf(A, v, p)
    BY <1>1, <1>2, <2>2, HomeIsPlace
  <2> QED BY <2>1, <2>2 DEF Fetched
<1>9. ASSUME A.clash PROVE AllocInv(B, c, e, l) /\ SameAlloc(A, B)
  <2>1. B \in RAState /\ SameAlloc(A, B)
    BY <1>1, <1>3, ComputeFields
  <2> QED BY <1>9, <2>1, VoidKeeps
<1> SUFFICES ASSUME ~ A.clash PROVE AllocInv(B, c, e, l) /\ SameAlloc(A, B)
  BY <1>9
<1>4. ASSUME NEW p, NEW v, <<p, v>> \in A.need PROVE (p = Reg(d) => v = n) /\ p \notin clobber
  <2>1. ASSUME p \in clobber PROVE FALSE
    <3>1. PICK q \in A.free : q # d /\ p = Reg(q)
      BY <2>1
    <3>2. q \in kGPR /\ <<Reg(q), v>> \in A.need
      BY <1>1, <1>4, <3>1
    <3>3. ~ Void(A, d)
      BY NotVoid
    <3>4. q \notin A.free
      BY <3>1, <3>2, <3>3, NeededReg
    <3> QED BY <3>1, <3>4
  <2> QED BY <1>4, <2>1, PendingNeed
<1>5. /\ B \in RAState /\ SameAlloc(A, B) /\ B.wrong = A.wrong
      /\ \A p, v : <<p, v>> \in B.need =>
           \/ <<p, v>> \in A.need /\ p # Reg(d)
           \/ <<p, v>> \in use /\ p[1] # "imm"
  BY <1>1, <1>3, <1>4, ComputeFields
<1>6. \A v \in Live(c) : ~ HomeOf(A, v, Reg(e))
  BY FreeIsNoHome
<1>7. NeedInv(B, c, e, l)
  <2> SUFFICES ASSUME NEW p, NEW v, <<p, v>> \in B.need
               PROVE  \/ ~ B.ok /\ p \in Lost
                      \/ e # NoReg /\ p = Reg(e) /\ v = l
                      \/ v \in Live(c) /\ p # Reg(e) /\ HomeOf(B, v, p)
    BY DEF NeedInv
  <2>1. B.ok = A.ok
    BY <1>5 DEF SameAlloc
  <2>2. HomeOf(A, v, p) => HomeOf(B, v, p)
    BY <1>5 DEF SameAlloc, HomeOf
  <2>3. ASSUME v \in Live(c), HomeOf(A, v, p) PROVE p # Reg(e)
    BY <1>6, <2>3
  <2>4. CASE <<p, v>> \in A.need /\ p # Reg(d)
    BY <2>1, <2>2, <2>3, <2>4, PendingNeed
  <2>5. CASE <<p, v>> \in use /\ p[1] # "imm"
    <3>1. <<p, v>> = <<Reg(e), l>> \/ \E q, w : <<p, v>> = <<q, w>> /\ w \in Live(c) /\ HomeOf(A, w, q)
      BY <2>5 DEF Fetched
    <3>2. (p = Reg(e) /\ v = l) \/ (v \in Live(c) /\ HomeOf(A, v, p))
      BY <3>1
    <3> QED BY <1>2, <2>2, <2>3, <3>2
  <2> QED BY <1>5, <2>4, <2>5
<1>8. TakenInv(B, c) /\ SlotsInv(B)
  BY <1>1, <1>5 DEF TakenInv, SlotsInv, SameAlloc
<1> QED BY <1>1, <1>5, <1>7, <1>8 DEF AllocInv

\* An operand that is in the register of its value, or an immediate.
Ready(A, c, u) ==
  \/ u[1][1] = "imm"
  \/ \E w \in Live(c) : u = <<Reg(A.reg[w]), w>> /\ A.reg[w] # NoReg
  \/ A.clash /\ u \in (Place \cup Lost) \X Ref

\* The instruction that defines n in d is emitted, and its operands are
\* where the allocator keeps them.
LEMMA ComputeDone ==
  ASSUME NEW A, NEW c \in Int, c <= NumIns, NEW d \in kGPR, NEW n, AllocInv(A, c, d, n),
         NEW use, \A u \in use : Ready(A, c, u),
         NEW B, B = Compute(A, d, n, use, {})
  PROVE  Settled(B, c) /\ SameAlloc(A, B)
<1>1. A \in RAState /\ (A.clash \/ A.wrong = FALSE) /\ TakenInv(A, c) /\ SlotsInv(A)
  BY NotVoid
<1>2. Live(c) \subseteq Ref
  BY LiveFacts
<1>3. \A u \in use : \/ u[1][1] = "imm" \/ \E p, v : u = <<p, v>> /\ v \in Live(c) /\ HomeOf(A, v, p)
                     \/ A.clash /\ u \in (Place \cup Lost) \X Ref
  BY DEF Ready, HomeOf
<1>4. \A u \in use : u[1][1] = "imm" \/ u \in (Place \cup Lost) \X Ref
  BY <1>1, <1>2, <1>3, HomeIsPlace
<1>9. PICK clobber : clobber = {}
  OBVIOUS
<1>10. ASSUME A.clash PROVE Settled(B, c) /\ SameAlloc(A, B)
  <2>1. B \in RAState /\ SameAlloc(A, B)
    BY <1>1, <1>4, <1>9, ComputeFields
  <2> QED BY <1>10, <2>1, VoidKeeps DEF Settled
<1> SUFFICES ASSUME ~ A.clash PROVE Settled(B, c) /\ SameAlloc(A, B)
  BY <1>10
<1>5. ASSUME NEW p, NEW v, <<p, v>> \in A.need PROVE (p = Reg(d) => v = n) /\ p \notin clobber
  BY <1>5, <1>9, PendingNeed
<1>6. /\ B \in RAState /\ SameAlloc(A, B) /\ B.wrong = A.wrong
      /\ \A p, v : <<p, v>> \in B.need =>
           \/ <<p, v>> \in A.need /\ p # Reg(d)
           \/ <<p, v>> \in use /\ p[1] # "imm"
  <2>1. B = Compute(A, d, n, use, clobber)
    BY <1>9
  <2>2. \A p, v : <<p, v>> \in A.need => (p = Reg(d) => v = n) /\ p \notin clobber
    BY <1>5
  <2> QED BY <1>1, <1>4, <2>1, <2>2, ComputeFields
<1>7. NeedInv(B, c, NoReg, 0)
  <2> SUFFICES ASSUME NEW p, NEW v, <<p, v>> \in B.need
               PROVE  \/ ~ B.ok /\ p \in Lost
                      \/ v \in Live(c) /\ p # Reg(NoReg) /\ HomeOf(B, v, p)
    BY DEF NeedInv
  <2>1. B.ok = A.ok
    BY <1>6 DEF SameAlloc
  <2>2. HomeOf(A, v, p) => HomeOf(B, v, p)
    BY <1>6 DEF SameAlloc, HomeOf
  <2>3. ASSUME v \in Live(c), HomeOf(A, v, p) PROVE p # Reg(NoReg)
    BY <1>1, <1>2, <2>3, HomeIsPlace
  <2>4. CASE <<p, v>> \in A.need /\ p # Reg(d)
    BY <2>1, <2>2, <2>3, <2>4, PendingNeed
  <2>5. CASE <<p, v>> \in use /\ p[1] # "imm"
    <3>1. v \in Live(c) /\ HomeOf(A, v, p)
      BY <1>3, <2>5
    <3> QED BY <2>2, <2>3, <3>1
  <2> QED BY <1>6, <2>4, <2>5
<1>8. TakenInv(B, c) /\ SlotsInv(B)
  BY <1>1, <1>6 DEF TakenInv, SlotsInv, SameAlloc
<1> QED BY <1>1, <1>6, <1>7, <1>8 DEF Settled, AllocInv

\* The value that waits for d is moved there from e.
LEMMA MovePending ==
  ASSUME NEW A, NEW c \in Int, c <= NumIns, NEW d \in kGPR, NEW x, AllocInv(A, c, d, x),
         NEW e \in kGPR, e \in A.free, e # d, NEW B, B = Copy(A, Reg(d), Reg(e))
  PROVE  AllocInv(B, c, e, x) /\ SameAlloc(A, B)
<1>1. A \in RAState /\ (A.clash \/ A.wrong = FALSE) /\ TakenInv(A, c) /\ SlotsInv(A)
  BY NotVoid
<1>2. e # NoReg /\ Reg(d) \in Place /\ Reg(e) \in Place /\ Reg(e)[1] # "imm"
  BY PlaceTypes, PlaceFacts
<1>3. /\ B \in RAState /\ SameAlloc(A, B) /\ B.wrong = A.wrong
      /\ \A p, v : <<p, v>> \in B.need =>
           (<<p, v>> \in A.need /\ p # Reg(d)) \/ (p = Reg(e) /\ <<Reg(d), v>> \in A.need)
  <2>1. PICK q, s : q = Reg(d) /\ s = Reg(e)
    OBVIOUS
  <2>2. q \in Place /\ s \in Place \cup Lost /\ s[1] # "imm" /\ B = Copy(A, q, s)
    BY <1>2, <2>1
  <2>3. Moved(A, B, q, s)
    BY <1>1, <2>2, CopyPlace
  <2> QED BY <2>1, <2>3 DEF Moved
<1>7. ASSUME A.clash PROVE AllocInv(B, c, e, x) /\ SameAlloc(A, B)
  BY <1>3, <1>7, VoidKeeps
<1> SUFFICES ASSUME ~ A.clash PROVE AllocInv(B, c, e, x) /\ SameAlloc(A, B)
  BY <1>7
<1>4. \A v \in Live(c) : ~ HomeOf(A, v, Reg(e))
  BY FreeIsNoHome
<1>5. NeedInv(B, c, e, x)
  <2> SUFFICES ASSUME NEW p, NEW v, <<p, v>> \in B.need
               PROVE  \/ ~ B.ok /\ p \in Lost
                      \/ e # NoReg /\ p = Reg(e) /\ v = x
                      \/ v \in Live(c) /\ p # Reg(e) /\ HomeOf(B, v, p)
    BY DEF NeedInv
  <2>1. B.ok = A.ok /\ (HomeOf(A, v, p) => HomeOf(B, v, p))
    BY <1>3 DEF SameAlloc, HomeOf
  <2>2. CASE <<p, v>> \in A.need /\ p # Reg(d)
    BY <1>4, <2>1, <2>2, PendingNeed
  <2>3. CASE p = Reg(e) /\ <<Reg(d), v>> \in A.need
    <3>1. Reg(d) \notin Lost /\ NeedInv(A, c, d, x)
      BY PlaceTypes, NotVoid
    <3>2. <<Reg(d), v>> \in A.need
      BY <2>3
    <3>3. v = x
      BY <3>1, <3>2 DEF NeedInv
    <3> QED BY <1>2, <2>3, <3>3
  <2> QED BY <1>3, <2>2, <2>3
<1>6. TakenInv(B, c) /\ SlotsInv(B)
  BY <1>1, <1>3 DEF TakenInv, SlotsInv, SameAlloc
<1> QED BY <1>1, <1>3, <1>5, <1>6 DEF AllocInv

\* A shift by the value r, which is moved from its register right to ecx.
LEMMA ShiftKeeps ==
  ASSUME NEW A, NEW c \in Int, c <= NumIns, NEW d \in kGPR, NEW n, AllocInv(A, c, d, n),
         NEW l \in Live(c), NEW r \in Live(c), NEW right \in kGPR, d # ECX,
         A.clash \/ (A.reg[r] = right /\ ECX \in A.free /\ (d \in A.free \/ (right = d /\ l = r))),
         NEW E, E = Compute(A, d, n, {<<Reg(d), l>>, <<Reg(ECX), r>>}, {}),
         NEW B, B = Copy(E, Reg(ECX), Reg(right))
  PROVE  AllocInv(B, c, d, l) /\ SameAlloc(A, B)
<1>1. A \in RAState /\ (A.clash \/ A.wrong = FALSE) /\ TakenInv(A, c) /\ SlotsInv(A)
  BY NotVoid
<1>2. /\ d # NoReg /\ right # NoReg /\ ECX \in kGPR /\ Live(c) \subseteq Ref /\ Reg(d) \in Place
      /\ Reg(ECX) \in Place /\ Reg(right) \in Place /\ Reg(right)[1] # "imm" /\ Reg(ECX) # Reg(d)
      /\ Reg(ECX) \notin Lost
  BY PlaceTypes, PlaceFacts, LiveFacts
<1>3. PICK use : use = {<<Reg(d), l>>, <<Reg(ECX), r>>}
  OBVIOUS
<1>4. \A u \in use : u[1][1] = "imm" \/ u \in (Place \cup Lost) \X Ref
  BY <1>2, <1>3
<1>14. ASSUME A.clash PROVE AllocInv(B, c, d, l) /\ SameAlloc(A, B)
  <2>1. E \in RAState /\ SameAlloc(A, E)
    <3>1. PICK clobber : clobber = {}
      OBVIOUS
    <3> QED BY <1>1, <1>3, <1>4, <3>1, ComputeFields
  <2>2. B \in RAState /\ SameAlloc(E, B)
    <3>1. PICK q, s : q = Reg(ECX) /\ s = Reg(right)
      OBVIOUS
    <3>2. q \in Place /\ s \in Place \cup Lost /\ s[1] # "imm" /\ B = Copy(E, q, s)
      BY <1>2, <3>1
    <3>3. Moved(E, B, q, s)
      BY <2>1, <3>2, CopyPlace
    <3> QED BY <3>3 DEF Moved
  <2>3. SameAlloc(A, B)
    BY <2>1, <2>2 DEF SameAlloc
  <2> QED BY <1>14, <2>2, <2>3, VoidKeeps
<1> SUFFICES ASSUME ~ A.clash PROVE AllocInv(B, c, d, l) /\ SameAlloc(A, B)
  BY <1>14
<1>5. \A p, v : <<p, v>> \in A.need => (p = Reg(d) => v = n) /\ p \notin {}
  BY PendingNeed
<1>6. /\ E \in RAState /\ SameAlloc(A, E) /\ E.wrong = A.wrong
      /\ \A p, v : <<p, v>> \in E.need =>
           \/ <<p, v>> \in A.need /\ p # Reg(d)
           \/ <<p, v>> \in use /\ p[1] # "imm"
  <2>1. PICK clobber : clobber = {}
    OBVIOUS
  <2>2. E = Compute(A, d, n, use, clobber)
    BY <1>3, <2>1
  <2> QED BY <1>1, <1>4, <1>5, <2>1, <2>2, ComputeFields
<1>7. /\ B \in RAState /\ SameAlloc(E, B) /\ B.wrong = E.wrong
      /\ \A p, v : <<p, v>> \in B.need =>
           (<<p, v>> \in E.need /\ p # Reg(ECX)) \/ (p = Reg(right) /\ <<Reg(ECX), v>> \in E.need)
  <2>1. PICK q, s : q = Reg(ECX) /\ s = Reg(right)
    OBVIOUS
  <2>2. q \in Place /\ s \in Place \cup Lost /\ s[1] # "imm" /\ B = Copy(E, q, s)
    BY <1>2, <2>1
  <2>3. Moved(E, B, q, s)
    BY <1>6, <2>2, CopyPlace
  <2> QED BY <2>1, <2>3 DEF Moved
<1>8. SameAlloc(A, B)
  BY <1>6, <1>7 DEF SameAlloc
<1>9. ASSUME NEW v, <<Reg(ECX), v>> \in A.need PROVE FALSE
  <2>1. ~ Void(A, d)
    BY NotVoid
  <2>2. ECX \notin A.free
    BY <1>2, <1>9, <2>1, NeededReg
  <2> QED BY <2>2
<1>10. ASSUME NEW v, <<Reg(ECX), v>> \in E.need PROVE v = r
  <2>1. <<Reg(ECX), v>> \notin A.need
    BY <1>9
  <2>2. <<Reg(ECX), v>> \in use
    BY <1>6, <1>10, <2>1
  <2>3. <<Reg(ECX), v>> = <<Reg(d), l>> \/ <<Reg(ECX), v>> = <<Reg(ECX), r>>
    BY <1>3, <2>2
  <2> QED BY <1>2, <2>3
<1>11. d \in A.free => Reg(right) # Reg(d)
  <2>1. d \in A.free => right # d
    BY FreeIsNoHome
  <2> QED BY <2>1, PlaceFacts
<1>12. NeedInv(B, c, d, l)
  <2> SUFFICES ASSUME NEW p, NEW v, <<p, v>> \in B.need
               PROVE  \/ ~ B.ok /\ p \in Lost
                      \/ d # NoReg /\ p = Reg(d) /\ v = l
                      \/ v \in Live(c) /\ p # Reg(d) /\ HomeOf(B, v, p)
    BY DEF NeedInv
  <2>1. B.ok = A.ok /\ (HomeOf(A, v, p) => HomeOf(B, v, p))
    BY <1>8 DEF SameAlloc, HomeOf
  <2>2. CASE p = Reg(right) /\ <<Reg(ECX), v>> \in E.need
    <3>1. v = r /\ HomeOf(A, v, p)
      BY <1>2, <1>10, <2>2 DEF HomeOf
    <3> QED BY <1>2, <1>11, <2>1, <2>2, <3>1
  <2>3. CASE <<p, v>> \in E.need /\ p # Reg(ECX)
    <3>1. (<<p, v>> \in A.need /\ p # Reg(d)) \/ (p = Reg(d) /\ v = l)
      <4>1. CASE <<p, v>> \in A.need /\ p # Reg(d)
        BY <4>1
      <4>2. CASE <<p, v>> \in use
        <5>1. <<p, v>> = <<Reg(d), l>> \/ <<p, v>> = <<Reg(ECX), r>>
          BY <1>3, <4>2
        <5> QED BY <2>3, <5>1
      <4> QED BY <1>6, <2>3, <4>1, <4>2
    <3> QED BY <1>2, <2>1, <3>1, PendingNeed
  <2> QED BY <1>7, <2>2, <2>3
<1>13. TakenInv(B, c) /\ SlotsInv(B)
  <2>1. /\ B.free = A.free /\ B.cost = A.cost /\ B.reg = A.reg /\ B.spill = A.spill
        /\ B.spills = A.spills
    BY <1>8 DEF SameAlloc
  <2>2. TakenInv(A, c) /\ SlotsInv(A)
    BY <1>1
  <2>3. TakenInv(B, c)
    BY <2>1, <2>2 DEF TakenInv
  <2>4. SlotsInv(B)
    BY <2>1, <2>2 DEF SlotsInv
  <2> QED BY <2>3, <2>4
<1> QED BY <1>1, <1>6, <1>7, <1>8, <1>12, <1>13 DEF AllocInv

\* There is a register left when two may not be taken.
LEMMA Enough ==
  /\ \A x, y : kGPR \ {x, y} # {}
  /\ \A x : kGPR \ {x} # {}
  /\ kGPR # {}
BY PlaceTypes

\* The register that was waiting is still free.
LEMMA TakingFree ==
  ASSUME NEW A, NEW c, NEW d, NEW x, AllocInv(A, c, d, x), d \in A.free,
         NEW v \in Live(c), NEW allow, d \notin allow, NEW B, Taking(A, B, v, allow)
  PROVE  d \in B.free
<1>1. A.reg[v] # d
  BY FreeIsNoHome
<1> QED BY <1>1 DEF Taking

\* The two operands of an arithmetic instruction, when its register is
\* known.
LEMMA ArithToKeeps ==
  ASSUME NEW A, NEW c \in Int, c <= NumIns, NEW d \in kGPR, NEW n, AllocInv(A, c, d, n), d \in A.free,
         NEW l \in Live(c), NEW r \in Live(c), NEW B, B = ArithTo(A, d, n, l, r)
  PROVE  Settled(B, c)
<1>1. PICK use, E : use = {<<Reg(d), l>>, OperandOf(A, r)} /\ E = Compute(A, d, n, use, {})
  OBVIOUS
<1>2. B = allocLeft(E, d, l)
  BY <1>1 DEF ArithTo
<1>3. Fetched(A, c, d, l, OperandOf(A, r))
  <2>1. CASE A.reg[r] # NoReg
    <3>1. OperandOf(A, r) = <<Reg(A.reg[r]), r>>
      BY <2>1 DEF OperandOf, isReg
    <3>2. HomeOf(A, r, Reg(A.reg[r]))
      BY <2>1 DEF HomeOf
    <3> QED BY <3>1, <3>2 DEF Fetched
  <2>2. CASE A.reg[r] = NoReg
    <3>1. OperandOf(A, r) = <<Imm(r), r>>
      BY <2>2 DEF OperandOf, isReg
    <3>2. OperandOf(A, r)[1][1] = "imm"
      BY <3>1, PlaceFacts
    <3> QED BY <3>2 DEF Fetched
  <2> QED BY <2>1, <2>2
<1>4. \A u \in use : Fetched(A, c, d, l, u)
  <2>1. Fetched(A, c, d, l, <<Reg(d), l>>)
    BY DEF Fetched
  <2>2. \A u \in use : u = <<Reg(d), l>> \/ u = OperandOf(A, r)
    BY <1>1
  <2> QED BY <1>3, <2>1, <2>2
<1>5. AllocInv(E, c, d, l) /\ SameAlloc(A, E)
  <2>1. PICK clobber : clobber = {}
    OBVIOUS
  <2>2. \A p \in clobber : \E q \in A.free : q # d /\ p = Reg(q)
    BY <2>1
  <2>3. E = Compute(A, d, n, use, clobber)
    BY <1>1, <2>1
  <2> QED BY <1>4, <2>2, <2>3, ComputeKeeps
<1>6. d \in E.free
  BY <1>5 DEF SameAlloc
<1> QED BY <1>2, <1>5, <1>6, AllocLeftKeeps

\* Arithmetic (intArith).
LEMMA IntArithKeeps ==
  ASSUME NEW n \in 1..NumIns, NEW A, Settled(A, n), NEW l \in Live(n - 1), NEW r \in Live(n - 1),
         NEW B, B = intArith(A, n, l, r)
  PROVE  Settled(B, n - 1)
<1>1. PICK c \in Int : c = n - 1 /\ c <= NumIns
  BY LiveBefore
<1>2. PICK allow : allow = IF isReg(A, r) THEN kGPR \ {A.reg[r]} ELSE kGPR
  OBVIOUS
<1>3. allow \in SUBSET kGPR /\ allow # {}
  BY <1>2, Enough
<1>4. PICK D : D = destReg(A, n, allow)
  OBVIOUS
<1>5. Dest(A, D, n, allow)
  BY <1>3, <1>4, DestKeeps
<1>6. PICK d \in kGPR : d = D.r /\ d \in D.free /\ AllocInv(D, c, d, n)
  BY <1>1, <1>5 DEF Dest
<1>7. PICK load : load = (~ isReg(A, r) /\ ~ is32BitLiteral(r))
  OBVIOUS
<1>8. B = ArithTo(IF load THEN alloc1(D, r, allow \ {d}) ELSE D, d, n, l, r)
  BY <1>2, <1>4, <1>6, <1>7 DEF intArith, ArithWith
<1>9. CASE load
  <2>1. PICK E : E = alloc1(D, r, allow \ {d})
    OBVIOUS
  <2>2. B = ArithTo(E, d, n, l, r)
    BY <1>8, <1>9, <2>1
  <2>3. PICK al : al = allow \ {d}
    OBVIOUS
  <2>4. al \in SUBSET kGPR /\ al # {} /\ d \notin al /\ E = alloc1(D, r, al)
    <3>1. \A x, y : (kGPR \ {x}) \ {y} # {}
      BY PlaceTypes
    <3>2. al = (kGPR \ {d}) \/ al = (kGPR \ {A.reg[r]}) \ {d}
      BY <1>2, <2>3
    <3>3. kGPR \ {d} # {}
      BY Enough
    <3>4. al # {}
      BY <3>1, <3>2, <3>3
    <3> QED BY <1>3, <2>1, <2>3, <3>4
  <2>5. AllocInv(E, c, d, n) /\ Taking(D, E, r, al)
    BY <1>1, <1>6, <2>4, Alloc1Keeps
  <2>6. d \in E.free
    BY <1>1, <1>6, <2>4, <2>5, TakingFree
  <2> QED BY <1>1, <2>2, <2>5, <2>6, ArithToKeeps
<1>10. CASE ~ load
  <2>1. B = ArithTo(D, d, n, l, r)
    BY <1>8, <1>10
  <2> QED BY <1>1, <1>6, <2>1, ArithToKeeps
<1> QED BY <1>9, <1>10

\* Multiplication by a literal.
LEMMA ImulLiteralKeeps ==
  ASSUME NEW n \in 1..NumIns, NEW A, Settled(A, n), NEW l \in Live(n - 1), NEW k,
         NEW B, B = imulLiteral(A, n, l, k)
  PROVE  Settled(B, n - 1)
<1>1. PICK c \in Int : c = n - 1 /\ c <= NumIns
  BY LiveBefore
<1>2. kGPR \in SUBSET kGPR /\ kGPR # {}
  BY Enough
<1>3. PICK D : D = destReg(A, n, kGPR)
  OBVIOUS
<1>4. Dest(A, D, n, kGPR)
  BY <1>2, <1>3, DestKeeps
<1>5. PICK d \in kGPR : d = D.r /\ d \in D.free /\ AllocInv(D, c, d, n)
  BY <1>1, <1>4 DEF Dest
<1>6. PICK E : E = alloc1(D, l, kGPR)
  OBVIOUS
<1>7. AllocInv(E, c, d, n) /\ Taking(D, E, l, kGPR)
  BY <1>1, <1>2, <1>5, <1>6, Alloc1Keeps
<1>8. PICK use : use = {<<Reg(E.r), l>>, <<Imm(k), k>>}
  OBVIOUS
<1>9. B = Compute(E, d, n, use, {})
  BY <1>3, <1>5, <1>6, <1>8 DEF imulLiteral
<1>10. \A u \in use : Ready(E, c, u)
  <2>1. E.r = E.reg[l] /\ E.r # NoReg
    BY <1>7, PlaceTypes DEF Taking
  <2>2. <<Imm(k), k>>[1][1] = "imm"
    BY PlaceFacts
  <2> QED BY <1>1, <1>8, <2>1, <2>2 DEF Ready
<1> QED BY <1>1, <1>7, <1>9, <1>10, ComputeDone

\* Negation (intNegNot).
LEMMA IntNegNotKeeps ==
  ASSUME NEW n \in 1..NumIns, NEW A, Settled(A, n), NEW l \in Live(n - 1),
         NEW B, B = intNegNot(A, n, l)
  PROVE  Settled(B, n - 1)
<1>1. PICK c \in Int : c = n - 1 /\ c <= NumIns
  BY LiveBefore
<1>2. kGPR \in SUBSET kGPR /\ kGPR # {}
  BY Enough
<1>3. PICK D : D = destReg(A, n, kGPR)
  OBVIOUS
<1>4. Dest(A, D, n, kGPR)
  BY <1>2, <1>3, DestKeeps
<1>5. PICK d \in kGPR : d = D.r /\ d \in D.free /\ AllocInv(D, c, d, n)
  BY <1>1, <1>4 DEF Dest
<1>6. PICK use : use = {<<Reg(d), l>>}
  OBVIOUS
<1>7. PICK E : E = Compute(D, d, n, use, {})
  OBVIOUS
<1>8. B = allocLeft(E, d, l)
  BY <1>3, <1>5, <1>6, <1>7 DEF intNegNot, Define
<1>9. AllocInv(E, c, d, l) /\ SameAlloc(D, E)
  <2>1. \A u \in use : Fetched(D, c, d, l, u)
    BY <1>6 DEF Fetched
  <2>2. PICK clobber : clobber = {}
    OBVIOUS
  <2>3. \A p \in clobber : \E q \in D.free : q # d /\ p = Reg(q)
    BY <2>2
  <2>4. E = Compute(D, d, n, use, clobber)
    BY <1>7, <2>2
  <2> QED BY <1>1, <1>5, <2>1, <2>3, <2>4, ComputeKeeps
<1>10. d \in E.free
  BY <1>5, <1>9 DEF SameAlloc
<1> QED BY <1>1, <1>8, <1>9, <1>10, AllocLeftKeeps

\* A load of a field of an object (fieldLoad).
LEMMA FieldLoadKeeps ==
  ASSUME NEW n \in 1..NumIns, NEW A, Settled(A, n), NEW base \in Live(n - 1),
         NEW B, B = fieldLoad(A, n, base)
  PROVE  Settled(B, n - 1)
<1>1. PICK c \in Int : c = n - 1 /\ c <= NumIns
  BY LiveBefore
<1>2. kGPR \in SUBSET kGPR /\ kGPR # {}
  BY Enough
<1>3. PICK D : D = destReg(A, n, kGPR)
  OBVIOUS
<1>4. Dest(A, D, n, kGPR)
  BY <1>2, <1>3, DestKeeps
<1>5. PICK d \in kGPR : d = D.r /\ d \in D.free /\ AllocInv(D, c, d, n)
  BY <1>1, <1>4 DEF Dest
<1>6. PICK E : E = alloc1(D, base, kGPR)
  OBVIOUS
<1>7. AllocInv(E, c, d, n) /\ Taking(D, E, base, kGPR)
  BY <1>1, <1>2, <1>5, <1>6, Alloc1Keeps
<1>8. PICK use : use = {<<Reg(E.r), base>>}
  OBVIOUS
<1>9. B = Compute(E, d, n, use, {})
  BY <1>3, <1>5, <1>6, <1>8 DEF fieldLoad
<1>10. \A u \in use : Ready(E, c, u)
  <2>1. E.r = E.reg[base] /\ E.r # NoReg
    BY <1>7, PlaceTypes DEF Taking
  <2> QED BY <1>1, <1>8, <2>1 DEF Ready
<1> QED BY <1>1, <1>7, <1>9, <1>10, ComputeDone

\* A value that comes from the stack, or an address: no operands.
LEMMA DefineKeeps ==
  ASSUME NEW n \in 1..NumIns, NEW A, Settled(A, n),
         NEW B, B = Define(destReg(A, n, kGPR), n, {})
  PROVE  Settled(B, n - 1)
<1>1. PICK c \in Int : c = n - 1 /\ c <= NumIns
  BY LiveBefore
<1>2. kGPR \in SUBSET kGPR /\ kGPR # {}
  BY Enough
<1>3. PICK D : D = destReg(A, n, kGPR)
  OBVIOUS
<1>4. Dest(A, D, n, kGPR)
  BY <1>2, <1>3, DestKeeps
<1>5. PICK d \in kGPR : d = D.r /\ AllocInv(D, c, d, n)
  BY <1>1, <1>4 DEF Dest
<1>6. PICK use : use = {}
  OBVIOUS
<1>7. B = Compute(D, d, n, use, {})
  BY <1>3, <1>5, <1>6 DEF Define
<1>8. \A u \in use : Ready(D, c, u)
  BY <1>6
<1> QED BY <1>1, <1>5, <1>7, <1>8, ComputeDone

\* An instruction that no later one uses has no home.
LEMMA UnusedSettled ==
  ASSUME NEW n \in 1..NumIns, NEW A, Settled(A, n), A.reg[n] = NoReg, A.spill[n] = 0
  PROVE  Settled(A, n - 1)
<1>1. A \in RAState /\ TakenInv(A, n) /\ SlotsInv(A)
      /\ (A.clash \/ (A.wrong = FALSE /\ NeedInv(A, n, NoReg, 0)))
  BY NotVoid DEF Settled
<1>2. Live(n - 1) \subseteq Live(n) /\ \A v \in Live(n) : v = n \/ v \in Live(n - 1)
  BY LiveBefore
<1>3. TakenInv(A, n - 1)
  <2>1. ASSUME NEW r \in kGPR, r \notin A.free PROVE A.cost[r] \in Live(n - 1) /\ A.reg[A.cost[r]] = r
    <3>1. A.cost[r] \in Live(n) /\ A.reg[A.cost[r]] = r
      BY <1>1, <2>1 DEF TakenInv
    <3>2. A.cost[r] # n
      BY <3>1, PlaceTypes
    <3> QED BY <1>2, <3>1, <3>2
  <2>2. \A v \in Live(n - 1) : A.reg[v] = NoReg \/ (A.reg[v] \notin A.free /\ A.cost[A.reg[v]] = v)
    BY <1>1, <1>2 DEF TakenInv
  <2> QED BY <2>1, <2>2 DEF TakenInv
<1>4. ASSUME ~ A.clash PROVE NeedInv(A, n - 1, NoReg, 0)
  <2> SUFFICES ASSUME NEW p, NEW v, <<p, v>> \in A.need
               PROVE  \/ ~ A.ok /\ p \in Lost
                      \/ v \in Live(n - 1) /\ p # Reg(NoReg) /\ HomeOf(A, v, p)
    BY DEF NeedInv
  <2>1. (~ A.ok /\ p \in Lost) \/ (v \in Live(n) /\ p # Reg(NoReg) /\ HomeOf(A, v, p))
    BY <1>1, <1>4 DEF NeedInv
  <2>2. ~ HomeOf(A, n, p)
    BY DEF HomeOf
  <2> QED BY <1>2, <2>1, <2>2
<1> QED BY <1>1, <1>3, <1>4 DEF Settled, AllocInv, Void

\* An instruction that has lost an operand is recorded, and the allocation is
\* as it was.
LEMMA ClashKeeps ==
  ASSUME NEW A, NEW c, NEW e, NEW y, AllocInv(A, c, e, y), NEW lost \in BOOLEAN, NEW d, NEW x,
         lost \/ (e = d /\ y = x), NEW B, B = Clash(A, lost)
  PROVE  /\ AllocInv(B, c, d, x) /\ (lost \/ A.clash => B.clash)
         /\ B.free = A.free /\ B.reg = A.reg /\ B.spill = A.spill /\ B.ok = A.ok /\ B.r = A.r
<1>1. A \in RAState /\ TakenInv(A, c) /\ SlotsInv(A)
  BY DEF AllocInv
<1>2. PICK k \in BOOLEAN : k = (A.clash \/ lost)
  OBVIOUS
<1>3. B = [A EXCEPT !.clash = k]
  BY <1>2 DEF Clash
<1>4. /\ B \in RAState /\ B.clash = k /\ B.free = A.free /\ B.cost = A.cost /\ B.reg = A.reg
      /\ B.need = A.need /\ B.spill = A.spill /\ B.spills = A.spills
      /\ B.ok = A.ok /\ B.wrong = A.wrong /\ B.r = A.r
  BY <1>1, <1>3 DEF RAState
<1>5. TakenInv(B, c) /\ SlotsInv(B)
  BY <1>1, <1>4 DEF TakenInv, SlotsInv
<1>6. ASSUME ~ lost PROVE Void(B, d) \/ (B.wrong = FALSE /\ NeedInv(B, c, d, x))
  <2>1. Void(A, d) \/ (A.wrong = FALSE /\ NeedInv(A, c, d, x))
    BY <1>6 DEF AllocInv
  <2>2. Void(A, d) => Void(B, d)
    BY <1>2, <1>4 DEF Void
  <2>3. NeedInv(A, c, d, x) => NeedInv(B, c, d, x)
    BY <1>4 DEF NeedInv, HomeOf
  <2> QED BY <1>4, <2>1, <2>2, <2>3
<1>7. lost => Void(B, d)
  BY <1>2, <1>4 DEF Void
<1> QED BY <1>2, <1>4, <1>5, <1>6, <1>7 DEF AllocInv

\* The first operand l of an instruction is in the register that was
\* returned, which may be the one of the result.
OneOperand(A, c, d, x, l, r) ==
  /\ AllocInv(A, c, d, x) /\ l \in Live(c) \ Lits /\ r \in Live(c)
  /\ A.r \in kGPR /\ A.reg[l] = A.r /\ (d = NoReg \/ d \in A.free \/ A.reg[l] = d)

\* The second operand r has a register, and the register of the result is
\* only lost with the first operand.
SecondTaken(A, B, c, d, x, l, r) ==
  /\ AllocInv(B, c, d, x) \/ (AllocInv(B, c, Gone, x) /\ B.reg[l] # A.r)
  /\ B.r \in kGPR /\ B.reg[r] = B.r

\* Without a free register, the second operand may take the register of the
\* first one, which then has lost it.
LEMMA CrowdedOperand ==
  ASSUME NEW A, NEW c \in Int, c <= NumIns, NEW d, NEW x, NEW l, NEW r, OneOperand(A, c, d, x, l, r),
         A.reg[r] = NoReg, A.free = {}, NEW B, B = alloc1(A, r, kGPR)
  PROVE  SecondTaken(A, B, c, d, x, l, r)
<1>1. /\ AllocInv(A, c, d, x) /\ l \in Live(c) /\ l \in Ref /\ r \in Live(c) /\ r \in Ref /\ A \in RAState
      /\ A.r \in kGPR /\ A.reg[l] = A.r /\ (d = NoReg \/ A.reg[l] = d) /\ l # r
  BY LiveFacts, PlaceTypes DEF OneOperand, AllocInv
<1>2. kGPR \in SUBSET kGPR /\ kGPR # {} /\ (\A q \in kGPR : q \notin A.free)
  BY Enough
<1>3. PICK F : F = evictReg(A, kGPR)
  OBVIOUS
<1>4. B = Take(F, r, F.r)
  BY <1>3, Enough DEF alloc1, allocRef, isReg
<1>5. PICK u \in Live(c) : Evicted(A, F, c, d, x, u, kGPR)
  BY <1>1, <1>2, <1>3, EvictKeeps
<1>6. PICK e : e = IF A.reg[u] = d THEN Gone ELSE d
  OBVIOUS
<1>7. A.reg[u] \in kGPR /\ Freed(A, F, u) /\ Later(A, F) /\ AllocInv(F, c, e, x) /\ F.r = A.reg[u]
  BY <1>5, <1>6 DEF Evicted, Freed
<1>8. AllocInv(A, c, e, x)
  BY <1>1, <1>6 DEF AllocInv, Void
<1>9. AllocInv(B, c, e, x) /\ Taking(A, B, r, kGPR)
  <2>1. B = Take(F, r, A.reg[u])
    BY <1>4, <1>7
  <2> QED BY <1>1, <1>2, <1>7, <1>8, <2>1, FreedTake
<1>10. ASSUME A.reg[u] = d PROVE B.reg[l] # A.r
  <2>1. A.reg[l] = A.reg[u]
    BY <1>1, <1>7, <1>10, PlaceTypes
  <2>2. l = u
    BY <1>1, <1>7, <2>1, PlaceTypes DEF AllocInv, TakenInv
  <2>3. F.reg[l] = NoReg
    BY <1>7, <2>2 DEF Freed
  <2>4. F \in RAState
    BY <1>7 DEF AllocInv
  <2>5. B.reg[l] = F.reg[l]
    <3>1. PICK q \in kGPR : q = F.r
      BY <1>7
    <3>2. B = Take(F, r, q)
      BY <1>4, <3>1
    <3>3. r \in Ref /\ l \in Ref /\ l # r
      BY <1>1
    <3>4. \A w \in Ref : w # r => Take(F, r, q).reg[w] = F.reg[w]
      BY ONLY q \in kGPR, <2>4, <3>3, TakeFields
    <3> QED BY <3>2, <3>3, <3>4
  <2> QED BY <1>1, <2>3, <2>5, PlaceTypes
<1> QED BY <1>6, <1>9, <1>10 DEF Taking, SecondTaken

\* So it may, if it has no register and no other one is free.
LEMMA SecondOperand ==
  ASSUME NEW A, NEW c \in Int, c <= NumIns, NEW d, NEW x, NEW l, NEW r, OneOperand(A, c, d, x, l, r),
         NEW B, B = alloc1(A, r, kGPR)
  PROVE  SecondTaken(A, B, c, d, x, l, r)
<1>1. /\ AllocInv(A, c, d, x) /\ l \in Live(c) /\ l \notin Lits /\ r \in Live(c) /\ A \in RAState
      /\ A.r \in kGPR /\ A.reg[l] = A.r /\ (d = NoReg \/ d \in A.free \/ A.reg[l] = d)
  BY DEF OneOperand, AllocInv
<1>2. CASE A.reg[r] # NoReg
  <2>1. PICK q \in kGPR : q = A.reg[r]
    BY <1>1, <1>2, LiveFacts, StateFacts
  <2>2. B = [A EXCEPT !.r = q]
    BY <1>2, <2>1 DEF alloc1, isReg
  <2>3. AllocInv(B, c, d, x) /\ B.r = q /\ B.reg = A.reg
    BY <1>1, <2>2, SetRKeeps
  <2> QED BY <2>1, <2>3 DEF SecondTaken
<1>3. CASE A.reg[r] = NoReg /\ A.free # {}
  <2>1. PICK q \in kGPR : q \in A.free
    BY <1>1, <1>3, StateFacts
  <2>2. d \in {NoReg, Gone} \/ d \in A.free \/ (A.cost[d] \notin Lits /\ \E u \in kGPR : u \in A.free)
    <3>1. A.reg[l] = d => A.cost[d] = l
      BY <1>1, PlaceTypes DEF AllocInv, TakenInv
    <3> QED BY <1>1, <2>1, <3>1
  <2>3. kGPR \in SUBSET kGPR /\ kGPR # {}
    BY Enough
  <2>4. AllocInv(B, c, d, x) /\ Taking(A, B, r, kGPR)
    BY <1>1, <2>2, <2>3, Alloc1Keeps
  <2> QED BY <2>4 DEF Taking, SecondTaken
<1> QED BY <1>2, <1>3, CrowdedOperand

\* The values of a snapshot, then an operand.
LEMMA SnapshotThen ==
  ASSUME NEW A, NEW c \in Int, c <= NumIns, Settled(A, c), NEW snap \in Seq(1..c),
         NEW l \in Live(c), NEW S, S = snapshotAlloc(A, snap), NEW B, B = alloc1(S, l, kGPR)
  PROVE  /\ Settled(B, c) /\ B.r \in kGPR /\ B.reg[l] = B.r
         /\ \A k \in DOMAIN snap : snap[k] \in 1..c /\ Located(B, snap[k])
<1>1. Settled(S, c) /\ \A k \in DOMAIN snap : snap[k] \in 1..c /\ Located(S, snap[k])
  BY SnapshotAllocKeeps
<1>2. kGPR \in SUBSET kGPR /\ kGPR # {}
  BY Enough
<1>3. AllocInv(B, c, NoReg, 0) /\ Later(S, B) /\ Taking(S, B, l, kGPR)
  BY <1>1, <1>2, Alloc1Keeps DEF Settled
<1>4. \A v \in 1..c : v \in Ref \ Lits
  BY LiveFacts
<1>5. \A k \in DOMAIN snap : Located(B, snap[k])
  BY <1>1, <1>3, <1>4 DEF Later
<1> QED BY <1>1, <1>3, <1>5 DEF Settled, Taking

\* The operand of a comparison is where it is looked for.
LEMMA UseReg ==
  ASSUME NEW A, NEW c \in Int, c <= NumIns, Settled(A, c), NEW l \in Live(c), NEW q \in kGPR,
         A.clash \/ A.reg[l] = q
  PROVE  Found(A, c, <<Reg(q), l>>)
<1>1. CASE A.reg[l] = q
  <2>1. HomeOf(A, l, Reg(q))
    BY <1>1, PlaceTypes DEF HomeOf
  <2> QED BY <2>1 DEF Found
<1>2. CASE A.clash
  <2>1. l \in Ref /\ Reg(q) \in Place
    BY LiveFacts, PlaceTypes
  <2> QED BY <1>2, <2>1 DEF Found
<1> QED BY <1>1, <1>2

\* So is the operand of another instruction.
LEMMA RegReady ==
  ASSUME NEW A, NEW c \in Int, c <= NumIns, NEW l \in Live(c), NEW q \in kGPR, A.clash \/ A.reg[l] = q
  PROVE  Ready(A, c, <<Reg(q), l>>)
<1>1. l \in Ref /\ Reg(q) \in Place /\ q # NoReg
  BY LiveFacts, PlaceTypes
<1> QED BY <1>1 DEF Ready

\* A comparison with an immediate.
LEMMA CompareImmKeeps ==
  ASSUME NEW A, NEW c \in Int, c <= NumIns, Settled(A, c), NEW snap \in Seq(1..c),
         NEW l \in Live(c), l \notin Lits, NEW k, NEW X, X = compareImm(A, l, k, snap)
  PROVE  Settled(X, c)
<1>1. l \in Live(c) /\ \A v \in 1..c : v \in Live(c)
  BY LiveFacts
<1>2. PICK S, B : S = snapshotAlloc(A, snap) /\ B = alloc1(S, l, kGPR)
  OBVIOUS
<1>3. /\ Settled(B, c) /\ B.r \in kGPR /\ B.reg[l] = B.r
      /\ \A j \in DOMAIN snap : snap[j] \in 1..c /\ Located(B, snap[j])
  BY <1>1, <1>2, SnapshotThen
<1>4. PICK G : G = Guard(B, snap)
  OBVIOUS
<1>5. Settled(G, c) /\ SameAlloc(B, G)
  BY <1>1, <1>3, <1>4, GuardKeeps
<1>6. PICK q \in kGPR : q = B.r
  BY <1>3
<1>7. PICK use : use = {<<Reg(q), l>>, <<Imm(k), k>>}
  OBVIOUS
<1>8. X = Use(G, use)
  BY <1>2, <1>4, <1>6, <1>7 DEF compareImm
<1>9. Found(G, c, <<Reg(q), l>>)
  BY <1>1, <1>3, <1>5, <1>6, UseReg DEF SameAlloc
<1>10. Found(G, c, <<Imm(k), k>>)
  BY PlaceFacts DEF Found
<1>11. \A u \in use : Found(G, c, u)
  BY <1>7, <1>9, <1>10
<1> QED BY <1>5, <1>8, <1>11, UseKeeps

\* A comparison of two registers (compare).
LEMMA CompareKeeps ==
  ASSUME NEW A, NEW c \in Int, c <= NumIns, Settled(A, c), NEW snap \in Seq(1..c),
         NEW l \in Live(c), l \notin Lits, NEW r \in Live(c), NEW X, X = compare(A, l, r, snap)
  PROVE  Settled(X, c)
<1>1. l \in Live(c) /\ (\A v \in 1..c : v \in Live(c)) /\ \A v \in 1..c : v \in Ref \ Lits
  BY LiveFacts
<1>2. PICK S, B : S = snapshotAlloc(A, snap) /\ B = alloc1(S, l, kGPR)
  OBVIOUS
<1>3. /\ Settled(B, c) /\ B.r \in kGPR /\ B.reg[l] = B.r
      /\ \A j \in DOMAIN snap : snap[j] \in 1..c /\ Located(B, snap[j])
  BY <1>1, <1>2, SnapshotThen
<1>4. PICK C : C = alloc1(B, r, kGPR)
  OBVIOUS
<1>5. AllocInv(C, c, NoReg, 0) /\ Later(B, C) /\ C.r \in kGPR /\ C.reg[r] = C.r
  <2>1. kGPR \in SUBSET kGPR /\ kGPR # {}
    BY Enough
  <2>2. AllocInv(C, c, NoReg, 0) /\ Later(B, C) /\ Taking(B, C, r, kGPR)
    BY <1>3, <1>4, <2>1, Alloc1Keeps DEF Settled
  <2> QED BY <2>2 DEF Taking
<1>6. PICK lost \in BOOLEAN : lost <=> C.reg[l] # B.r
  OBVIOUS
<1>16. PICK D : D = Clash(C, lost)
  OBVIOUS
<1>7. /\ Settled(D, c) /\ (D.clash \/ C.reg[l] = B.r)
      /\ D.reg = C.reg /\ D.spill = C.spill /\ D.ok = C.ok
  <2>1. /\ AllocInv(D, c, NoReg, 0) /\ (lost \/ C.clash => D.clash)
        /\ D.reg = C.reg /\ D.spill = C.spill /\ D.ok = C.ok
    BY <1>5, <1>6, <1>16, ClashKeeps
  <2> QED BY <1>6, <1>16, <2>1 DEF Settled
<1>8. PICK G : G = Guard(D, snap)
  OBVIOUS
<1>9. Settled(G, c) /\ SameAlloc(D, G)
  <2>1. \A j \in DOMAIN snap : snap[j] \in Live(c) /\ Located(C, snap[j])
    BY <1>1, <1>3, <1>5 DEF Later
  <2>2. \A j \in DOMAIN snap : snap[j] \in Live(c) /\ Located(D, snap[j])
    BY <1>7, <2>1 DEF Located
  <2> QED BY <1>7, <1>8, <2>2, GuardKeeps
<1>10. PICK q \in kGPR, t \in kGPR : q = B.r /\ t = C.r
  BY <1>3, <1>5
<1>11. PICK use : use = {<<Reg(q), l>>, <<Reg(t), r>>}
  OBVIOUS
<1>12. X = Use(G, use)
  BY <1>2, <1>4, <1>6, <1>16, <1>8, <1>10, <1>11 DEF compare
<1>13. (G.clash \/ G.reg[l] = q) /\ G.reg[r] = t
  BY <1>5, <1>7, <1>9, <1>10 DEF SameAlloc
<1>14. Found(G, c, <<Reg(q), l>>) /\ Found(G, c, <<Reg(t), r>>)
  BY <1>1, <1>9, <1>13, UseReg
<1> QED BY <1>9, <1>11, <1>12, <1>14, UseKeeps

\* A guard on the info table of an object (itblGuard).
LEMMA ItblGuardKeeps ==
  ASSUME NEW A, NEW c \in Int, c <= NumIns, Settled(A, c), NEW snap \in Seq(1..c),
         NEW l \in Live(c), l \notin Lits, NEW r \in Live(c),
         NEW X, X = itblGuard(A, l, r, snap)
  PROVE  Settled(X, c)
<1>1. l \in Live(c) /\ \A v \in 1..c : v \in Live(c)
  BY LiveFacts
<1>2. PICK S, B : S = snapshotAlloc(A, snap) /\ B = alloc1(S, l, kGPR)
  OBVIOUS
<1>3. /\ Settled(B, c) /\ B.r \in kGPR /\ B.reg[l] = B.r
      /\ \A j \in DOMAIN snap : snap[j] \in 1..c /\ Located(B, snap[j])
  BY <1>1, <1>2, SnapshotThen
<1>4. PICK C : C = Guard(B, snap)
  OBVIOUS
<1>5. Settled(C, c) /\ SameAlloc(B, C)
  BY <1>1, <1>3, <1>4, GuardKeeps
<1>6. PICK q \in kGPR : q = B.r /\ C.reg[l] = q /\ C.r = q
  BY <1>3, <1>5 DEF SameAlloc
<1>7. CASE is32BitLiteral(r)
  <2>1. PICK use : use = {<<Reg(q), l>>}
    OBVIOUS
  <2>2. X = Use(C, use)
    BY <1>2, <1>4, <1>6, <1>7, <2>1 DEF itblGuard
  <2>3. \A u \in use : Found(C, c, u)
    BY <1>1, <1>5, <1>6, <2>1, UseReg
  <2> QED BY <1>5, <2>2, <2>3, UseKeeps
<1>8. CASE ~ is32BitLiteral(r)
  <2>1. PICK D : D = alloc1(C, r, kGPR)
    OBVIOUS
  <2>2. AllocInv(D, c, NoReg, 0) /\ D.r \in kGPR /\ D.reg[r] = D.r
    <3>1. kGPR \in SUBSET kGPR /\ kGPR # {}
      BY Enough
    <3>2. AllocInv(D, c, NoReg, 0) /\ Taking(C, D, r, kGPR)
      BY <1>5, <2>1, <3>1, Alloc1Keeps DEF Settled
    <3> QED BY <3>2 DEF Taking
  <2>3. PICK lost \in BOOLEAN : lost <=> D.reg[l] # q
    OBVIOUS
  <2>9. PICK E : E = Clash(D, lost)
    OBVIOUS
  <2>4. Settled(E, c) /\ (E.clash \/ E.reg[l] = q) /\ E.reg = D.reg
    <3>1. AllocInv(E, c, NoReg, 0) /\ (lost \/ D.clash => E.clash) /\ E.reg = D.reg
      BY <2>2, <2>3, <2>9, ClashKeeps
    <3> QED BY <2>3, <2>9, <3>1 DEF Settled
  <2>5. PICK t \in kGPR : t = D.r
    BY <2>2
  <2>6. PICK use : use = {<<Reg(q), l>>, <<Reg(t), r>>}
    OBVIOUS
  <2>7. X = Use(E, use)
    BY <1>2, <1>4, <1>6, <1>8, <2>1, <2>3, <2>9, <2>5, <2>6 DEF itblGuard
  <2>8. Found(E, c, <<Reg(q), l>>) /\ Found(E, c, <<Reg(t), r>>)
    BY <1>1, <2>2, <2>4, <2>5, UseReg
  <2> QED BY <2>4, <2>6, <2>7, <2>8, UseKeeps
<1> QED BY <1>7, <1>8

\* The heap check, which has a snapshot and no operands (heapCheck).
LEMMA HeapCheckKeeps ==
  ASSUME NEW A, NEW c \in Int, c <= NumIns, Settled(A, c), NEW snap \in Seq(1..c),
         NEW X, X = heapCheck(A, snap)
  PROVE  Settled(X, c)
<1>1. PICK S : S = snapshotAlloc(A, snap)
  OBVIOUS
<1>2. Settled(S, c) /\ \A k \in DOMAIN snap : snap[k] \in 1..c /\ Located(S, snap[k])
  BY <1>1, SnapshotAllocKeeps
<1>3. \A k \in DOMAIN snap : snap[k] \in Live(c) /\ Located(S, snap[k])
  BY <1>2, LiveFacts
<1>4. X = Guard(S, snap)
  BY <1>1 DEF heapCheck
<1> QED BY <1>2, <1>3, <1>4, GuardKeeps

\* The reverse of a sequence has the same elements.
LEMMA ReverseSeq ==
  ASSUME NEW S, NEW s \in Seq(S)
  PROVE  Reverse(s) \in Seq(S)
<1>1. PICK m \in Nat : m = Len(s)
  OBVIOUS
<1>2. \A i \in 1..m : (m - i) + 1 \in 1..m /\ s[(m - i) + 1] \in S
  <2>1. \A i \in 1..m : (m - i) + 1 \in 1..m
    OBVIOUS
  <2>2. \A j \in 1..m : s[j] \in S
    BY <1>1
  <2> QED BY <2>1, <2>2
<1>3. Reverse(s) = [i \in 1..m |-> s[(m - i) + 1]]
  BY <1>1 DEF Reverse
<1>4. Reverse(s) \in [1..m -> S]
  BY <1>2, <1>3
<1> QED BY <1>4, SeqDef

\* The sequences a model chooses from are sequences.
LEMMA SeqOfIsSeq ==
  ASSUME NEW S, NEW T, S \subseteq T, NEW k, NEW s \in SeqOf(S, k)
  PROVE  s \in Seq(T)
<1>1. PICK m \in 0..k : s \in [1..m -> S]
  BY DEF SeqOf
<1>2. m \in Nat /\ s \in [1..m -> T]
  BY <1>1
<1> QED BY <1>2, SeqDef

\* An allocation: the fields are stored behind the address of the object,
\* which is in the register that waits (insNew).
LEMMA InsNewKeeps ==
  ASSUME NEW n \in 1..NumIns, NEW A, Settled(A, n), NEW fields \in Seq(Live(n - 1)), NEW info \in Live(n - 1),
         NEW B, B = insNew(A, n, fields, info)
  PROVE  Settled(B, n - 1)
<1>1. PICK c \in Int : c = n - 1 /\ c <= NumIns
  BY LiveBefore
<1>2. PICK D : D = Define(destReg(A, n, kGPR), n, {})
  OBVIOUS
<1>3. Settled(D, c)
  BY <1>1, <1>2, DefineKeeps
<1>4. PICK rev : rev = Reverse(fields)
  OBVIOUS
<1>5. rev \in Seq(Live(c))
  BY <1>1, <1>4, ReverseSeq
<1>6. PICK M : M = memstores(D, rev)
  OBVIOUS
<1>7. Settled(M, c)
  BY <1>1, <1>3, <1>5, <1>6, MemstoresKeep
<1>8. B = memstore(M, {}, info, kGPR)
  BY <1>2, <1>4, <1>6 DEF insNew
<1>9. kGPR \in SUBSET kGPR /\ kGPR # {}
  BY Enough
<1>10. PICK base : base = {} /\ B = memstore(M, base, info, kGPR)
  BY <1>8
<1>11. \A u \in base : u[1][1] = "imm" \/ \E w \in Live(c) :
         u = <<Reg(M.reg[w]), w>> /\ M.reg[w] # NoReg /\ M.reg[w] \notin kGPR
  BY <1>10
<1>12. Storing(M, c, base, info, kGPR)
  BY <1>1, <1>7, <1>9, <1>11 DEF Storing
<1>13. Settled(B, c)
  BY <1>1, <1>10, <1>12, MemstoreKeeps
<1> QED BY <1>1, <1>13

\* An update stores the indirection and the new value (insUpdate).
LEMMA InsUpdateKeeps ==
  ASSUME NEW A, NEW c \in Int, c <= NumIns, Settled(A, c),
         NEW old \in Live(c), NEW new \in Live(c), NEW ind \in Live(c), NEW X, X = insUpdate(A, old, new, ind)
  PROVE  Settled(X, c)
<1>1. kGPR \in SUBSET kGPR /\ kGPR # {}
  BY Enough
<1>2. PICK B : B = alloc1(A, old, kGPR)
  OBVIOUS
<1>3. AllocInv(B, c, NoReg, 0) /\ Taking(A, B, old, kGPR)
  BY <1>1, <1>2, Alloc1Keeps DEF Settled
<1>4. PICK q \in kGPR : q = B.r /\ B.reg[old] = q /\ q # NoReg
  BY <1>3, PlaceTypes DEF Taking
<1>5. PICK ptr, allow : ptr = {<<Reg(q), old>>} /\ allow = kGPR \ {q}
  OBVIOUS
<1>6. allow \in SUBSET kGPR /\ allow # {} /\ q \notin allow
  BY <1>5, Enough
<1>7. PICK M : M = memstore(B, ptr, new, allow)
  OBVIOUS
<1>8. X = memstore(M, ptr, ind, allow)
  BY <1>2, <1>4, <1>5, <1>7 DEF insUpdate
<1>9. Settled(M, c) /\ M.reg[old] = q
  <2>1. \A u \in ptr : u[1][1] = "imm" \/ \E w \in Live(c) :
          u = <<Reg(B.reg[w]), w>> /\ B.reg[w] # NoReg /\ B.reg[w] \notin allow
    BY <1>4, <1>5, <1>6
  <2>2. Settled(B, c)
    BY <1>3 DEF Settled
  <2>3. /\ Settled(M, c) /\ Later(B, M)
        /\ \A w \in Live(c) : B.reg[w] # NoReg /\ B.reg[w] \notin allow => M.reg[w] = B.reg[w]
    <3>1. Storing(B, c, ptr, new, allow)
      BY <1>6, <2>1, <2>2 DEF Storing
    <3>2. Settled(M, c) /\ Later(B, M)
      BY <1>7, <3>1, MemstoreKeeps
    <3>3. \A w \in Live(c) : B.reg[w] # NoReg /\ B.reg[w] \notin allow => M.reg[w] = B.reg[w]
      BY <1>7, <3>1, MemstoreKeeps
    <3> QED BY <3>2, <3>3
  <2> QED BY <1>4, <1>6, <2>3
<1>10. \A u \in ptr : u[1][1] = "imm" \/ \E w \in Live(c) :
         u = <<Reg(M.reg[w]), w>> /\ M.reg[w] # NoReg /\ M.reg[w] \notin allow
  BY <1>4, <1>5, <1>6, <1>9
<1>11. Storing(M, c, ptr, ind, allow)
  BY <1>6, <1>9, <1>10 DEF Storing
<1> QED BY <1>8, <1>11, MemstoreKeeps

\* A load at an offset from a base (insPLOAD).
LEMMA InsPloadKeeps ==
  ASSUME NEW n \in 1..NumIns, NEW A, Settled(A, n), NEW ptr \in Live(n - 1), ptr \notin Lits, NEW ofs \in Live(n - 1),
         NEW B, B = insPLOAD(A, n, ptr, ofs)
  PROVE  Settled(B, n - 1)
<1>1. PICK c \in Int : c = n - 1 /\ c <= NumIns
  BY LiveBefore
<1>2. kGPR \in SUBSET kGPR /\ kGPR # {}
  BY Enough
<1>14. PICK D, C : D = destReg(A, n, kGPR) /\ C = alloc1(D, ptr, kGPR)
  OBVIOUS
<1>3. Dest(A, D, n, kGPR)
  BY <1>2, <1>14, DestKeeps
<1>4. PICK d \in kGPR : d = D.r /\ d \in D.free /\ AllocInv(D, c, d, n)
  BY <1>1, <1>3 DEF Dest
<1>5. AllocInv(C, c, d, n) /\ Taking(D, C, ptr, kGPR)
  BY <1>1, <1>2, <1>4, <1>14, Alloc1Keeps
<1>6. C.r \in kGPR /\ C.reg[ptr] = C.r
  BY <1>5 DEF Taking
<1>7. d \in C.free \/ C.reg[ptr] = d
  BY <1>4, <1>5, <1>6 DEF Taking
<1>8. OneOperand(C, c, d, n, ptr, ofs)
  BY <1>1, <1>5, <1>6, <1>7 DEF OneOperand
<1>9. PICK E : E = alloc1(C, ofs, kGPR)
  OBVIOUS
<1>10. /\ AllocInv(E, c, d, n) \/ (AllocInv(E, c, Gone, n) /\ E.reg[ptr] # C.r)
       /\ E.r \in kGPR /\ E.reg[ofs] = E.r
  <2>1. c \in Int /\ c <= NumIns
    BY <1>1
  <2>2. SecondTaken(C, E, c, d, n, ptr, ofs)
    BY <1>8, <1>9, <2>1, SecondOperand
  <2> QED BY <2>2 DEF SecondTaken
<1>11. PICK lost \in BOOLEAN : lost <=> E.reg[ptr] # C.r
  OBVIOUS
<1>19. PICK G : G = Clash(E, lost)
  OBVIOUS
<1>12. AllocInv(G, c, d, n) /\ (G.clash \/ G.reg[ptr] = C.r) /\ G.reg = E.reg
  <2>1. PICK e : AllocInv(E, c, e, n) /\ (lost \/ e = d)
    BY <1>10, <1>11, <1>19
  <2>2. AllocInv(G, c, d, n) /\ (lost \/ E.clash => G.clash) /\ G.reg = E.reg
    BY <1>11, <1>19, <2>1, ClashKeeps
  <2> QED BY <1>11, <1>19, <2>2
<1>13. PICK q \in kGPR, t \in kGPR : q = C.r /\ t = E.r
  BY <1>6, <1>10
<1>15. PICK use : use = {<<Reg(q), ptr>>, <<Reg(t), ofs>>}
  OBVIOUS
<1>16. B = Compute(G, d, n, use, {})
  BY <1>4, <1>9, <1>11, <1>19, <1>13, <1>14, <1>15 DEF insPLOAD
<1>17. Ready(G, c, <<Reg(q), ptr>>) /\ Ready(G, c, <<Reg(t), ofs>>)
  BY <1>1, <1>10, <1>12, <1>13, RegReady
<1>18. \A u \in use : Ready(G, c, u)
  BY <1>15, <1>17
<1> QED BY <1>1, <1>12, <1>16, <1>18, ComputeDone

\* The result of a shift gets a register other than ecx (OutsideEcx).
LEMMA OutsideKeeps ==
  ASSUME NEW n \in 1..NumIns, NEW A, Settled(A, n), NEW c \in Int, c = n - 1, c <= NumIns,
         NEW C, C = OutsideEcx(destReg(A, n, kGPR \ {ECX}))
  PROVE  AllocInv(C, c, C.r, n) /\ C.r \in kGPR /\ C.r \in C.free /\ C.r # ECX
<1>1. PICK allow : allow = kGPR \ {ECX}
  OBVIOUS
<1>2. allow \in SUBSET kGPR /\ allow # {} /\ ECX \in kGPR
  BY <1>1, Enough, PlaceTypes
<1>3. PICK D : D = destReg(A, n, allow)
  OBVIOUS
<1>4. AllocInv(D, c, D.r, n) /\ D.r \in kGPR /\ D.r \in D.free
  BY <1>2, <1>3, DestKeeps DEF Dest
<1>5. CASE D.r # ECX
  BY <1>1, <1>3, <1>4, <1>5 DEF OutsideEcx
<1>6. CASE D.r = ECX
  <2>1. PICK S : S = allocScratchReg(D, allow)
    OBVIOUS
  <2>2. AllocInv(S, c, ECX, n) /\ S.r \in allow /\ S.r \in S.free
    BY <1>2, <1>4, <1>6, <2>1, ScratchKeeps
  <2>3. PICK q \in kGPR : q = S.r /\ q # ECX
    BY <1>1, <2>2
  <2>4. C = Copy(S, Reg(ECX), Reg(q))
    BY <1>1, <1>3, <1>6, <2>1, <2>3 DEF OutsideEcx, FromScratch
  <2>5. AllocInv(C, c, q, n) /\ SameAlloc(S, C)
    BY <1>2, <2>2, <2>3, <2>4, MovePending
  <2> QED BY <2>2, <2>3, <2>5 DEF SameAlloc
<1> QED BY <1>5, <1>6

\* The amount of a shift is in the register right: in ecx, or in another one
\* from which it can be moved there, unless an operand was lost.
Amount(A, c, d, n, right, l, r) ==
  /\ AllocInv(A, c, d, n) /\ right \in kGPR
  /\ right = ECX => A.reg[r] = ECX /\ d \in A.free
  /\ right # ECX => \/ A.clash
                    \/ A.reg[r] = right /\ ECX \in A.free /\ (d \in A.free \/ (right = d /\ l = r))

\* A register for the amount (ShiftAmount).
LEMMA AmountKeeps ==
  ASSUME NEW A, NEW c \in Int, c <= NumIns, NEW d \in kGPR, NEW n, AllocInv(A, c, d, n), d \in A.free, d # ECX,
         NEW l \in Live(c), NEW r \in Live(c), NEW S, S = ShiftAmount(A, r),
         NEW right, right = IF isReg(A, r) THEN A.reg[r] ELSE S.reg[r],
         NEW lost, lost = ShiftClash(S, d, right, l, r), NEW B, B = Clash(S, lost)
  PROVE  Amount(B, c, d, n, right, l, r)
<1>1. /\ A \in RAState /\ r \in Ref /\ ECX \in kGPR /\ (kGPR \ {ECX}) # {} /\ {ECX} \in SUBSET kGPR
      /\ (kGPR \ {ECX}) \in SUBSET kGPR /\ A.reg[r] # d
  BY LiveFacts, PlaceTypes, FreeIsNoHome DEF AllocInv
<1>2. lost \in BOOLEAN /\ (lost <=> (right = d /\ l # r) \/ (right # ECX /\ ECX \notin S.free))
  BY DEF ShiftClash
<1>3. ASSUME AllocInv(S, c, d, n)
      PROVE  /\ AllocInv(B, c, d, n) /\ (lost => B.clash) /\ B.free = S.free /\ B.reg = S.reg
  BY <1>2, <1>3, ClashKeeps
<1>4. CASE A.reg[r] = NoReg
  <2>1. PICK allow : allow = kGPR \ {ECX}
    OBVIOUS
  <2>2. S = allocRef(A, r, allow)
    BY <1>4, <2>1 DEF ShiftAmount, isReg
  <2>3. AllocInv(S, c, d, n) /\ Taking(A, S, r, allow)
    BY <1>1, <1>4, <2>1, <2>2, AllocRefKeeps
  <2>4. right = S.reg[r] /\ right \in kGPR /\ right # ECX
    BY <1>4, <2>1, <2>3, PlaceTypes DEF Taking, isReg
  <2>5. d \in S.free \/ right = d
    BY <2>3, <2>4 DEF Taking
  <2> QED BY <1>2, <1>3, <2>3, <2>4, <2>5 DEF Amount
<1>5. CASE A.reg[r] = ECX
  <2>1. S = A /\ right = ECX
    BY <1>1, <1>5, PlaceTypes DEF ShiftAmount, isReg
  <2> QED BY <1>1, <1>3, <1>5, <2>1 DEF Amount
<1>6. CASE A.reg[r] \notin {NoReg, ECX}
  <2>1. PICK one : one = {ECX}
    OBVIOUS
  <2>2. S = allocScratchReg(A, one) /\ right = A.reg[r]
    BY <1>6, <2>1 DEF ShiftAmount, isReg
  <2>3. right \in kGPR /\ right # d
    BY <1>1, <1>6, <2>2, StateFacts
  <2>4. AllocInv(S, c, d, n) /\ S.r \in one /\ S.r \in S.free /\ Cleared(A, S, one)
    BY <1>1, <2>1, <2>2, ScratchKeeps
  <2>5. ECX \in S.free /\ d \in S.free /\ S.reg[r] = right
    BY <1>1, <1>6, <2>1, <2>2, <2>4 DEF Cleared
  <2> QED BY <1>3, <1>6, <2>2, <2>3, <2>4, <2>5 DEF Amount
<1> QED BY <1>4, <1>5, <1>6

\* A shift by a value, which has to be in ecx (bitshift).
LEMMA BitshiftKeeps ==
  ASSUME NEW n \in 1..NumIns, NEW A, Settled(A, n), NEW l \in Live(n - 1), l \notin Lits, NEW r \in Live(n - 1),
         NEW B, B = bitshift(A, n, l, r)
  PROVE  Settled(B, n - 1)
<1>1. PICK c \in Int : c = n - 1 /\ c <= NumIns
  BY LiveBefore
<1>2. PICK C : C = OutsideEcx(destReg(A, n, kGPR \ {ECX}))
  OBVIOUS
<1>3. PICK d \in kGPR : d = C.r /\ AllocInv(C, c, d, n) /\ d \in C.free /\ d # ECX
  BY <1>1, <1>2, OutsideKeeps
<1>4. PICK S : S = ShiftAmount(C, r)
  OBVIOUS
<1>5. PICK right : right = IF isReg(C, r) THEN C.reg[r] ELSE S.reg[r]
  OBVIOUS
<1>6. PICK lost, D : lost = ShiftClash(S, d, right, l, r) /\ D = Clash(S, lost)
  OBVIOUS
<1>7. Amount(D, c, d, n, right, l, r)
  BY <1>1, <1>3, <1>4, <1>5, <1>6, AmountKeeps
<1>8. B = ShiftBy(D, d, right, n, l, r)
  BY <1>2, <1>3, <1>4, <1>5, <1>6 DEF bitshift
<1>9. PICK E : E = Compute(D, d, n, {<<Reg(d), l>>, <<Reg(ECX), r>>}, {})
  OBVIOUS
<1>10. CASE right = ECX
  <2>1. AllocInv(D, c, d, n) /\ D.reg[r] = ECX /\ d \in D.free
    BY <1>7, <1>10 DEF Amount
  <2>2. B = allocLeft(E, d, l)
    BY <1>8, <1>9, <1>10 DEF ShiftBy
  <2>3. PICK use, clobber : use = {<<Reg(d), l>>, <<Reg(ECX), r>>} /\ clobber = {}
    OBVIOUS
  <2>4. E = Compute(D, d, n, use, clobber)
    BY <1>9, <2>3
  <2>5. \A u \in use : Fetched(D, c, d, l, u)
    <3>1. HomeOf(D, r, Reg(ECX))
      BY <2>1, PlaceTypes DEF HomeOf
    <3> QED BY <1>1, <2>3, <3>1 DEF Fetched
  <2>6. \A p \in clobber : \E q \in D.free : q # d /\ p = Reg(q)
    BY <2>3
  <2>7. AllocInv(E, c, d, l) /\ SameAlloc(D, E)
    BY <1>1, <2>1, <2>4, <2>5, <2>6, ComputeKeeps
  <2>8. d \in E.free
    BY <2>1, <2>7 DEF SameAlloc
  <2> QED BY <1>1, <2>2, <2>7, <2>8, AllocLeftKeeps
<1>11. CASE right # ECX
  <2>1. PICK F : F = Copy(E, Reg(ECX), Reg(right))
    OBVIOUS
  <2>2. B = allocLeft(F, d, l)
    BY <1>8, <1>9, <1>11, <2>1 DEF ShiftBy
  <2>3. right \in kGPR /\ AllocInv(D, c, d, n)
    BY <1>7 DEF Amount
  <2>4. D.clash \/ (D.reg[r] = right /\ ECX \in D.free /\ (d \in D.free \/ (right = d /\ l = r)))
    BY <1>7, <1>11 DEF Amount
  <2>5. AllocInv(F, c, d, l) /\ SameAlloc(D, F)
    <3>1. c \in Int /\ c <= NumIns /\ l \in Live(c) /\ r \in Live(c)
      BY <1>1
    <3> QED BY ONLY <1>3, <1>9, <2>1, <2>3, <2>4, <3>1, ShiftKeeps
  <2>6. d \in F.free \/ F.reg[l] = d \/ (F.clash /\ l \notin Lits)
    BY <2>4, <2>5 DEF SameAlloc
  <2> QED BY <1>1, <2>2, <2>5, <2>6, AllocLeftKeeps
<1> QED BY <1>10, <1>11

\* A division, which takes eax and edx (divmod).
LEMMA DivmodKeeps ==
  ASSUME NEW n \in 1..NumIns, NEW A, Settled(A, n), NEW l \in Live(n - 1), NEW r \in Live(n - 1),
         NEW result \in {EAX, EDX}, NEW B, B = divmod(A, n, l, r, result)
  PROVE  Settled(B, n - 1)
<1>1. PICK c \in Int : c = n - 1 /\ c <= NumIns
  BY LiveBefore
<1>2. PICK other, allow : other = (IF result = EAX THEN EDX ELSE EAX) /\ allow = kGPR \ {EAX, EDX}
  OBVIOUS
<1>3. /\ result \in kGPR /\ other \in kGPR /\ other # result /\ {result, other} = {EAX, EDX}
      /\ result # NoReg /\ other # NoReg
  BY <1>2, PlaceTypes
<1>4. /\ allow \in SUBSET kGPR /\ allow # {} /\ result \notin allow /\ other \notin allow
  BY <1>2, <1>3, Enough
<1>5. PICK V : V = evictSet(A, other)
  OBVIOUS
<1>6. Settled(V, n) /\ other \in V.free
  <2>1. n \in Int /\ n <= NumIns /\ other # NoReg
    BY <1>3, LiveBefore
  <2> QED BY <1>3, <1>5, <2>1, EvictSetKeeps DEF Settled
<1>7. PICK al : al = allow \cup {result}
  OBVIOUS
<1>8. al \in SUBSET kGPR /\ al # {} /\ other \notin al
  BY <1>3, <1>4, <1>7
<1>9. PICK D : D = destReg(V, n, al)
  OBVIOUS
<1>10. Dest(V, D, n, al)
  BY <1>6, <1>8, <1>9, DestKeeps
<1>11. PICK d \in kGPR : d = D.r /\ d \in D.free /\ AllocInv(D, c, d, n) /\ other \in D.free /\ d # other
  <2>1. D.r # other
    <3>1. n \in Live(n)
      BY LiveBefore
    <3>2. V.reg[n] # other
      BY <1>6, <3>1, FreeIsNoHome DEF Settled
    <3> QED BY <1>8, <1>10, <3>2 DEF Dest
  <2> QED BY <1>1, <1>6, <1>10, <2>1 DEF Dest
<1>12. PICK T : T = IF D.r = result THEN D ELSE Copy(evictSet(D, result), Reg(D.r), Reg(result))
  OBVIOUS
<1>13. AllocInv(T, c, result, n) /\ result \in T.free /\ other \in T.free
  <2>1. CASE d = result
    BY <1>11, <1>12, <2>1
  <2>2. CASE d # result
    <3>1. PICK F : F = evictSet(D, result)
      OBVIOUS
    <3>2. /\ AllocInv(F, c, d, n) /\ result \in F.free /\ \A q \in D.free : q \in F.free
      BY <1>1, <1>3, <1>11, <2>2, <3>1, EvictSetKeeps
    <3>3. T = Copy(F, Reg(d), Reg(result))
      BY <1>11, <1>12, <2>2, <3>1
    <3>4. AllocInv(T, c, result, n) /\ SameAlloc(F, T)
      BY <1>1, <1>3, <2>2, <3>2, <3>3, MovePending
    <3> QED BY <1>11, <3>2, <3>4 DEF SameAlloc
  <2> QED BY <2>1, <2>2
<1>14. PICK E : E = alloc1(T, r, allow)
  OBVIOUS
<1>15. AllocInv(E, c, result, n) /\ Taking(T, E, r, allow)
  BY <1>1, <1>4, <1>13, <1>14, Alloc1Keeps
<1>16. result \in E.free /\ other \in E.free
  BY <1>1, <1>4, <1>13, <1>15, FreeIsNoHome DEF Taking
<1>17. PICK q \in kGPR : q = E.r /\ E.reg[r] = q /\ q # NoReg
  BY <1>15, PlaceTypes DEF Taking
<1>18. PICK use, clobber : use = {<<Reg(EAX), l>>, <<Reg(q), r>>} /\ clobber = {Reg(other)}
  OBVIOUS
<1>19. PICK X : X = Compute(E, result, n, use, clobber)
  OBVIOUS
<1>20. B = allocLeft(X, EAX, l)
  BY <1>2, <1>5, <1>7, <1>9, <1>12, <1>14, <1>17, <1>18, <1>19 DEF divmod
<1>21. EAX \in E.free /\ EAX \in kGPR
  BY <1>3, <1>16, PlaceTypes
<1>22. AllocInv(X, c, EAX, l) /\ SameAlloc(E, X)
  <2>1. \A u \in use : Fetched(E, c, EAX, l, u)
    <3>1. HomeOf(E, r, Reg(q))
      BY <1>17 DEF HomeOf
    <3> QED BY <1>1, <1>18, <3>1 DEF Fetched
  <2>2. \A p \in clobber : \E u \in E.free : u # result /\ p = Reg(u)
    BY <1>3, <1>16, <1>18
  <2> QED BY <1>1, <1>3, <1>15, <1>19, <1>21, <2>1, <2>2, ComputeKeeps
<1>23. EAX \in X.free
  BY <1>21, <1>22 DEF SameAlloc
<1> QED BY <1>1, <1>20, <1>21, <1>22, <1>23, AllocLeftKeeps

\* The registers below n hold no literals.
NoLits(A, n) == \A v \in Lits : A.reg[v] = NoReg \/ A.reg[v] \notin 0..(n - 1)

\* A register that holds a literal gives it up at the start of the trace,
\* where the literal is loaded.
LEMMA EvictConstantKeeps ==
  ASSUME NEW A, NEW c \in Int, c <= NumIns, Settled(A, c), NEW r \in kGPR, NEW B, B = evictConstant(A, r)
  PROVE  /\ Settled(B, c) /\ (B.ok => A.ok)
         /\ \A v \in Lits : B.reg[v] # r /\ (B.reg[v] = NoReg \/ B.reg[v] = A.reg[v])
<1>1. A \in RAState /\ TakenInv(A, c) /\ Lits \subseteq Live(c) /\ Live(c) \subseteq Ref /\ r # NoReg
  BY PlaceTypes, LiveFacts DEF Settled, AllocInv
<1>2. CASE r \notin A.free /\ canRemat(A.cost[r])
  <2>1. PICK u \in Live(c) : u = A.cost[r] /\ A.reg[u] = r
    BY <1>1, <1>2 DEF TakenInv
  <2>2. u \in Lits /\ A.reg[u] # NoReg
    BY <1>1, <1>2, <2>1, RefFacts
  <2>3. B = rematConstant(A, u)
    BY <1>2, <2>1 DEF evictConstant
  <2>4. AllocInv(B, c, NoReg, 0) /\ Later(A, B) /\ Freed(A, B, u)
    BY <2>2, <2>3, RematKeeps DEF Settled
  <2>5. ASSUME NEW v \in Lits PROVE B.reg[v] # r /\ (B.reg[v] = NoReg \/ B.reg[v] = A.reg[v])
    <3>1. CASE v = u
      BY <1>1, <2>4, <3>1 DEF Freed
    <3>2. CASE v # u
      <4>1. B.reg[v] = A.reg[v]
        BY <1>1, <2>4, <3>2 DEF Freed
      <4>2. A.reg[v] # r
        BY <1>1, <2>1, <3>2 DEF TakenInv
      <4> QED BY <4>1, <4>2
    <3> QED BY <3>1, <3>2
  <2> QED BY <2>4, <2>5 DEF Settled, Later
<1>3. CASE ~ (r \notin A.free /\ canRemat(A.cost[r]))
  <2>1. B = A
    BY <1>3 DEF evictConstant
  <2>2. ASSUME NEW v \in Lits, A.reg[v] = r PROVE FALSE
    <3>1. r \notin A.free /\ A.cost[r] = v
      BY <1>1, <2>2 DEF TakenInv
    <3> QED BY <1>1, <1>3, <3>1, RefFacts
  <2> QED BY <2>1, <2>2
<1> QED BY <1>2, <1>3

\* No literal has a register after evictConstants.
LEMMA EvictConstantsKeep ==
  ASSUME NEW A, NEW c \in Int, c <= NumIns, Settled(A, c), NEW B, B = evictConstants(A)
  PROVE  Settled(B, c) /\ (B.ok => A.ok) /\ \A v \in Lits : B.reg[v] = NoReg
<1> DEFINE F(f) == f = [n \in 0..NumRegs |-> IF n = 0 THEN A ELSE evictConstant(f[n - 1], n - 1)]
<1>1. PICK p : p = CHOOSE f : F(f)
  OBVIOUS
<1>2. B = p[NumRegs]
  BY ONLY <1>1, B = evictConstants(A), ZenonT(60) DEF evictConstants, F
<1>3. PICK L \in Nat : L = NumRegs
  BY RegAllocAssumption
<1>4. \A n \in 1..L : n - 1 \in kGPR
  BY <1>3 DEF kGPR
<1> DEFINE D == {X \in RAState : Settled(X, c)}
           G == [n \in 1..L |-> [X \in D |-> evictConstant(X, n - 1)]]
<1>5. ASSUME NEW X \in D, NEW n \in 1..L
      PROVE  /\ evictConstant(X, n - 1) \in D
             /\ evictConstant(X, n - 1).ok => X.ok
             /\ \A v \in Lits : /\ evictConstant(X, n - 1).reg[v] # n - 1
                                /\ \/ evictConstant(X, n - 1).reg[v] = NoReg
                                   \/ evictConstant(X, n - 1).reg[v] = X.reg[v]
  <2>1. PICK r \in kGPR : r = n - 1
    BY <1>4
  <2>2. PICK Y : Y = evictConstant(X, r)
    OBVIOUS
  <2>3. /\ Settled(Y, c) /\ (Y.ok => X.ok)
        /\ \A v \in Lits : Y.reg[v] # r /\ (Y.reg[v] = NoReg \/ Y.reg[v] = X.reg[v])
    BY <2>2, EvictConstantKeeps
  <2>4. Y \in D
    BY <2>3 DEF Settled, AllocInv
  <2> QED BY <2>1, <2>2, <2>3, <2>4
<1>6. A \in D
  BY DEF Settled, AllocInv
<1> HIDE DEF D
<1>7. \E f : F(f)
  <2>1. \A n \in 1..L : \A X \in D : G[n][X] \in D
    BY <1>5
  <2>2. PICK f \in [0..L -> D] : f[0] = A /\ \A n \in 1..L : f[n] = G[n][f[n - 1]]
    <3> HIDE DEF G
    <3>1. Stepwise(L, D, A, G)
      BY <1>6, <2>1 DEF Stepwise
    <3>2. PICK f : Iteration(f, L, D, A, G)
      BY <3>1, Iterate
    <3>3. f \in [0..L -> D] /\ f[0] = A /\ \A n \in 1..L : f[n] = G[n][f[n - 1]]
      BY <3>2 DEF Iteration
    <3> QED BY <3>3
  <2>3. ASSUME NEW n \in 1..L PROVE f[n] = evictConstant(f[n - 1], n - 1)
    <3>1. n - 1 \in 0..L
      OBVIOUS
    <3>2. f[n - 1] \in D
      BY <2>2, <3>1
    <3> QED BY <2>2, <3>2
  <2>4. f = [n \in 0..L |-> IF n = 0 THEN A ELSE evictConstant(f[n - 1], n - 1)]
    <3>1. ASSUME NEW n \in 0..L PROVE f[n] = IF n = 0 THEN A ELSE evictConstant(f[n - 1], n - 1)
      <4>1. n = 0 \/ n \in 1..L
        OBVIOUS
      <4> QED BY <2>2, <2>3, <4>1
    <3> QED BY <2>2, <3>1
  <2> QED BY <1>3, <2>4
<1>8. p = [n \in 0..L |-> IF n = 0 THEN A ELSE evictConstant(p[n - 1], n - 1)]
  BY <1>1, <1>3, <1>7
<1> DEFINE Good(m) == p[m] \in D /\ (p[m].ok => A.ok) /\ NoLits(p[m], m)
           T == {m \in Nat : m <= L => Good(m)}
<1>9. 0 \in T
  <2>1. \A q : q \notin 0..(0 - 1)
    OBVIOUS
  <2>2. NoLits(A, 0)
    BY <2>1 DEF NoLits
  <2>3. p[0] = A
    BY <1>8
  <2> QED BY <1>6, <2>2, <2>3
<1>10. ASSUME NEW m \in T PROVE m + 1 \in T
  <2> SUFFICES ASSUME m + 1 <= L PROVE Good(m + 1)
    OBVIOUS
  <2>1. m \in Nat /\ m <= L /\ m + 1 \in 1..L /\ m + 1 \in 0..L /\ (m + 1) - 1 = m /\ m + 1 # 0
    OBVIOUS
  <2>2. Good(m)
    BY <2>1
  <2>3. p[m + 1] = evictConstant(p[m], m)
    BY <1>8, <2>1
  <2>4. PICK X, Y : X = p[m] /\ Y = p[m + 1]
    OBVIOUS
  <2>5. /\ Y \in D /\ (Y.ok => X.ok)
        /\ \A v \in Lits : Y.reg[v] # m /\ (Y.reg[v] = NoReg \/ Y.reg[v] = X.reg[v])
    <3>1. PICK k \in 1..L : k = m + 1 /\ k - 1 = m
      BY <2>1
    <3>2. Y = evictConstant(X, k - 1) /\ X \in D
      BY <2>2, <2>3, <2>4, <3>1
    <3> HIDE DEF T, Good
    <3>3. /\ Y \in D /\ (Y.ok => X.ok)
          /\ \A v \in Lits : /\ Y.reg[v] # k - 1
                             /\ (Y.reg[v] = NoReg \/ Y.reg[v] = X.reg[v])
      BY <1>5, <3>2
    <3> QED BY <3>1, <3>3
  <2>6. NoLits(Y, m + 1)
    <3> SUFFICES ASSUME NEW v \in Lits, Y.reg[v] # NoReg PROVE Y.reg[v] \notin 0..((m + 1) - 1)
      BY DEF NoLits
    <3>1. Y.reg[v] # m /\ Y.reg[v] = X.reg[v] /\ X.reg[v] \notin 0..(m - 1)
      BY <2>2, <2>4, <2>5 DEF NoLits
    <3>2. \A q : q \in 0..((m + 1) - 1) => q = m \/ q \in 0..(m - 1)
      BY <2>1
    <3> QED BY <3>1, <3>2
  <2> QED BY <2>2, <2>4, <2>5, <2>6
<1>11. T \in SUBSET Nat
  OBVIOUS
<1>12. L \in T
  <2> HIDE DEF T
  <2> QED BY <1>9, <1>10, <1>11, SetInduction
<1>13. Good(L)
  BY <1>12
<1>14. Settled(B, c) /\ (B.ok => A.ok) /\ NoLits(B, NumRegs)
  BY <1>2, <1>3, <1>13 DEF D
<1>15. ASSUME NEW v \in Lits PROVE B.reg[v] = NoReg
  <2>1. B \in RAState /\ v \in Ref
    BY <1>14, RefFacts DEF Settled, AllocInv
  <2>2. B.reg[v] \in kGPR \cup {NoReg}
    BY <2>1, StateFacts
  <2> QED BY <1>14, <2>2 DEF NoLits, kGPR
<1> QED BY <1>14, <1>15

\* What the two properties say at the end, and the inductive invariant: while
\* instructions are left, the allocation is settled.
AtEnd ==
  /\ as.free = kGPR /\ \A v \in Lits : as.reg[v] = NoReg
  /\ as.clash \/ (Consistent(as) /\ \A n \in as.need : AtEntry(n[1], n[2]))

RAIndInv ==
  /\ curins \in Int /\ -1 <= curins /\ curins <= NumIns
  /\ entry \in Inherited \cup {Root}
  /\ curins # -1 => Settled(as, curins)
  /\ curins = NumIns => as.reg[curins] = NoReg /\ as.spill[curins] = 0
  /\ curins = -1 /\ as.ok => AtEnd

\* Two live values are never kept in the same place.
LEMMA HomesDiffer ==
  ASSUME NEW A, NEW c \in Int, c <= NumIns, TakenInv(A, c), SlotsInv(A), NEW v \in Live(c), NEW w \in Live(c),
         NEW p, HomeOf(A, v, p), HomeOf(A, w, p)
  PROVE  v = w
<1>1. v \in Ref /\ w \in Ref
  BY LiveFacts
<1>2. CASE A.reg[v] # NoReg /\ p = Reg(A.reg[v])
  <2>1. A.reg[w] = A.reg[v]
    BY <1>2, PlaceFacts DEF HomeOf
  <2> QED BY <1>2, <2>1 DEF TakenInv
<1>3. CASE A.spill[v] # 0 /\ p = Spill(A.spill[v])
  <2>1. A.spill[w] = A.spill[v]
    BY <1>3, PlaceFacts DEF HomeOf
  <2> QED BY <1>1, <1>3, <2>1 DEF SlotsInv
<1> QED BY <1>2, <1>3 DEF HomeOf

\* No place is needed for two values.
LEMMA SettledConsistent ==
  ASSUME NEW A, NEW c \in Int, c <= NumIns, Settled(A, c), A.ok, ~ A.clash
  PROVE  Consistent(A)
<1>1. A \in RAState /\ A.wrong = FALSE /\ TakenInv(A, c) /\ SlotsInv(A)
  BY NotVoid DEF Settled
<1>4. ~ A.wrong
  BY <1>1
<1>2. A.need \subseteq (Place \cup Lost) \X Ref
  BY <1>1 DEF RAState
<1>3. ASSUME NEW m \in A.need, NEW n \in A.need, m[1] = n[1] PROVE m[2] = n[2]
  <2>1. m = <<m[1], m[2]>> /\ n = <<n[1], n[2]>>
    BY <1>2
  <2>2. PICK p, v, w : m = <<p, v>> /\ n = <<p, w>>
    BY <1>3, <2>1
  <2>3. <<p, v>> \in A.need /\ <<p, w>> \in A.need
    BY <2>2
  <2>4. v \in Live(c) /\ HomeOf(A, v, p)
    BY <2>3, SettledNeed
  <2>5. w \in Live(c) /\ HomeOf(A, w, p)
    BY <2>3, SettledNeed
  <2>6. v = w
    BY <1>1, <2>4, <2>5, HomesDiffer
  <2> QED BY <2>2, <2>6
<1> QED BY <1>1, <1>3, <1>4 DEF Consistent, SlotsInv

\* A register that is taken has the value the allocator takes it for, and no
\* other.
LEMMA SettledRegisters ==
  ASSUME NEW A, NEW c \in Int, c <= NumIns, Settled(A, c), NEW r \in kGPR
  PROVE  {ref \in Live(c) : A.reg[ref] = r} = IF r \in A.free THEN {} ELSE {A.cost[r]}
<1>1. TakenInv(A, c) /\ r # NoReg
  BY PlaceTypes DEF Settled, AllocInv
<1>2. CASE r \in A.free
  <2>1. \A v \in Live(c) : A.reg[v] # r
    BY <1>1, <1>2 DEF TakenInv
  <2> QED BY <1>2, <2>1
<1>3. CASE r \notin A.free
  <2>1. A.cost[r] \in Live(c) /\ A.reg[A.cost[r]] = r
    BY <1>1, <1>3 DEF TakenInv
  <2>2. \A v \in Live(c) : A.reg[v] = r => v = A.cost[r]
    BY <1>1 DEF TakenInv
  <2> QED BY <1>3, <2>1, <2>2
<1> QED BY <1>2, <1>3

\* Where the parent leaves the inherited values.
LEMMA EntryFacts ==
  ASSUME NEW e \in Inherited \cup {Root}, NEW n \in 1..NumInputs
  PROVE  e[n].reg \in kGPR \cup {NoReg} /\ e[n].spill \in {0, n} /\ e[n].spill \in 0..NumSpills
<1>1. NumInputs \in Nat /\ NumSpills \in Nat /\ NumInputs <= NumSpills
  BY RegAllocAssumption
<1>2. CASE e = Root
  <2>1. e[n] = [reg |-> NoReg, spill |-> 0]
    BY <1>2 DEF Root, Nowhere
  <2> QED BY <1>1, <2>1
<1>3. CASE e \in Inherited
  <2>1. e[n] \in [reg : kGPR \cup {NoReg}, spill : 0..NumInputs] /\ e[n].spill \in {0, n}
    BY <1>3 DEF Inherited
  <2>2. e[n].reg \in kGPR \cup {NoReg}
    BY <2>1
  <2>3. \A s \in {0, n} : s \in 0..NumSpills
    BY <1>1
  <2> QED BY <2>1, <2>2, <2>3
<1> QED BY <1>2, <1>3

\* No value has a register; the inherited ones have the slots of the parent.
Fresh(A, e) ==
  /\ \A s \in A.spills : s \in 1..NumSpills /\ \A n \in 1..NumInputs : s # e[n].spill
  /\ \A v \in Ref : /\ A.reg[v] = NoReg
                    /\ A.spill[v] = IF v \in 1..NumInputs THEN e[v].spill ELSE 0

\* The state in which the assembly starts (setup).
LEMMA SetupFields ==
  ASSUME NEW e \in Inherited \cup {Root}, NEW A, A = setup(e)
  PROVE  /\ A \in RAState /\ A.free = kGPR /\ A.need = {} /\ A.wrong = FALSE /\ A.ok = TRUE
         /\ Fresh(A, e)
<1>1. PICK sp, h, f : /\ sp = [ref \in Ref |-> IF ref \in 1..NumInputs THEN e[ref].spill ELSE 0]
                      /\ h = [ref \in Ref |-> IF ref \in 1..NumInputs THEN e[ref].reg ELSE NoReg]
                      /\ f = 1..NumSpills \ {e[n].spill : n \in 1..NumInputs}
  OBVIOUS
<1>2. PICK c, g : c = [r \in kGPR |-> 0] /\ g = [ref \in Ref |-> NoReg]
  OBVIOUS
<1>3. A = [free |-> kGPR, cost |-> c, spills |-> f, reg |-> g, hint |-> h, spill |-> sp,
           need |-> {}, wrong |-> FALSE, clash |-> FALSE, r |-> NoReg, ok |-> TRUE]
  BY <1>1, <1>2 DEF setup
<1>4. sp \in [Ref -> 0..NumSpills]
  <2>1. 0 \in 0..NumSpills
    BY RegAllocAssumption
  <2>2. \A v \in Ref : (IF v \in 1..NumInputs THEN e[v].spill ELSE 0) \in 0..NumSpills
    BY <2>1, EntryFacts
  <2> QED BY <1>1, <2>2
<1>5. h \in [Ref -> kGPR \cup {NoReg}]
  <2>1. \A v \in Ref : (IF v \in 1..NumInputs THEN e[v].reg ELSE NoReg) \in kGPR \cup {NoReg}
    BY EntryFacts
  <2> QED BY <1>1, <2>1
<1>6. c \in [kGPR -> Ref \cup {0}] /\ g \in [Ref -> kGPR \cup {NoReg}] /\ f \subseteq 1..NumSpills
  BY <1>1, <1>2
<1>7. A \in RAState
  BY <1>3, <1>4, <1>5, <1>6 DEF RAState
<1>8. A.free = kGPR /\ A.need = {} /\ A.wrong = FALSE /\ A.ok = TRUE /\ A.spills = f /\ A.reg = g /\ A.spill = sp
  BY <1>3
<1>9. \A s \in f : s \in 1..NumSpills /\ \A n \in 1..NumInputs : s # e[n].spill
  BY <1>1
<1>10. \A v \in Ref : /\ g[v] = NoReg
                      /\ sp[v] = IF v \in 1..NumInputs THEN e[v].spill ELSE 0
  BY <1>1, <1>2
<1> QED BY <1>7, <1>8, <1>9, <1>10 DEF Fresh

\* The assembly starts with nothing needed.
LEMMA InitSettled ==
  RAInit => RAIndInv
<1> SUFFICES ASSUME RAInit PROVE RAIndInv
  OBVIOUS
<1>1. curins = NumIns /\ as = setup(entry) /\ entry \in Inherited \cup {Root}
  BY DEF RAInit
<1>2. NumIns \in Nat /\ NumInputs \in Nat /\ NumInputs < NumIns
  BY RegAllocAssumption
<1>3. PICK A, e : A = as /\ e = entry
  OBVIOUS
<1>4. /\ A \in RAState /\ A.free = kGPR /\ A.need = {} /\ A.wrong = FALSE /\ A.ok = TRUE
      /\ (\A s \in A.spills : s \in 1..NumSpills /\ \A n \in 1..NumInputs : s # e[n].spill)
      /\ \A v \in Ref : /\ A.reg[v] = NoReg
                        /\ A.spill[v] = IF v \in 1..NumInputs THEN e[v].spill ELSE 0
  <2>1. e \in Inherited \cup {Root} /\ A = setup(e)
    BY <1>1, <1>3
  <2>2. A \in RAState /\ A.free = kGPR /\ A.need = {} /\ A.wrong = FALSE /\ A.ok = TRUE /\ Fresh(A, e)
    BY <2>1, SetupFields
  <2> QED BY <2>2 DEF Fresh
<1>5. Live(NumIns) \subseteq Ref
  BY <1>2, LiveFacts
<1>6. TakenInv(A, NumIns)
  BY <1>4, <1>5 DEF TakenInv
<1>7. \A v \in Lits : v \in Ref /\ v \notin 1..NumInputs
  <2>1. \A v \in Lits : v \in Ref /\ v \notin 1..NumIns
    BY RefFacts
  <2>2. \A v \in 1..NumInputs : v \in 1..NumIns
    BY <1>2
  <2> QED BY <2>1, <2>2
<1>8. \A v \in Ref : A.spill[v] = 0 \/ (v \in 1..NumInputs /\ A.spill[v] = e[v].spill /\ e[v].spill = v)
  BY <1>1, <1>3, <1>4, EntryFacts
<1>9. SlotsInv(A)
  <2>1. ASSUME NEW v \in Ref PROVE A.spill[v] \notin A.spills
    <3>1. 0 \notin 1..NumSpills
      OBVIOUS
    <3>2. \A s \in A.spills : s # 0
      BY <1>4, <3>1
    <3> QED BY <1>4, <1>8, <3>2
  <2>2. ASSUME NEW v \in Ref, NEW w \in Ref, v # w, A.spill[v] # 0 PROVE A.spill[v] # A.spill[w]
    BY <1>8, <2>2
  <2>3. \A v \in Lits : A.spill[v] = 0
    BY <1>4, <1>7
  <2> QED BY <2>1, <2>2, <2>3 DEF SlotsInv
<1>10. NeedInv(A, NumIns, NoReg, 0)
  BY <1>4 DEF NeedInv
<1>11. Settled(A, NumIns)
  BY <1>4, <1>6, <1>9, <1>10 DEF Settled, AllocInv, Void
<1>12. A.reg[NumIns] = NoReg /\ A.spill[NumIns] = 0
  <2>1. NumIns \in Ref /\ NumIns \notin 1..NumInputs
    BY <1>2, RefFacts
  <2> QED BY <1>4, <2>1
<1>13. curins \in Int /\ -1 <= curins /\ curins <= NumIns /\ curins # -1
  BY <1>1, <1>2
<1> QED BY <1>1, <1>3, <1>11, <1>12, <1>13 DEF RAIndInv

\* The operands and snapshots of an instruction are of values before it.
LEMMA BeforeFacts ==
  ASSUME curins \in 1..NumIns
  PROVE  /\ \A v \in Before : v \in Live(curins - 1) /\ v \notin Lits
         /\ \A v \in Lits : v \in Live(curins - 1)
         /\ \A s \in Snaps : s \in Seq(1..(curins - 1))
         /\ curins - 1 \in Int /\ curins - 1 <= NumIns
<1>1. curins - 1 \in Int /\ curins - 1 <= NumIns
  BY LiveBefore
<1>2. PICK c \in Int : c = curins - 1 /\ c <= NumIns
  BY <1>1
<1>3. \A v \in 1..c : v \in Live(c) /\ v \notin Lits
  BY <1>2, LiveFacts
<1>4. \A s \in SeqOf(Before, 2) : s \in Seq(1..c)
  BY <1>2, SeqOfIsSeq DEF Before
<1> QED BY <1>1, <1>2, <1>3, <1>4 DEF Before, Live, Snaps

\* The code for instruction curins was emitted.
LEMMA EmittedKeeps ==
  ASSUME RAIndInv, curins \in 1..NumIns, NEW X, Settled(X, curins - 1), Assemble(X)
  PROVE  RAIndInv'
<1>1. curins' = curins - 1 /\ entry' = entry /\ as' = [X EXCEPT !.r = NoReg]
  BY DEF Assemble
<1>2. PICK c : c = curins - 1
  OBVIOUS
<1>3. /\ c \in Int /\ -1 <= c /\ c <= NumIns /\ c # -1 /\ c # NumIns
  <2>1. NumIns \in Nat /\ curins \in Int /\ 1 <= curins /\ curins <= NumIns
    BY RegAllocAssumption
  <2> QED BY <1>2, <2>1
<1>4. PICK B : B = [X EXCEPT !.r = NoReg]
  OBVIOUS
<1>5. Settled(B, c)
  <2>1. NoReg \in kGPR \cup {NoReg} /\ Settled(X, c)
    BY <1>2
  <2> QED BY <1>4, <2>1, SetRKeeps DEF Settled
<1>6. curins' = c /\ as' = B
  BY <1>1, <1>2, <1>4
<1>7. Settled(as, curins)'
  BY <1>5, <1>6 DEF Settled, AllocInv, TakenInv, SlotsInv, NeedInv, HomeOf, Void
<1> QED BY <1>1, <1>3, <1>6, <1>7 DEF RAIndInv

\* The instruction between the inputs and SAVE.
LEMMA MiddleFacts ==
  ASSUME RAIndInv, NEW op, Middle(op)
  PROVE  curins \in 1..NumIns /\ Settled(as, curins)
<1>1. NumInputs \in Nat /\ NumIns \in Nat
  BY RegAllocAssumption
<1>2. curins \in Int /\ NumInputs < curins /\ curins < NumIns
  BY DEF RAIndInv, Middle
<1>3. curins \in 1..NumIns /\ curins # -1
  BY <1>1, <1>2
<1> QED BY <1>3 DEF RAIndInv

\* An instruction whose value no later one uses.
LEMMA UnusedFacts ==
  ASSUME RAIndInv, NEW op, Middle(op), Unused
  PROVE  curins \in 1..NumIns /\ Settled(as, curins - 1)
<1>1. curins \in 1..NumIns /\ Settled(as, curins)
  BY MiddleFacts
<1> QED BY <1>1, UnusedSettled DEF Unused

\* SAVE, the last instruction.
LEMMA SaveStep ==
  ASSUME RAIndInv, AsmSave
  PROVE  RAIndInv'
<1>1. PICK snap \in SeqOf(Before \cup Lits, 2) : Assemble(save(as, snap))
  BY DEF AsmSave
<1>2. curins \in 1..NumIns /\ Settled(as, curins) /\ as.reg[curins] = NoReg /\ as.spill[curins] = 0
  <2>1. NumIns \in Nat /\ NumInputs \in Nat /\ NumInputs < NumIns /\ curins = NumIns
    BY RegAllocAssumption DEF AsmSave
  <2>2. curins \in 1..NumIns /\ curins # -1
    BY <2>1
  <2> QED BY <2>1, <2>2 DEF RAIndInv
<1>3. PICK c \in Int : c = curins - 1 /\ c <= NumIns
  BY <1>2, BeforeFacts
<1>4. Settled(as, c)
  BY <1>2, <1>3, UnusedSettled
<1>5. snap \in Seq(Live(c))
  <2>1. Before \cup Lits \subseteq Live(c)
    BY <1>2, <1>3, BeforeFacts
  <2> QED BY <1>1, <2>1, SeqOfIsSeq
<1>6. PICK A, X : A = as /\ X = memstores(A, snap)
  OBVIOUS
<1>7. Settled(X, c)
  BY <1>3, <1>4, <1>5, <1>6, MemstoresKeep
<1> QED BY <1>1, <1>2, <1>3, <1>6, <1>7, EmittedKeeps DEF save

\* An arithmetic instruction.
LEMMA ArithStep ==
  ASSUME RAIndInv, AsmArith \/ AsmMul
  PROVE  RAIndInv'
<1>1. PICK l \in Before, r \in Before \cup Lits :
        \/ Assemble(intArith(as, curins, l, r))
        \/ Assemble(imulLiteral(as, curins, l, r))
  BY DEF AsmArith, AsmMul
<1>2. curins \in 1..NumIns /\ Settled(as, curins)
  BY MiddleFacts DEF AsmArith, AsmMul
<1>3. l \in Live(curins - 1) /\ r \in Live(curins - 1)
  BY <1>2, BeforeFacts
<1>4. PICK A, n : A = as /\ n = curins
  OBVIOUS
<1>5. Settled(intArith(A, n, l, r), n - 1)
  BY <1>2, <1>3, <1>4, IntArithKeeps
<1>6. Settled(imulLiteral(A, n, l, r), n - 1)
  BY <1>2, <1>3, <1>4, ImulLiteralKeeps
<1> QED BY <1>1, <1>2, <1>4, <1>5, <1>6, EmittedKeeps

\* A negation.
LEMMA NegStep ==
  ASSUME RAIndInv, AsmNeg
  PROVE  RAIndInv'
<1>1. PICK l \in Before \cup Lits : Assemble(intNegNot(as, curins, l))
  BY DEF AsmNeg
<1>2. curins \in 1..NumIns /\ Settled(as, curins)
  BY MiddleFacts DEF AsmNeg
<1>3. l \in Live(curins - 1)
  BY <1>2, BeforeFacts
<1>4. Settled(intNegNot(as, curins, l), curins - 1)
  BY <1>2, <1>3, IntNegNotKeeps
<1> QED BY <1>1, <1>2, <1>4, EmittedKeeps

\* A division.
LEMMA DivModStep ==
  ASSUME RAIndInv, AsmDivMod
  PROVE  RAIndInv'
<1>1. PICK l \in Before \cup Lits, r \in Before \cup Lits, result \in {EAX, EDX} :
        Assemble(divmod(as, curins, l, r, result))
  BY DEF AsmDivMod
<1>2. curins \in 1..NumIns /\ Settled(as, curins)
  BY MiddleFacts DEF AsmDivMod
<1>3. l \in Live(curins - 1) /\ r \in Live(curins - 1)
  BY <1>2, BeforeFacts
<1>4. Settled(divmod(as, curins, l, r, result), curins - 1)
  BY <1>2, <1>3, DivmodKeeps
<1> QED BY <1>1, <1>2, <1>4, EmittedKeeps

\* A load of a field.
LEMMA FloadStep ==
  ASSUME RAIndInv, AsmFload
  PROVE  RAIndInv'
<1>1. PICK base \in Before : Assemble(fieldLoad(as, curins, base))
  BY DEF AsmFload
<1>2. curins \in 1..NumIns /\ Settled(as, curins)
  BY MiddleFacts DEF AsmFload
<1>3. base \in Live(curins - 1)
  BY <1>2, BeforeFacts
<1>4. Settled(fieldLoad(as, curins, base), curins - 1)
  BY <1>2, <1>3, FieldLoadKeeps
<1> QED BY <1>1, <1>2, <1>4, EmittedKeeps

\* A guard on one operand.
LEMMA GuardStep ==
  ASSUME RAIndInv, AsmGuard
  PROVE  RAIndInv'
<1>1. PICK l \in Before, k \in SmallLits, snap \in Snaps : Assemble(compareImm(as, l, k, snap))
  BY DEF AsmGuard
<1>2. curins \in 1..NumIns /\ Settled(as, curins - 1)
  BY UnusedFacts DEF AsmGuard
<1>3. PICK c \in Int : c = curins - 1 /\ c <= NumIns
  BY <1>2, BeforeFacts
<1>4. l \in Live(c) /\ l \notin Lits /\ snap \in Seq(1..c)
  BY <1>2, <1>3, BeforeFacts
<1>5. Settled(compareImm(as, l, k, snap), c)
  BY <1>2, <1>3, <1>4, CompareImmKeeps
<1> QED BY <1>1, <1>2, <1>3, <1>5, EmittedKeeps

\* A heap check.
LEMMA HeapCheckStep ==
  ASSUME RAIndInv, AsmHeapCheck
  PROVE  RAIndInv'
<1>1. PICK snap \in Snaps : Assemble(heapCheck(as, snap))
  BY DEF AsmHeapCheck
<1>2. curins \in 1..NumIns /\ Settled(as, curins - 1)
  BY UnusedFacts DEF AsmHeapCheck
<1>3. PICK c \in Int : c = curins - 1 /\ c <= NumIns
  BY <1>2, BeforeFacts
<1>4. snap \in Seq(1..c)
  BY <1>2, <1>3, BeforeFacts
<1>5. Settled(heapCheck(as, snap), c)
  BY <1>2, <1>3, <1>4, HeapCheckKeeps
<1> QED BY <1>1, <1>2, <1>3, <1>5, EmittedKeeps

\* An allocation.
LEMMA NewStep ==
  ASSUME RAIndInv, AsmNew
  PROVE  RAIndInv'
<1>1. PICK fields \in SeqOf(Before, 2), info \in Lits : Assemble(insNew(as, curins, fields, info))
  BY DEF AsmNew
<1>2. curins \in 1..NumIns /\ Settled(as, curins)
  BY MiddleFacts DEF AsmNew
<1>3. info \in Live(curins - 1) /\ Before \subseteq Live(curins - 1)
  BY <1>2, BeforeFacts
<1>4. fields \in Seq(Live(curins - 1))
  BY <1>1, <1>3, SeqOfIsSeq
<1>5. Settled(insNew(as, curins, fields, info), curins - 1)
  BY <1>2, <1>3, <1>4, InsNewKeeps
<1> QED BY <1>1, <1>2, <1>5, EmittedKeeps

\* An update.
LEMMA UpdateStep ==
  ASSUME RAIndInv, AsmUpdate
  PROVE  RAIndInv'
<1>1. PICK old \in Before, new \in Before, ind \in Lits : Assemble(insUpdate(as, old, new, ind))
  BY DEF AsmUpdate
<1>2. curins \in 1..NumIns /\ Settled(as, curins - 1)
  BY UnusedFacts DEF AsmUpdate
<1>3. PICK c \in Int : c = curins - 1 /\ c <= NumIns
  BY <1>2, BeforeFacts
<1>4. old \in Live(c) /\ new \in Live(c) /\ ind \in Live(c)
  BY <1>2, <1>3, BeforeFacts
<1>5. Settled(insUpdate(as, old, new, ind), c)
  BY <1>2, <1>3, <1>4, InsUpdateKeeps
<1> QED BY <1>1, <1>2, <1>3, <1>5, EmittedKeeps

\* A comparison.
LEMMA CompareStep ==
  ASSUME RAIndInv, AsmCompare
  PROVE  RAIndInv'
<1>1. PICK l \in Before, r \in Before \cup BigLits, snap \in Snaps : Assemble(compare(as, l, r, snap))
  BY DEF AsmCompare
<1>2. curins \in 1..NumIns /\ Settled(as, curins - 1)
  BY UnusedFacts DEF AsmCompare
<1>3. PICK c \in Int : c = curins - 1 /\ c <= NumIns
  BY <1>2, BeforeFacts
<1>4. l \in Live(c) /\ l \notin Lits /\ r \in Live(c) /\ snap \in Seq(1..c)
  BY <1>2, <1>3, BeforeFacts, RefFacts
<1>5. Settled(compare(as, l, r, snap), c)
  BY <1>2, <1>3, <1>4, CompareKeeps
<1> QED BY <1>1, <1>2, <1>3, <1>5, EmittedKeeps

\* A guard on an info table.
LEMMA ItblGuardStep ==
  ASSUME RAIndInv, AsmItblGuard
  PROVE  RAIndInv'
<1>1. PICK l \in Before, r \in Lits, snap \in Snaps : Assemble(itblGuard(as, l, r, snap))
  BY DEF AsmItblGuard
<1>2. curins \in 1..NumIns /\ Settled(as, curins - 1)
  BY UnusedFacts DEF AsmItblGuard
<1>3. PICK c \in Int : c = curins - 1 /\ c <= NumIns
  BY <1>2, BeforeFacts
<1>4. l \in Live(c) /\ l \notin Lits /\ r \in Live(c) /\ snap \in Seq(1..c)
  BY <1>2, <1>3, BeforeFacts
<1>5. Settled(itblGuard(as, l, r, snap), c)
  BY <1>2, <1>3, <1>4, ItblGuardKeeps
<1> QED BY <1>1, <1>2, <1>3, <1>5, EmittedKeeps

\* A load at an offset.
LEMMA PloadStep ==
  ASSUME RAIndInv, AsmPload
  PROVE  RAIndInv'
<1>1. PICK p \in Before, o \in Before \cup BigLits : Assemble(insPLOAD(as, curins, p, o))
  BY DEF AsmPload
<1>2. curins \in 1..NumIns /\ Settled(as, curins)
  BY MiddleFacts DEF AsmPload
<1>3. p \in Live(curins - 1) /\ p \notin Lits /\ o \in Live(curins - 1)
  BY <1>2, BeforeFacts, RefFacts
<1>4. Settled(insPLOAD(as, curins, p, o), curins - 1)
  BY <1>2, <1>3, InsPloadKeeps
<1> QED BY <1>1, <1>2, <1>4, EmittedKeeps

\* A shift.
LEMMA ShiftStep ==
  ASSUME RAIndInv, AsmShift
  PROVE  RAIndInv'
<1>1. PICK l \in Before, r \in Before : Assemble(bitshift(as, curins, l, r))
  BY DEF AsmShift
<1>2. curins \in 1..NumIns /\ Settled(as, curins)
  BY MiddleFacts DEF AsmShift
<1>3. l \in Live(curins - 1) /\ l \notin Lits /\ r \in Live(curins - 1)
  BY <1>2, BeforeFacts
<1>4. Settled(bitshift(as, curins, l, r), curins - 1)
  BY <1>2, <1>3, BitshiftKeeps
<1> QED BY <1>1, <1>2, <1>4, EmittedKeeps

\* A load of a value from the stack, at the start of a root trace.
LEMMA InputStep ==
  ASSUME RAIndInv, AsmInput
  PROVE  RAIndInv'
<1>1. curins \in 1..NumIns /\ Settled(as, curins)
  <2>1. NumInputs \in Nat /\ NumIns \in Nat /\ NumInputs < NumIns /\ curins \in 1..NumInputs
    BY RegAllocAssumption DEF AsmInput
  <2>2. curins \in 1..NumIns /\ curins # -1
    BY <2>1
  <2> QED BY <2>2 DEF RAIndInv
<1>2. Assemble(Define(destReg(as, curins, kGPR), curins, {}))
  BY DEF AsmInput, emitSLOAD
<1>3. Settled(Define(destReg(as, curins, kGPR), curins, {}), curins - 1)
  BY <1>1, DefineKeeps
<1> QED BY <1>1, <1>2, <1>3, EmittedKeeps

\* The end of the assembly: the literals are loaded, and what is needed is
\* what the trace is entered with.
LEMMA FinishStep ==
  ASSUME RAIndInv, AsmFinish
  PROVE  RAIndInv'
<1>1. PICK A, c : A = evictConstants(as) /\ c = curins
  OBVIOUS
<1>2. /\ as' = [A EXCEPT !.free = @ \cup {A.reg[n] : n \in {m \in 1..c : isReg(A, m)}}]
      /\ curins' = -1 /\ entry' = entry /\ as.ok /\ c = IF entry = Root THEN 0 ELSE NumInputs
  BY <1>1 DEF AsmFinish
<1>3. NumInputs \in Nat /\ NumIns \in Nat /\ NumInputs < NumIns
  BY RegAllocAssumption
<1>4. c \in Int /\ c <= NumIns /\ c # -1 /\ (entry = Root => c = 0) /\ (entry # Root => c = NumInputs)
  BY <1>2, <1>3
<1>5. Settled(A, c) /\ \A v \in Lits : A.reg[v] = NoReg
  <2>1. Settled(as, c)
    BY <1>1, <1>4 DEF RAIndInv
  <2> QED BY <1>1, <1>4, <2>1, EvictConstantsKeep
<1>6. A \in RAState /\ TakenInv(A, c) /\ SlotsInv(A)
  BY <1>5 DEF Settled, AllocInv
<1>7. PICK f : f = A.free \cup {A.reg[n] : n \in {m \in 1..c : isReg(A, m)}}
  OBVIOUS
<1>8. PICK B : B = [A EXCEPT !.free = f]
  OBVIOUS
<1>9. as' = B /\ B.free = f /\ B.reg = A.reg /\ B.spill = A.spill /\ B.need = A.need /\ B.wrong = A.wrong /\ B.clash = A.clash
      /\ B.ok = A.ok
  BY <1>2, <1>6, <1>7, <1>8 DEF RAState
<1>10. f = kGPR
  <2>1. A.free \subseteq kGPR /\ \A m \in 1..c : m \in Ref /\ m \in Live(c)
    BY <1>4, <1>6, LiveFacts, StateFacts
  <2>2. ASSUME NEW m \in 1..c, isReg(A, m) PROVE A.reg[m] \in kGPR
    BY <1>6, <2>1, <2>2, StateFacts DEF isReg
  <2>3. ASSUME NEW r \in kGPR, r \notin A.free PROVE \E m \in 1..c : isReg(A, m) /\ r = A.reg[m]
    <3>1. A.cost[r] \in Live(c) /\ A.reg[A.cost[r]] = r /\ r # NoReg
      BY <1>6, <2>3, PlaceTypes DEF TakenInv
    <3>2. A.cost[r] \notin Lits
      BY <1>5, <3>1
    <3>3. A.cost[r] \in 1..c
      BY <3>1, <3>2 DEF Live
    <3> QED BY <3>1, <3>3 DEF isReg
  <2>4. f \subseteq kGPR
    BY <1>7, <2>1, <2>2
  <2>5. kGPR \subseteq f
    BY <1>7, <2>3
  <2> QED BY <2>4, <2>5
<1>14. ASSUME A.ok, ~ A.clash PROVE Consistent(as)' /\ \A n \in as'.need : AtEntry(n[1], n[2])'
  <2>1. Consistent(A)
    BY <1>4, <1>5, <1>14, SettledConsistent
  <2>2. Consistent(B)
    BY <1>9, <2>1 DEF Consistent
  <2>3. A.need \subseteq (Place \cup Lost) \X Ref
    BY <1>6 DEF RAState
  <2>4. ASSUME NEW n \in A.need
        PROVE  /\ entry # Root /\ n[2] \in 1..NumInputs
               /\ n[1] \in {Reg(A.reg[n[2]]), Spill(A.spill[n[2]])}
    <3>1. PICK p, v : n = <<p, v>>
      BY <2>3
    <3>2. v \in Live(c) /\ HomeOf(A, v, p)
      BY <1>5, <1>14, <3>1, SettledNeed
    <3>3. v \notin Lits
      BY <1>5, <1>6, <3>2 DEF HomeOf, SlotsInv
    <3>4. v \in 1..c
      BY <3>2, <3>3 DEF Live
    <3>5. c = NumInputs /\ entry # Root
      BY <1>3, <1>4, <3>4
    <3>6. p \in {Reg(A.reg[v]), Spill(A.spill[v])}
      BY <3>2 DEF HomeOf
    <3> QED BY <3>1, <3>4, <3>5, <3>6
  <2>5. \A n \in B.need : /\ entry # Root /\ n[2] \in 1..NumInputs
                          /\ n[1] \in {Reg(B.reg[n[2]]), Spill(B.spill[n[2]])}
    BY <1>9, <2>4
  <2>6. \A n \in as'.need : AtEntry(n[1], n[2])'
    BY <1>2, <1>9, <2>5 DEF AtEntry
  <2>7. Consistent(as)'
    BY <1>9, <2>2 DEF Consistent
  <2> QED BY <2>6, <2>7
<1>11. ASSUME A.ok PROVE AtEnd'
  <2>1. as'.free = kGPR /\ \A v \in Lits : as'.reg[v] = NoReg
    BY <1>5, <1>9, <1>10
  <2>2. as'.clash = A.clash
    BY <1>9
  <2> QED BY <1>11, <1>14, <2>1, <2>2 DEF AtEnd
<1>12. entry' \in Inherited \cup {Root} /\ curins' # NumIns /\ -1 <= NumIns
  BY <1>2, <1>3 DEF RAIndInv
<1>13. as'.ok = A.ok
  BY <1>9
<1> QED BY <1>2, <1>11, <1>12, <1>13 DEF RAIndInv

\* The inductive invariant is preserved by every step.
LEMMA RAStep ==
  RAIndInv /\ [RANext]_raVars => RAIndInv'
<1> SUFFICES ASSUME RAIndInv, [RANext]_raVars PROVE RAIndInv'
  OBVIOUS
<1>1. CASE AsmSave
  BY <1>1, SaveStep
<1>2. CASE AsmArith \/ AsmMul
  BY <1>2, ArithStep
<1>3. CASE AsmNeg
  BY <1>3, NegStep
<1>4. CASE AsmDivMod
  BY <1>4, DivModStep
<1>5. CASE AsmFload
  BY <1>5, FloadStep
<1>6. CASE AsmGuard
  BY <1>6, GuardStep
<1>7. CASE AsmHeapCheck
  BY <1>7, HeapCheckStep
<1>8. CASE AsmNew
  BY <1>8, NewStep
<1>9. CASE AsmUpdate
  BY <1>9, UpdateStep
<1>10. CASE AsmCompare
  BY <1>10, CompareStep
<1>11. CASE AsmItblGuard
  BY <1>11, ItblGuardStep
<1>12. CASE AsmPload
  BY <1>12, PloadStep
<1>13. CASE AsmShift
  BY <1>13, ShiftStep
<1>14. CASE AsmInput
  BY <1>14, InputStep
<1>15. CASE AsmFinish
  BY <1>15, FinishStep
<1>16. CASE UNCHANGED raVars
  <2>1. as' = as /\ curins' = curins /\ entry' = entry
    BY <1>16 DEF raVars
  <2>2. PICK A, c : A = as /\ c = curins
    OBVIOUS
  <2>3. as' = A /\ curins' = c
    BY <2>1, <2>2
  <2>4. c # -1 => Settled(A, c)
    BY <2>2 DEF RAIndInv
  <2>5. ASSUME Settled(A, c) PROVE Settled(as, curins)'
    BY <2>3, <2>5 DEF Settled, AllocInv, TakenInv, SlotsInv, NeedInv, HomeOf, Void
  <2>6. (curins # -1 => Settled(as, curins))'
    BY <2>3, <2>4, <2>5
  <2>7. curins = -1 /\ as.ok => AtEnd'
    BY <2>1 DEF RAIndInv, AtEnd, AtEntry, Consistent
  <2> QED BY <2>1, <2>6, <2>7 DEF RAIndInv
<1> QED BY <1>1, <1>2, <1>3, <1>4, <1>5, <1>6, <1>7, <1>8, <1>9, <1>10, <1>11, <1>12, <1>13, <1>14, <1>15, <1>16
   DEF RANext

\* The inductive invariant holds always.
LEMMA IndInvAlways ==
  RASpec => []RAIndInv
BY InitSettled, RAStep, PTL DEF RASpec

\* It says that taken registers are those of live values.
LEMMA IndInvRegisters ==
  RAIndInv => RegistersExact
<1> SUFFICES ASSUME RAIndInv, as.ok PROVE
      /\ \A r \in kGPR :
           {ref \in Lits \cup 1..curins : as.reg[ref] = r} = IF r \in as.free THEN {} ELSE {as.cost[r]}
      /\ curins = -1 => as.free = kGPR
  BY DEF RegistersExact
<1>1. curins \in Int /\ curins <= NumIns
  BY DEF RAIndInv
<1>2. CASE curins = -1
  <2>1. AtEnd
    BY <1>2 DEF RAIndInv
  <2>2. \A r \in kGPR : r # NoReg
    BY PlaceTypes
  <2>3. 1..(-1) = {}
    OBVIOUS
  <2>4. \A r \in kGPR : {ref \in Lits \cup 1..curins : as.reg[ref] = r} = {}
    BY <1>2, <2>1, <2>2, <2>3 DEF AtEnd
  <2> QED BY <2>1, <2>4 DEF AtEnd
<1>3. CASE curins # -1
  <2>1. PICK A, c : A = as /\ c = curins
    OBVIOUS
  <2>2. Settled(A, c) /\ c \in Int /\ c <= NumIns
    BY <1>1, <1>3, <2>1 DEF RAIndInv
  <2>3. ASSUME NEW r \in kGPR
        PROVE  {ref \in Live(c) : A.reg[ref] = r} = IF r \in A.free THEN {} ELSE {A.cost[r]}
    BY <2>2, SettledRegisters
  <2>4. Live(c) = Lits \cup 1..curins
    BY <2>1 DEF Live
  <2> QED BY <1>3, <2>1, <2>3, <2>4
<1> QED BY <1>2, <1>3

\* It says that values are where the code looks for them.
LEMMA IndInvCode ==
  RAIndInv => CodeCorrect
<1> SUFFICES ASSUME RAIndInv, as.ok, ~ as.clash
             PROVE  Consistent(as) /\ (curins = -1 => \A n \in as.need : AtEntry(n[1], n[2]))
  BY DEF CodeCorrect, AtStart
<1>1. CASE curins = -1
  BY <1>1 DEF RAIndInv, AtEnd
<1>2. CASE curins # -1
  BY <1>2, SettledConsistent DEF RAIndInv
<1> QED BY <1>1, <1>2

\* A register is taken by exactly one live value, whatever the number of
\* registers, and at the start of the trace all are free (allocReg, freeReg,
\* the assertion at the end of assemble).
THEOREM RegistersAlwaysExact ==
  RASpec => []RegistersExact
BY IndInvAlways, IndInvRegisters, PTL

\* Unless an instruction takes the register of one operand for another (a
\* comparison, a guard on an info table, a load at an offset or a shift by a
\* variable amount, when no register is free), every operand and every value
\* of a snapshot is where the machine code and restoreSnapshot look for it,
\* however many registers, spill slots and instructions there are.
THEOREM CodeAlwaysCorrect ==
  RASpec => []CodeCorrect
BY IndInvAlways, IndInvCode, PTL
=============================================================================
