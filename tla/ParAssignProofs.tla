--------------------------- MODULE ParAssignProofs ---------------------------
(***************************************************************************)
(* Proofs about ParAssign, for every number of registers, spill slots,     *)
(* moves and inherited values.                                             *)
(***************************************************************************)
EXTENDS ParAssign, SequenceTheorems, TLAPS

-----------------------------------------------------------------------------
(***************************************************************************)
(* The inductive invariant.                                                *)
(***************************************************************************)

StatusType == {"todo", "moving", "done"}

\* The moves that are not emitted yet, and those of them that go to a
\* temporary.
Open(i) == status[i] # "done"
Temp(i) == dest[i] \in freeset \cup {Hp}

ParType ==
  /\ pc \in {"merge", "assign", "done"}
  /\ dest \in Seq(Loc) /\ source \in Seq(Operand) /\ Len(dest) = Len(source)
  /\ usingHp \in BOOLEAN /\ next \in Nat \ {0}
  /\ from \in [Loc -> Loc]
  /\ goal \subseteq Loc \X (Operand \cup {Hp})

\* No two open moves have one destination.  An open move is one of those
\* asked for, and its destination is not free; or it is the only one that
\* goes to a temporary.
MovesInv ==
  /\ status \in [Entry -> StatusType] /\ freeset \subseteq Regs
  /\ \A i \in Entry : dest[i] \in Regs \cup {Hp} \/ source[i] \in Regs
  /\ \A i, k \in Entry : Open(i) /\ Open(k) /\ dest[i] = dest[k] => i = k
  /\ \A i \in Entry : Open(i) =>
       \/ dest[i] \in Operand \ freeset /\ <<dest[i], source[i]>> \in goal
       \/ status[i] = "moving" /\ Temp(i)
  /\ \A i, k \in Entry : Open(i) /\ Open(k) /\ Temp(i) /\ Temp(k) => i = k
  /\ \A i \in Entry : i < next /\ status[i] = "todo" => dest[i] = source[i]

\* The calls of moveOne: which entry overwrites the source of a caller, and
\* what the loop of the newest call has seen.  While a move to a temporary
\* is open, nothing overwrites the source of the newest call any more, so
\* its loop finds no conflict.
StackInv ==
  /\ stack \in Seq([entry : Entry, j : Nat])
  /\ \A m, n \in 1..Len(stack) : stack[m].entry = stack[n].entry => m = n
  /\ \A i \in Entry :
       status[i] = "moving" <=> \E m \in 1..Len(stack) : stack[m].entry = i
  /\ \A m \in 1..(Len(stack) - 1) :
       /\ source[stack[m].entry] \notin freeset
       /\ \A i \in Entry : Open(i) /\ dest[i] = source[stack[m].entry] =>
            i = stack[m + 1].entry
  /\ stack # << >> =>
       \A i \in Entry : Open(i) /\ i < Top.j /\ dest[i] = source[Top.entry] =>
         dest[i] = source[i]
  /\ \A w \in Entry : Open(w) /\ Temp(w) =>
       /\ source[Top.entry] \notin freeset
       /\ \A i \in Entry : Open(i) => dest[i] # source[Top.entry]

\* The content v is what the open moves bring to l.
Brought(l, v) ==
  \/ usingHp /\ l = SaveSlot /\ v = Hp
  \/ l # SaveSlot /\ \E i \in Entry : Open(i) /\ dest[i] = l /\ source[i] = v
  \/ l # SaveSlot /\ l = v /\ \A i \in Entry : Open(i) => dest[i] # l

\* What the code emitted so far reads: what the open moves bring there, and
\* from a temporary only if an open move fills it.
CodeInv ==
  \A g \in goal :
    /\ Brought(from[g[1]], g[2])
    /\ from[g[1]] \in freeset \/ (usingHp /\ from[g[1]] = Hp) =>
         \E i \in Entry : Open(i) /\ dest[i] = from[g[1]]

\* The values the loop of mergeWithParent has passed, and what it did.
HasReg(p) == side[p].reg # None
StoredToo(p) == HasReg(p) /\ side[p].spill # None /\ parent[p] \in Regs
SpillOnly(p) == ~ HasReg(p) /\ side[p].spill # None /\ parent[p] \in Regs
MoveOf(p) == IF HasReg(p) THEN side[p].reg ELSE side[p].spill

SideInv ==
  /\ parent \in [DOMAIN side -> Operand]
  /\ side \in Seq([reg : Regs \cup {None}, spill : Slots \cup {None}])
  /\ \A p \in DOMAIN side : side[p] \in SideLocs(parent[p])
  /\ \A p, q \in DOMAIN side : p # q =>
       /\ side[p].reg # None => side[p].reg # side[q].reg
       /\ side[p].spill # None => side[p].spill # side[q].spill
  /\ \A g \in goal :
       \/ g = <<Hp, Hp>>
       \/ \E p \in DOMAIN side : /\ g[2] = parent[p] /\ g[1] # None
                                 /\ g[1] \in {side[p].reg, side[p].spill}
  /\ \A p \in DOMAIN side : \A l \in {side[p].reg, side[p].spill} :
       l # None => <<l, parent[p]>> \in goal
  /\ freeset = Regs \ {side[p].reg : p \in DOMAIN side}
  /\ stack = << >> /\ usingHp = FALSE

Passed == {p \in DOMAIN side : p < next}

MergedInv ==
  /\ \A i \in Entry : \E p \in Passed :
       /\ HasReg(p) \/ SpillOnly(p)
       /\ dest[i] = MoveOf(p) /\ source[i] = parent[p]
  /\ \A p \in Passed : HasReg(p) \/ SpillOnly(p) =>
       \E i \in Entry : dest[i] = MoveOf(p) /\ source[i] = parent[p]
  /\ \A i, k \in Entry : dest[i] = dest[k] => i = k
  /\ \A p \in Passed : StoredToo(p) => from[side[p].spill] = side[p].reg
  /\ \A l \in Loc : (\A p \in Passed : StoredToo(p) => l # side[p].spill) =>
       from[l] = l

ParInv ==
  /\ ParType
  /\ pc = "merge" => SideInv /\ MergedInv
  /\ pc = "assign" => MovesInv /\ StackInv /\ CodeInv
  /\ pc = "done" => \A g \in goal : from[g[1]] = g[2]

-----------------------------------------------------------------------------

\* The kinds of locations are kept apart.
LEMMA LocFacts ==
  /\ Operand = Regs \cup Slots /\ Regs \cap Slots = {}
  /\ Operand \subseteq Loc /\ Hp \in Loc /\ SaveSlot \in Loc
  /\ Hp \notin Operand /\ SaveSlot \notin Operand /\ None \notin Loc
  /\ Hp # SaveSlot
BY ParAssignAssumption DEF Operand, Loc

\* The effect of a move put in front of the code.
LEMMA EmitFacts ==
  ASSUME NEW f \in [Loc -> Loc], NEW d, NEW s \in Loc
  PROVE  /\ Emit(f, d, s) \in [Loc -> Loc]
         /\ \A l \in Loc : Emit(f, d, s)[l] = IF f[l] = d THEN s ELSE f[l]
BY DEF Emit

\* What InitMerge says of the values and of the moves that are asked for.
LEMMA InitMergeInv ==
  ASSUME InitMerge, usingHp = FALSE, next = 1, stack = << >>, from = NoCode
  PROVE  ParInv
<1> DEFINE R == [reg : Regs \cup {None}, spill : Slots \cup {None}]
<1>1. PICK n \in 1..MaxInherited :
        /\ parent \in {f \in [1..n -> Operand] : IsInjective(f)}
        /\ side \in {f \in [1..n -> R] : \A p \in 1..n : f[p] \in SideLocs(parent[p])}
  BY DEF InitMerge
<1>2. n \in Nat /\ DOMAIN side = 1..n /\ side \in Seq(R)
      /\ parent \in [1..n -> Operand]
      /\ \A p \in 1..n : side[p] \in SideLocs(parent[p])
  <2>1. n \in Nat
    BY ParAssignAssumption
  <2>2. side \in [1..n -> R] /\ parent \in [1..n -> Operand]
        /\ \A p \in 1..n : side[p] \in SideLocs(parent[p])
    BY <1>1
  <2> HIDE DEF R
  <2> QED BY <2>1, <2>2
<1>3. \A p \in 1..n : /\ side[p].reg \in Regs \cup {None}
                      /\ side[p].spill \in Slots \cup {None}
  BY <1>1
<1> HIDE DEF R
<1>4. goal = {<<Hp, Hp>>} \cup
            {g \in UNION {{<<side[p].reg, parent[p]>>, <<side[p].spill, parent[p]>>} :
                          p \in DOMAIN side} : g[1] # None}
  BY DEF InitMerge
<1>5. \A g \in goal :
       \/ g = <<Hp, Hp>>
       \/ \E p \in DOMAIN side : /\ g \in {<<side[p].reg, parent[p]>>, <<side[p].spill, parent[p]>>}
                                 /\ g[1] # None
  BY <1>4
<1>6. \A g \in goal :
       \/ g = <<Hp, Hp>>
       \/ \E p \in DOMAIN side : /\ g = <<g[1], g[2]>> /\ g[2] = parent[p] /\ g[1] # None
                                 /\ g[1] \in {side[p].reg, side[p].spill}
  BY <1>5
<1>7. \A p \in DOMAIN side : \A l \in {side[p].reg, side[p].spill} :
        l # None => <<l, parent[p]>> \in goal
  BY <1>4
<1>8. goal \subseteq Loc \X (Operand \cup {Hp})
  BY <1>2, <1>3, <1>6, LocFacts
<1>9. ParType
  <2>1. dest = << >> /\ source = << >> /\ pc = "merge"
    BY DEF InitMerge
  <2>2. from \in [Loc -> Loc]
    BY DEF NoCode
  <2>3. next \in Nat \ {0} /\ Len(dest) = Len(source)
    BY <2>1
  <2>5. usingHp \in BOOLEAN
    BY Zenon
  <2>4. dest \in Seq(Loc) /\ source \in Seq(Operand)
    BY <2>1
  <2> QED BY <1>8, <2>1, <2>2, <2>3, <2>4, <2>5 DEF ParType
<1>10. SideInv
  <2>1. \A p, q \in DOMAIN side : p # q =>
          /\ side[p].reg # None => side[p].reg # side[q].reg
          /\ side[p].spill # None => side[p].spill # side[q].spill
    BY DEF InitMerge
  <2>2. freeset = Regs \ {side[p].reg : p \in DOMAIN side}
    BY DEF InitMerge
  <2> QED BY <1>2, <1>6, <1>7, <2>1, <2>2 DEF SideInv, R
<1>11. MergedInv
  <2>1. Passed = {}
    BY <1>2 DEF Passed
  <2>2. Entry = {}
    BY DEF InitMerge, Entry
  <2>3. \A l \in Loc : from[l] = l
    BY DEF NoCode
  <2> QED BY <2>1, <2>2, <2>3 DEF MergedInv
<1>12. pc = "merge"
  BY DEF InitMerge
<1> QED BY <1>9, <1>10, <1>11, <1>12 DEF ParInv

\* What the unit tests start with.
LEMMA InitTestInv ==
  ASSUME InitTest, usingHp = FALSE, next = 1, stack = << >>, from = NoCode
  PROVE  ParInv
<1>1. PICK n \in 0..MaxMoves :
        /\ dest \in [1..n -> Operand] /\ source \in [1..n -> Operand]
        /\ IsInjective(dest)
        /\ \A i \in 1..n : dest[i] \in Regs \/ source[i] \in Regs
  <2>1. PICK a \in Assignments : dest = a.dest /\ source = a.source
    BY DEF InitTest
  <2>2. PICK n \in 0..MaxMoves :
          a \in {b \in [dest : [1..n -> Operand], source : [1..n -> Operand]] :
                   /\ IsInjective(b.dest)
                   /\ \A i \in 1..n : b.dest[i] \in Regs \/ b.source[i] \in Regs}
    BY <2>1 DEF Assignments
  <2> QED BY <2>1, <2>2
<1>2. n \in Nat /\ dest \in Seq(Operand) /\ source \in Seq(Operand)
      /\ Len(dest) = n /\ Len(source) = n /\ Entry = 1..n
  BY <1>1, ParAssignAssumption DEF Entry
<1>3. /\ goal = {<<dest[i], source[i]>> : i \in Entry} \cup {<<Hp, Hp>>}
      /\ freeset = Regs \ Range(dest)
      /\ pc = "assign" /\ status = [i \in Entry |-> "todo"]
  BY DEF InitTest
<1>4. \A i \in Entry : dest[i] \in Operand \ freeset /\ source[i] \in Operand
                       /\ <<dest[i], source[i]>> \in goal
  BY <1>1, <1>2, <1>3 DEF Range
<1>5. from \in [Loc -> Loc] /\ \A l \in Loc : from[l] = l
  BY DEF NoCode
<1>6. ParType
  <2>1. goal \subseteq Loc \X (Operand \cup {Hp})
    BY <1>3, <1>4, LocFacts
  <2>2. dest \in Seq(Loc)
    BY <1>1, <1>2, LocFacts
  <2>3. next \in Nat \ {0}
    OBVIOUS
  <2>4. usingHp \in BOOLEAN
    BY Zenon
  <2> QED BY <1>2, <1>3, <1>5, <2>1, <2>2, <2>3, <2>4 DEF ParType
<1>7. \A i \in Entry : status[i] = "todo"
  BY <1>3
<1>8. \A i, k \in Entry : dest[i] = dest[k] => i = k
  BY <1>1, <1>2 DEF IsInjective
<1>9. \A i \in Entry : ~ Temp(i)
  BY <1>4, LocFacts DEF Temp
<1>10. MovesInv
  <2>1. status \in [Entry -> StatusType] /\ freeset \subseteq Regs
    BY <1>3 DEF StatusType
  <2>2. \A i \in Entry : ~ (i < next)
    BY <1>2
  <2> QED BY <1>1, <1>2, <1>4, <1>8, <1>9, <2>1, <2>2 DEF MovesInv
<1>11. StackInv
  BY <1>7, <1>9 DEF StackInv
<1>12. CodeInv
  <2> SUFFICES ASSUME NEW g \in goal
               PROVE  /\ Brought(from[g[1]], g[2])
                      /\ from[g[1]] \in freeset => \E i \in Entry :
                           Open(i) /\ dest[i] = from[g[1]]
    BY DEF CodeInv
  <2>1. CASE g = <<Hp, Hp>>
    <3>1. g[1] = Hp /\ g[2] = Hp /\ from[g[1]] = Hp
      BY <1>5, <2>1, LocFacts
    <3>2. \A i \in Entry : dest[i] # Hp
      BY <1>4, LocFacts
    <3>3. Hp \notin freeset
      BY <1>3, LocFacts
    <3> QED BY <3>1, <3>2, <3>3, LocFacts DEF Brought
  <2>2. ASSUME NEW i \in Entry, g = <<dest[i], source[i]>>
        PROVE  Brought(from[g[1]], g[2]) /\ Open(i) /\ dest[i] = from[g[1]]
    BY <1>4, <1>5, <1>7, <2>2, LocFacts DEF Brought, Open
  <2> QED BY <1>3, <2>1, <2>2
<1> QED BY <1>3, <1>6, <1>10, <1>11, <1>12 DEF ParInv

\* An assignment that has not begun satisfies the invariant.
LEMMA ParInitInv == ParInit => ParInv
BY InitMergeInv, InitTestInv DEF ParInit

-----------------------------------------------------------------------------
(* mergeWithParent *)

\* The moves after AddMove.
LEMMA AddMoveFacts ==
  ASSUME ParType, NEW d \in Loc, NEW s \in Operand, AddMove(d, s)
  PROVE  /\ dest' \in Seq(Loc) /\ source' \in Seq(Operand)
         /\ Len(dest') = Len(source')
         /\ Len(dest) \in Nat /\ Entry = 1..Len(dest)
         /\ Entry' = Entry \cup {Len(dest) + 1} /\ Len(dest) + 1 \notin Entry
         /\ \A i \in Entry : dest'[i] = dest[i] /\ source'[i] = source[i]
         /\ dest'[Len(dest) + 1] = d /\ source'[Len(dest) + 1] = s
<1>1. dest \in Seq(Loc) /\ source \in Seq(Operand) /\ Len(dest) = Len(source)
  BY DEF ParType
<1>2. dest' = Append(dest, d) /\ source' = Append(source, s)
  BY DEF AddMove
<1>3. Len(dest) \in Nat /\ Entry = 1..Len(dest) /\ Entry' = 1..(Len(dest) + 1)
      /\ dest' \in Seq(Loc)
  BY <1>1, <1>2 DEF Entry
<1>4. source' \in Seq(Operand) /\ Len(dest') = Len(source')
  BY <1>1, <1>2
<1>5. Entry' = Entry \cup {Len(dest) + 1} /\ Len(dest) + 1 \notin Entry
  BY <1>3
<1>6. \A i \in Entry : dest'[i] = dest[i] /\ source'[i] = source[i]
  BY <1>1, <1>2, <1>3
<1>7. dest'[Len(dest) + 1] = d /\ source'[Len(dest) + 1] = s
  BY <1>1, <1>2
<1> QED BY <1>1, <1>3, <1>4, <1>5, <1>6, <1>7

\* The parts of a value of the side trace.
LEMMA SideFacts ==
  ASSUME SideInv, NEW p \in DOMAIN side
  PROVE  /\ side[p].reg \in Regs \cup {None} /\ side[p].spill \in Slots \cup {None}
         /\ parent[p] \in Operand
         /\ parent[p] \in Slots => side[p].spill = parent[p]
         /\ HasReg(p) => MoveOf(p) \in Regs
         /\ SpillOnly(p) => MoveOf(p) \in Slots
<1>1. side[p] \in [reg : Regs \cup {None}, spill : Slots \cup {None}]
      /\ parent[p] \in Operand /\ side[p] \in SideLocs(parent[p])
  <2> DEFINE R == [reg : Regs \cup {None}, spill : Slots \cup {None}]
  <2>1. side \in Seq(R)
    BY DEF SideInv
  <2> HIDE DEF R
  <2>2. side[p] \in R
    BY <2>1
  <2>3. parent[p] \in Operand /\ side[p] \in SideLocs(parent[p])
    BY DEF SideInv
  <2> QED BY <2>2, <2>3 DEF R
<1>2. parent[p] \in Slots => side[p].spill = parent[p]
  BY <1>1 DEF SideLocs
<1> QED BY <1>1, <1>2 DEF HasReg, MoveOf, SpillOnly

\* Two values have different moves.
LEMMA MovesDiffer ==
  ASSUME SideInv, NEW p \in DOMAIN side, NEW q \in DOMAIN side, p # q,
         HasReg(p) \/ SpillOnly(p), HasReg(q) \/ SpillOnly(q)
  PROVE  MoveOf(p) # MoveOf(q)
<1>1. /\ side[p].reg # None => side[p].reg # side[q].reg
      /\ side[p].spill # None => side[p].spill # side[q].spill
  BY DEF SideInv
<1>2. CASE HasReg(p) /\ HasReg(q)
  BY <1>1, <1>2 DEF HasReg, MoveOf
<1>3. CASE SpillOnly(p) /\ SpillOnly(q)
  BY <1>1, <1>3 DEF SpillOnly, MoveOf
<1>4. CASE HasReg(p) /\ SpillOnly(q)
  BY <1>4, SideFacts, LocFacts
<1>5. CASE SpillOnly(p) /\ HasReg(q)
  BY <1>5, SideFacts, LocFacts
<1> QED BY <1>2, <1>3, <1>4, <1>5

\* To merge an entry into the list of moves keeps it.
LEMMA MergeOneInv ==
  ASSUME ParInv, MergeOne
  PROVE  ParInv'
<1>0. /\ pc = "merge" /\ pc' = "merge" /\ next \in DOMAIN side
      /\ next' = next + 1 /\ usingHp' = usingHp /\ stack' = stack
      /\ freeset' = freeset /\ parent' = parent /\ side' = side /\ goal' = goal
      /\ MergeReg(next) \/ MergeSpill(next) \/ MergeNothing(next)
  BY DEF MergeOne, mergeVars
<1>1. ParType /\ SideInv /\ MergedInv
  BY <1>0 DEF ParInv
<1>2. SideInv'
  BY <1>0, <1>1 DEF SideInv, SideLocs
<1>a. PICK p : p = next
  OBVIOUS
<1>3. p \in DOMAIN side /\ p \in Nat /\ next' = p + 1 /\ DOMAIN side \subseteq Nat
  <2>1. side \in Seq([reg : Regs \cup {None}, spill : Slots \cup {None}])
    BY <1>1 DEF SideInv
  <2> QED BY <1>0, <1>a, <2>1
<1>4. Passed' = Passed \cup {p} /\ p \notin Passed /\ Passed \subseteq DOMAIN side
  BY <1>0, <1>a, <1>3 DEF Passed
<1>5. \A q : /\ HasReg(q)' <=> HasReg(q)
             /\ SpillOnly(q)' <=> SpillOnly(q)
             /\ StoredToo(q)' <=> StoredToo(q)
             /\ MoveOf(q)' = MoveOf(q)
  BY <1>0 DEF HasReg, SpillOnly, StoredToo, MoveOf
<1>6. from \in [Loc -> Loc] /\ next' \in Nat \ {0} /\ usingHp' \in BOOLEAN
  <2>1. next' \in Nat \ {0}
    BY <1>3
  <2> QED BY <1>0, <1>1, <2>1 DEF ParType
<1>7. ASSUME HasReg(p) \/ SpillOnly(p), AddMove(MoveOf(p), parent[p])
      PROVE  /\ dest' \in Seq(Loc) /\ source' \in Seq(Operand)
             /\ Len(dest') = Len(source')
             /\ \A i \in Entry' : \E q \in Passed' :
                  /\ HasReg(q) \/ SpillOnly(q)
                  /\ dest'[i] = MoveOf(q) /\ source'[i] = parent[q]
             /\ \A q \in Passed' : HasReg(q) \/ SpillOnly(q) =>
                  \E i \in Entry' : dest'[i] = MoveOf(q) /\ source'[i] = parent[q]
             /\ \A i, k \in Entry' : dest'[i] = dest'[k] => i = k
  <2>1. MoveOf(p) \in Loc /\ parent[p] \in Operand
    BY <1>1, <1>3, <1>7, SideFacts, LocFacts
  <2>2. /\ dest' \in Seq(Loc) /\ source' \in Seq(Operand)
        /\ Len(dest') = Len(source')
        /\ Entry' = Entry \cup {Len(dest) + 1} /\ Len(dest) + 1 \notin Entry
        /\ \A i \in Entry : dest'[i] = dest[i] /\ source'[i] = source[i]
        /\ dest'[Len(dest) + 1] = MoveOf(p)
        /\ source'[Len(dest) + 1] = parent[p]
    BY <1>1, <1>7, <2>1, AddMoveFacts
  <2>3. \A i \in Entry : dest[i] # MoveOf(p)
    <3> SUFFICES ASSUME NEW i \in Entry PROVE dest[i] # MoveOf(p)
      OBVIOUS
    <3>1. PICK q \in Passed : /\ HasReg(q) \/ SpillOnly(q)
                              /\ dest[i] = MoveOf(q)
      BY <1>1 DEF MergedInv
    <3> QED BY <1>1, <1>3, <1>4, <1>7, <3>1, MovesDiffer
  <2>4. \A i \in Entry' : \E q \in Passed' :
          /\ HasReg(q) \/ SpillOnly(q)
          /\ dest'[i] = MoveOf(q) /\ source'[i] = parent[q]
    BY <1>1, <1>4, <1>7, <2>2 DEF MergedInv
  <2>5. \A q \in Passed' : HasReg(q) \/ SpillOnly(q) =>
          \E i \in Entry' : dest'[i] = MoveOf(q) /\ source'[i] = parent[q]
    BY <1>1, <1>4, <2>2 DEF MergedInv
  <2>6. \A i, k \in Entry' : dest'[i] = dest'[k] => i = k
    BY <1>1, <2>2, <2>3 DEF MergedInv
  <2> QED BY <2>2, <2>4, <2>5, <2>6
<1>8. CASE MergeReg(p)
  <2>1. HasReg(p) /\ ~ SpillOnly(p) /\ MoveOf(p) = side[p].reg
        /\ AddMove(MoveOf(p), parent[p])
    BY <1>8 DEF MergeReg, HasReg, SpillOnly, MoveOf
  <2>2. side[p].reg \in Regs /\ side[p].reg \in Loc
    BY <1>1, <1>3, <2>1, SideFacts, LocFacts
  <2>3. CASE StoredToo(p)
    <3>1. from' = Emit(from, side[p].spill, side[p].reg)
      BY <1>8, <2>3 DEF MergeReg, StoredToo
    <3>2. /\ from' \in [Loc -> Loc]
          /\ \A l \in Loc : from'[l] = IF from[l] = side[p].spill THEN side[p].reg
                                       ELSE from[l]
      BY <1>6, <2>2, <3>1, EmitFacts
    <3>3. side[p].spill \in Slots /\ side[p].spill \in Loc
      BY <1>1, <1>3, <2>3, SideFacts, LocFacts DEF StoredToo
    <3>4. \A q \in Passed : StoredToo(q) =>
            /\ side[q].spill \in Slots /\ side[q].spill \in Loc
            /\ side[q].reg \in Regs /\ side[q].spill # side[p].spill
      <4> SUFFICES ASSUME NEW q \in Passed, StoredToo(q)
                   PROVE  /\ side[q].spill \in Slots /\ side[q].spill \in Loc
                          /\ side[q].reg \in Regs /\ side[q].spill # side[p].spill
        OBVIOUS
      <4>1. q \in DOMAIN side /\ q # p
        BY <1>4
      <4>2. side[q].spill \in Slots /\ side[q].reg \in Regs
        BY <1>1, <4>1, SideFacts DEF StoredToo, HasReg
      <4>3. side[q].spill # side[p].spill
        BY <1>1, <1>3, <4>1 DEF SideInv, StoredToo
      <4> QED BY <4>2, <4>3, LocFacts
    <3>5. from[side[p].spill] = side[p].spill
      BY <1>1, <3>3, <3>4 DEF MergedInv
    <3>6. \A q \in Passed' : StoredToo(q) => from'[side[q].spill] = side[q].reg
      <4>1. from'[side[p].spill] = side[p].reg
        BY <3>2, <3>3, <3>5
      <4>2. \A q \in Passed : StoredToo(q) => from'[side[q].spill] = side[q].reg
        <5> SUFFICES ASSUME NEW q \in Passed, StoredToo(q)
                     PROVE  from'[side[q].spill] = side[q].reg
          OBVIOUS
        <5>1. from[side[q].spill] = side[q].reg
          BY <1>1 DEF MergedInv
        <5>2. side[q].reg # side[p].spill
          BY <3>3, <3>4, LocFacts
        <5> QED BY <3>2, <3>4, <5>1, <5>2
      <4> QED BY <1>4, <4>1, <4>2
    <3>7. \A l \in Loc : (\A q \in Passed' : StoredToo(q) => l # side[q].spill) =>
            from'[l] = l
      <4> SUFFICES ASSUME NEW l \in Loc,
                          \A q \in Passed' : StoredToo(q) => l # side[q].spill
                   PROVE  from'[l] = l
        OBVIOUS
      <4>1. from[l] = l
        BY <1>1, <1>4 DEF MergedInv
      <4>2. l # side[p].spill
        BY <1>4, <2>3
      <4> QED BY <3>2, <4>1, <4>2
    <3>8. ParType'
      BY <1>0, <1>1, <1>6, <1>7, <2>1, <3>2 DEF ParType
    <3>9. MergedInv'
      BY <1>0, <1>5, <1>7, <2>1, <3>6, <3>7 DEF MergedInv
    <3> QED BY <1>0, <1>2, <3>8, <3>9 DEF ParInv
  <2>4. CASE ~ StoredToo(p)
    <3>1. from' = from
      BY <1>8, <2>1, <2>4 DEF MergeReg, StoredToo
    <3>2. ParType'
      BY <1>0, <1>1, <1>6, <1>7, <2>1, <3>1 DEF ParType
    <3>3. /\ \A q \in Passed' : StoredToo(q) => from'[side[q].spill] = side[q].reg
          /\ \A l \in Loc : (\A q \in Passed' : StoredToo(q) => l # side[q].spill) =>
               from'[l] = l
      BY <1>1, <1>4, <2>4, <3>1 DEF MergedInv
    <3>4. MergedInv'
      BY <1>0, <1>5, <1>7, <2>1, <3>3 DEF MergedInv
    <3> QED BY <1>0, <1>2, <3>2, <3>4 DEF ParInv
  <2> QED BY <2>3, <2>4
<1>9. CASE MergeSpill(p)
  <2>1. SpillOnly(p) /\ ~ HasReg(p) /\ ~ StoredToo(p) /\ from' = from
        /\ AddMove(MoveOf(p), parent[p])
    BY <1>9 DEF MergeSpill, HasReg, SpillOnly, StoredToo, MoveOf
  <2>2. ParType'
    BY <1>0, <1>1, <1>6, <1>7, <2>1 DEF ParType
  <2>3. /\ \A q \in Passed' : StoredToo(q) => from'[side[q].spill] = side[q].reg
        /\ \A l \in Loc : (\A q \in Passed' : StoredToo(q) => l # side[q].spill) =>
             from'[l] = l
    BY <1>1, <1>4, <2>1 DEF MergedInv
  <2>4. MergedInv'
    BY <1>0, <1>5, <1>7, <2>1, <2>3 DEF MergedInv
  <2> QED BY <1>0, <1>2, <2>2, <2>4 DEF ParInv
<1>10. CASE MergeNothing(p)
  <2>1. ~ SpillOnly(p) /\ ~ HasReg(p) /\ ~ StoredToo(p) /\ from' = from
        /\ dest' = dest /\ source' = source /\ Entry' = Entry
    BY <1>10, LocFacts DEF MergeNothing, HasReg, SpillOnly, StoredToo, Entry
  <2>2. ParType'
    BY <1>0, <1>1, <1>6, <2>1 DEF ParType
  <2>3. MergedInv'
    BY <1>0, <1>1, <1>4, <1>5, <2>1 DEF MergedInv
  <2> QED BY <1>0, <1>2, <2>2, <2>3 DEF ParInv
<1> QED BY <1>0, <1>a, <1>8, <1>9, <1>10

\* The call of parallelAssign.  What the moves and the code made so far do
\* together is what was asked for.
LEMMA MergeAssignInv ==
  ASSUME ParInv, MergeAssign
  PROVE  ParInv'
<1>0. /\ pc = "merge" /\ next \notin DOMAIN side
      /\ goal' = goal /\ source' = source /\ dest' = dest /\ usingHp' = usingHp
      /\ stack' = stack /\ from' = from
  BY DEF MergeAssign
<1>1. ParType /\ SideInv /\ MergedInv
  BY <1>0 DEF ParInv
<1>2. Passed = DOMAIN side
  <2>1. side \in Seq([reg : Regs \cup {None}, spill : Slots \cup {None}])
        /\ next \in Nat \ {0}
    BY <1>1 DEF SideInv, ParType
  <2>2. DOMAIN side = 1..Len(side) /\ Len(side) \in Nat
    BY <2>1
  <2>3. next > Len(side)
    BY <1>0, <2>1, <2>2
  <2> QED BY <2>1, <2>2, <2>3 DEF Passed
<1>3. \A g \in goal : g[1] \in Loc /\ g[2] \in Operand \cup {Hp}
  BY <1>1 DEF ParType
<1>4. \A i \in Entry : \E p \in DOMAIN side :
        /\ HasReg(p) \/ SpillOnly(p)
        /\ dest[i] = MoveOf(p) /\ source[i] = parent[p]
  BY <1>1, <1>2 DEF MergedInv
<1>5. \A i \in Entry :
        /\ dest[i] \in Operand \ freeset /\ source[i] \in Operand
        /\ dest[i] \in Regs \/ source[i] \in Regs
        /\ <<dest[i], source[i]>> \in goal
  <2> SUFFICES ASSUME NEW i \in Entry
               PROVE  /\ dest[i] \in Operand \ freeset /\ source[i] \in Operand
                      /\ dest[i] \in Regs \/ source[i] \in Regs
                      /\ <<dest[i], source[i]>> \in goal
    OBVIOUS
  <2>1. PICK p \in DOMAIN side : /\ HasReg(p) \/ SpillOnly(p)
                                 /\ dest[i] = MoveOf(p) /\ source[i] = parent[p]
    BY <1>4
  <2>2. freeset = Regs \ {side[q].reg : q \in DOMAIN side}
    BY <1>1 DEF SideInv
  <2>3. CASE HasReg(p)
    <3>1. dest[i] = side[p].reg /\ dest[i] \in Regs /\ dest[i] # None
      BY <1>1, <2>1, <2>3, SideFacts DEF MoveOf, HasReg
    <3>2. <<dest[i], source[i]>> \in goal
      BY <1>1, <2>1, <3>1 DEF SideInv
    <3> QED BY <1>1, <2>1, <2>2, <3>1, <3>2, SideFacts, LocFacts
  <2>4. CASE SpillOnly(p)
    <3>1. dest[i] = side[p].spill /\ dest[i] \in Slots /\ dest[i] # None
          /\ source[i] \in Regs
      BY <1>1, <2>1, <2>4, SideFacts DEF MoveOf, SpillOnly
    <3>2. <<dest[i], source[i]>> \in goal
      BY <1>1, <2>1, <3>1 DEF SideInv
    <3> QED BY <2>2, <3>1, <3>2, LocFacts
  <2> QED BY <2>1, <2>3, <2>4
\* Where the code reads what must be in g[1]: where a move brings it, or
\* where it is.
<1>6. ASSUME NEW g \in goal
      PROVE  \/ \E i \in Entry : dest[i] = from[g[1]] /\ source[i] = g[2]
             \/ /\ from[g[1]] = g[2] /\ from[g[1]] \in Slots \cup {Hp}
                /\ \A i \in Entry : dest[i] # from[g[1]]
  <2>1. CASE g = <<Hp, Hp>>
    <3>1. g[1] = Hp /\ g[2] = Hp
      BY <2>1
    <3>2. \A p \in Passed : StoredToo(p) => Hp # side[p].spill
      BY <1>1, <1>2, SideFacts, LocFacts DEF StoredToo
    <3>3. from[Hp] = Hp
      BY <1>1, <3>2, LocFacts DEF MergedInv
    <3>4. \A i \in Entry : dest[i] # Hp
      BY <1>5, LocFacts
    <3> QED BY <3>1, <3>3, <3>4
  <2>2. CASE \E p \in DOMAIN side : /\ g[2] = parent[p] /\ g[1] # None
                                    /\ g[1] \in {side[p].reg, side[p].spill}
    <3>1. PICK p \in DOMAIN side : /\ g[2] = parent[p] /\ g[1] # None
                                   /\ g[1] \in {side[p].reg, side[p].spill}
      BY <2>2
    <3>2. HasReg(p) \/ SpillOnly(p) =>
            \E i \in Entry : dest[i] = MoveOf(p) /\ source[i] = parent[p]
      BY <1>1, <1>2 DEF MergedInv
    <3>3. ASSUME NEW q \in DOMAIN side, StoredToo(q)
          PROVE  side[q].spill \in Slots /\ from[side[q].spill] = side[q].reg
                 /\ (q # p => side[q].spill # side[p].spill)
      <4>1. side[q].spill \in Slots
        BY <1>1, <3>3, SideFacts DEF StoredToo
      <4>2. from[side[q].spill] = side[q].reg
        BY <1>1, <1>2, <3>3 DEF MergedInv
      <4>3. q # p => side[q].spill # side[p].spill
        BY <1>1, <3>3 DEF SideInv, StoredToo
      <4> QED BY <4>1, <4>2, <4>3
    <3>4. CASE g[1] = side[p].reg
      <4>1. HasReg(p) /\ MoveOf(p) = g[1] /\ g[1] \in Regs
        BY <1>1, <3>1, <3>4, SideFacts DEF HasReg, MoveOf
      <4>2. \A q \in Passed : StoredToo(q) => g[1] # side[q].spill
        BY <1>2, <3>3, <4>1, LocFacts
      <4>3. from[g[1]] = g[1]
        BY <1>1, <1>3, <4>2 DEF MergedInv
      <4> QED BY <3>1, <3>2, <4>1, <4>3
    <3>5. CASE g[1] = side[p].spill /\ StoredToo(p)
      <4>1. from[g[1]] = side[p].reg /\ HasReg(p) /\ MoveOf(p) = side[p].reg
        BY <3>3, <3>5 DEF StoredToo, MoveOf
      <4> QED BY <3>1, <3>2, <4>1
    <3>6. CASE g[1] = side[p].spill /\ ~ StoredToo(p)
      <4>1. g[1] \in Slots
        BY <1>1, <3>1, <3>6, SideFacts
      <4>2. \A q \in Passed : StoredToo(q) => g[1] # side[q].spill
        BY <1>2, <3>3, <3>6
      <4>3. from[g[1]] = g[1]
        BY <1>1, <1>3, <4>2 DEF MergedInv
      <4>4. CASE SpillOnly(p)
        <5>1. MoveOf(p) = g[1]
          BY <3>6, <4>4 DEF SpillOnly, MoveOf
        <5> QED BY <3>1, <3>2, <4>3, <4>4, <5>1
      <4>5. CASE ~ SpillOnly(p)
        <5>1. parent[p] \in Slots /\ g[2] = g[1]
          BY <1>1, <3>1, <3>6, <4>5, SideFacts, LocFacts
             DEF SpillOnly, StoredToo
        <5>2. \A i \in Entry : dest[i] # g[1]
          <6> SUFFICES ASSUME NEW i \in Entry PROVE dest[i] # g[1]
            OBVIOUS
          <6>1. PICK q \in DOMAIN side :
                  /\ HasReg(q) \/ SpillOnly(q)
                  /\ dest[i] = MoveOf(q) /\ source[i] = parent[q]
            BY <1>4
          <6>2. CASE HasReg(q)
            BY <1>1, <4>1, <6>1, <6>2, SideFacts, LocFacts
          <6>3. CASE SpillOnly(q)
            <7>1. q # p /\ dest[i] = side[q].spill /\ side[q].spill # None
              BY <4>5, <6>1, <6>3 DEF SpillOnly, MoveOf
            <7>2. side[q].spill # side[p].spill
              BY <1>1, <7>1 DEF SideInv
            <7> QED BY <3>6, <7>1, <7>2
          <6> QED BY <6>1, <6>2, <6>3
        <5> QED BY <4>1, <4>3, <5>1, <5>2
      <4> QED BY <4>4, <4>5
    <3> QED BY <3>1, <3>4, <3>5, <3>6
  <2> QED BY <1>1, <2>1, <2>2 DEF SideInv
<1>7. CASE dest = << >>
  <2>1. pc' = "done" /\ next' = next
    BY <1>7 DEF MergeAssign
  <2>2. Entry = {}
    BY <1>7 DEF Entry
  <2>3. \A g \in goal : from[g[1]] = g[2]
    BY <1>6, <2>2
  <2>4. ParType'
    BY <1>0, <1>1, <2>1 DEF ParType
  <2> QED BY <1>0, <2>1, <2>3, <2>4 DEF ParInv
<1>8. CASE dest # << >>
  <2>1. pc' = "assign" /\ next' = 1 /\ status' = [i \in Entry |-> "todo"]
        /\ freeset' = freeset /\ Entry' = Entry
    BY <1>0, <1>8 DEF MergeAssign, Entry
  <2>2. ParType'
    <3>1. next' \in Nat \ {0}
      BY <2>1
    <3> QED BY <1>0, <1>1, <2>1, <3>1 DEF ParType
  <2>3. freeset \subseteq Regs /\ stack = << >> /\ usingHp = FALSE
    BY <1>1 DEF SideInv
  <2>4. \A i \in Entry : Open(i)' /\ status'[i] = "todo" /\ ~ Temp(i)'
    BY <1>0, <1>5, <2>1, <2>3, LocFacts DEF Open, Temp
  <2>5. MovesInv'
    <3>1. status' \in [Entry -> StatusType]
      BY <2>1 DEF StatusType
    <3>2. \A i \in Entry : ~ (i < next')
      BY <1>1, <2>1 DEF ParType, Entry
    <3>3. \A i, k \in Entry : dest[i] = dest[k] => i = k
      BY <1>1 DEF MergedInv
    <3> QED BY <1>0, <1>5, <2>1, <2>3, <2>4, <3>1, <3>2, <3>3 DEF MovesInv
  <2>6. StackInv'
    BY <1>0, <2>1, <2>3, <2>4 DEF StackInv
  <2>7. CodeInv'
    <3> SUFFICES ASSUME NEW g \in goal
                 PROVE  /\ Brought(from[g[1]], g[2])'
                        /\ from[g[1]] \in freeset => \E i \in Entry :
                             Open(i)' /\ dest[i] = from[g[1]]
      BY <1>0, <2>1, <2>3 DEF CodeInv
    <3>1. CASE \E i \in Entry : dest[i] = from[g[1]] /\ source[i] = g[2]
      BY <1>0, <1>5, <2>1, <2>4, <3>1, LocFacts DEF Brought
    <3>2. CASE /\ from[g[1]] = g[2] /\ from[g[1]] \in Slots \cup {Hp}
               /\ \A i \in Entry : dest[i] # from[g[1]]
      BY <1>0, <2>1, <2>3, <3>2, LocFacts DEF Brought
    <3> QED BY <1>6, <3>1, <3>2
  <2> QED BY <2>1, <2>2, <2>5, <2>6, <2>7 DEF ParInv
<1> QED BY <1>7, <1>8

-----------------------------------------------------------------------------
(* moveOne *)

\* The entries of the moves.
LEMMA EntryFacts ==
  ASSUME ParType
  PROVE  /\ Entry = 1..Len(dest) /\ Len(dest) \in Nat /\ Entry \subseteq Nat
         /\ \A i \in Entry : dest[i] \in Loc /\ source[i] \in Operand
<1>1. dest \in Seq(Loc) /\ source \in Seq(Operand) /\ Len(dest) = Len(source)
  BY DEF ParType
<1>2. Entry = 1..Len(dest) /\ Len(dest) \in Nat
  BY <1>1 DEF Entry
<1> QED BY <1>1, <1>2

\* The frame of the newest call, and the stack when its loop has passed j.
LEMMA StackFacts ==
  ASSUME StackInv, stack # << >>, NEW j \in Nat
  PROVE  /\ Len(stack) \in Nat /\ Len(stack) > 0
         /\ Top.entry \in Entry /\ Top.j \in Nat
         /\ status[Top.entry] = "moving"
         /\ \A m \in 1..Len(stack) : stack[m].entry \in Entry
         /\ After(j) \in Seq([entry : Entry, j : Nat])
         /\ Len(After(j)) = Len(stack)
         /\ \A m \in 1..Len(stack) : After(j)[m].entry = stack[m].entry
         /\ After(j)[Len(stack)].j = j + 1
         /\ Below \in Seq([entry : Entry, j : Nat])
         /\ Len(Below) = Len(stack) - 1
         /\ \A m \in 1..(Len(stack) - 1) : Below[m] = stack[m]
<1> DEFINE F == [entry : Entry, j : Nat]
<1>1. stack \in Seq(F)
  BY DEF StackInv
<1>2. \A x \in F : x.entry \in Entry /\ x.j \in Nat
                   /\ [x EXCEPT !.j = j + 1] \in F
                   /\ [x EXCEPT !.j = j + 1].entry = x.entry
                   /\ [x EXCEPT !.j = j + 1].j = j + 1
  OBVIOUS
<1> HIDE DEF F
<1>3. Len(stack) \in Nat /\ Len(stack) > 0 /\ Len(stack) \in 1..Len(stack)
      /\ \A m \in 1..Len(stack) : stack[m] \in F
  BY <1>1
<1>4. Top \in F
  BY <1>3 DEF Top
<1>5. Top.entry \in Entry /\ Top.j \in Nat
      /\ \A m \in 1..Len(stack) : stack[m].entry \in Entry
  BY <1>2, <1>3, <1>4
<1>6. status[Top.entry] = "moving"
  BY <1>3, <1>5 DEF StackInv, Top
<1>7. Below \in Seq(F) /\ Len(Below) = Len(stack) - 1
      /\ \A m \in 1..(Len(stack) - 1) : Below[m] = stack[m]
  <2>1. Len(stack) - 1 \in Int /\ 1 \in Int
        /\ \A i \in 1..(Len(stack) - 1) : stack[i] \in F
    BY <1>3
  <2>2. /\ Below \in Seq(F)
        /\ Len(Below) = IF 1 <= Len(stack) - 1 THEN (Len(stack) - 1) - 1 + 1 ELSE 0
        /\ \A i \in 1..((Len(stack) - 1) - 1 + 1) : Below[i] = stack[1 + i - 1]
    BY <2>1, SubSeqProperties DEF Below
  <2>a. PICK n \in Nat : n = Len(stack)
    BY <1>3
  <2>3. Len(Below) = Len(stack) - 1
    <3>1. n > 0
      BY <1>3, <2>a
    <3>2. (IF 1 <= n - 1 THEN (n - 1) - 1 + 1 ELSE 0) = n - 1
      BY <3>1
    <3> QED BY <2>2, <2>a, <3>2
  <2>4. \A m \in 1..(Len(stack) - 1) : Below[m] = stack[m]
    <3>2. \A i \in 1..((n - 1) - 1 + 1) : Below[i] = stack[1 + i - 1]
      BY <2>2, <2>a
    <3>3. \A i \in 1..(n - 1) : i \in 1..((n - 1) - 1 + 1) /\ 1 + i - 1 = i
      OBVIOUS
    <3> QED BY <2>a, <3>2, <3>3
  <2> QED BY <2>2, <2>3, <2>4
<1>8. PICK x : x = [Top EXCEPT !.j = j + 1]
  OBVIOUS
<1>9. x \in F /\ x.entry = Top.entry /\ x.j = j + 1
  BY <1>2, <1>4, <1>8
<1>10. After(j) = Append(Below, x)
  BY <1>8 DEF After
<1>11. /\ After(j) \in Seq(F) /\ Len(After(j)) = Len(stack)
       /\ \A m \in 1..(Len(stack) - 1) : After(j)[m] = Below[m]
       /\ After(j)[Len(stack)] = x
  BY <1>3, <1>7, <1>9, <1>10
<1>12. \A m \in 1..Len(stack) : After(j)[m].entry = stack[m].entry
  <2> SUFFICES ASSUME NEW m \in 1..Len(stack)
               PROVE  After(j)[m].entry = stack[m].entry
    OBVIOUS
  <2>1. CASE m = Len(stack)
    <3>1. After(j)[Len(stack)].entry = stack[Len(stack)].entry
      BY <1>9, <1>11 DEF Top
    <3> QED BY <2>1, <3>1
  <2>2. CASE m # Len(stack)
    BY <1>3, <1>7, <1>11, <2>2
  <2> QED BY <2>1, <2>2
<1>13. After(j)[Len(stack)].j = j + 1
  BY <1>9, <1>11
<1>14. /\ After(j) \in Seq([entry : Entry, j : Nat])
       /\ Below \in Seq([entry : Entry, j : Nat])
  BY <1>7, <1>11 DEF F
<1> QED BY <1>3, <1>5, <1>6, <1>7, <1>11, <1>12, <1>13, <1>14

\* To turn to the next move keeps it.
LEMMA StartMoveInv ==
  ASSUME ParInv, StartMove
  PROVE  ParInv'
<1>0. /\ pc = "assign" /\ pc' = "assign" /\ stack = << >> /\ next \in Entry
      /\ next' = next + 1 /\ source' = source /\ dest' = dest
      /\ usingHp' = usingHp /\ freeset' = freeset /\ from' = from /\ goal' = goal
      /\ Entry' = Entry
  BY DEF StartMove, mergeVars, Entry
<1>1. ParType /\ MovesInv /\ StackInv /\ CodeInv
  BY <1>0 DEF ParInv
<1>2. PICK p : p = next
  OBVIOUS
<1>3. p \in Entry /\ p \in Nat \ {0} /\ Entry \subseteq Nat /\ next' = p + 1
      /\ next = p
  BY <1>0, <1>1, <1>2, EntryFacts DEF ParType
<1>4. \A i \in Entry : status[i] # "moving"
  BY <1>0, <1>1 DEF StackInv
<1>5. \A i \in Entry : Open(i) => ~ Temp(i)
  BY <1>1, <1>4, LocFacts DEF MovesInv, Temp
<1>6. ParType'
  <2>1. next' \in Nat \ {0}
    BY <1>3
  <2> QED BY <1>0, <1>1, <2>1 DEF ParType
<1>7. \A i \in Entry : Temp(i)' <=> Temp(i)
  BY <1>0 DEF Temp
<1>8. CASE stack' = stack /\ status' = status
           /\ (status[p] = "todo" => dest[p] = source[p])
  <2>1. MovesInv'
    <3>1. \A i \in Entry : i < next' /\ status[i] = "todo" => dest[i] = source[i]
      BY <1>1, <1>3, <1>8 DEF MovesInv
    <3> QED BY <1>0, <1>1, <1>8, <3>1 DEF MovesInv, Open, Temp
  <2>2. StackInv'
    BY <1>0, <1>1, <1>8 DEF StackInv, Open, Temp, Top
  <2>3. CodeInv'
    BY <1>0, <1>1, <1>8 DEF CodeInv, Brought, Open
  <2> QED BY <1>0, <1>6, <2>1, <2>2, <2>3 DEF ParInv
<1>9. CASE /\ stack' = Append(<< >>, [entry |-> p, j |-> 1])
           /\ status' = [status EXCEPT ![p] = "moving"]
           /\ status[p] = "todo"
  <2>1. status' \in [Entry -> StatusType]
        /\ \A i \in Entry : status'[i] = IF i = p THEN "moving" ELSE status[i]
    BY <1>1, <1>3, <1>9 DEF MovesInv, StatusType
  <2>2. \A i \in Entry : Open(i)' <=> Open(i)
    BY <1>9, <2>1 DEF Open
  <2>3. MovesInv'
    <3>1. \A i \in Entry : i < next' /\ status'[i] = "todo" => dest[i] = source[i]
      <4> SUFFICES ASSUME NEW i \in Entry, i < next', status'[i] = "todo"
                   PROVE  dest[i] = source[i]
        OBVIOUS
      <4>1. i # p /\ status[i] = "todo" /\ i < next
        BY <1>3, <2>1
      <4> QED BY <1>1, <4>1 DEF MovesInv
    <3>2. \A i, k \in Entry : Open(i)' /\ Open(k)' /\ dest[i] = dest[k] => i = k
      BY <1>1, <2>2 DEF MovesInv
    <3>3. \A i \in Entry : Open(i)' =>
            dest[i] \in Operand \ freeset /\ <<dest[i], source[i]>> \in goal
      BY <1>1, <1>4, <2>2 DEF MovesInv
    <3>4. \A i \in Entry : dest[i] \in Regs \cup {Hp} \/ source[i] \in Regs
      BY <1>1 DEF MovesInv
    <3>5. freeset \subseteq Regs
      BY <1>1 DEF MovesInv
    <3> QED BY <1>0, <1>5, <1>7, <2>1, <2>2, <3>1, <3>2, <3>3, <3>4, <3>5 DEF MovesInv
  <2>4. /\ Len(stack') = 1 /\ stack'[1].entry = p /\ stack'[1].j = 1
        /\ stack' \in Seq([entry : Entry, j : Nat])
    <3> DEFINE F == [entry : Entry, j : Nat]
    <3>1. PICK x : x = [entry |-> p, j |-> 1]
      OBVIOUS
    <3>2. x \in F /\ x.entry = p /\ x.j = 1
      BY <1>3, <3>1
    <3> HIDE DEF F
    <3>3. stack' = Append(<< >>, x)
      BY <1>9, <3>1
    <3>4. stack' = <<x>>
      BY <3>3
    <3>5. Len(stack') = 1 /\ stack'[1] = x /\ stack' \in Seq(F)
      BY <3>2, <3>4
    <3> QED BY <3>2, <3>5 DEF F
  <2>5. Top' = stack'[1]
    BY <2>4 DEF Top
  <2>6. StackInv'
    <3>1. \A i \in Entry : Open(i)' /\ i < Top'.j /\ dest[i] = source[Top'.entry] =>
            dest[i] = source[i]
      BY <1>1, <2>4, <2>5, EntryFacts
    <3>2. \A i \in Entry : ~ (Open(i)' /\ Temp(i)')
      BY <1>5, <1>7, <2>2
    <3>3. \A i \in Entry : status'[i] = "moving" <=>
            \E m \in 1..Len(stack') : stack'[m].entry = i
      BY <1>4, <2>1, <2>4
    <3> QED BY <1>0, <2>4, <3>1, <3>2, <3>3 DEF StackInv
  <2>7. CodeInv'
    BY <1>0, <1>1, <2>2 DEF CodeInv, Brought
  <2> QED BY <1>0, <1>6, <2>3, <2>6, <2>7 DEF ParInv
<1> QED BY <1>0, <1>2, <1>8, <1>9 DEF StartMove, Call

\* The entry j that the newest call has reached still has to write what the
\* entry of that call reads.  No temporary is waiting.
LEMMA ReachFacts ==
  ASSUME ParType, MovesInv, StackInv, NEW j \in Entry, Reach(j)
  PROVE  /\ stack # << >> /\ Top.entry \in Entry
         /\ dest[j] = source[Top.entry] /\ Open(j)
         /\ dest[j] \in Operand \ freeset /\ <<dest[j], source[j]>> \in goal
         /\ \A i \in Entry : Open(i) /\ dest[i] = source[Top.entry] => i = j
         /\ \A i \in Entry : Open(i) =>
              ~ Temp(i) /\ dest[i] \in Operand \ freeset
<1>1. stack # << >> /\ dest[j] = source[Top.entry] /\ Open(j)
  BY DEF Reach, Conflicts, Open
<1>2. Top.entry \in Entry
  BY <1>1, StackFacts, 0 \in Nat
<1>3. \A i \in Entry : Open(i) => ~ Temp(i)
  BY <1>1 DEF StackInv
<1>4. \A i \in Entry : Open(i) => dest[i] \in Operand \ freeset
                                 /\ <<dest[i], source[i]>> \in goal
  BY <1>3 DEF MovesInv
<1>5. \A i \in Entry : Open(i) /\ dest[i] = source[Top.entry] => i = j
  BY <1>1 DEF MovesInv
<1> QED BY <1>1, <1>2, <1>3, <1>4, <1>5

\* To turn to a move whose source has to be saved first keeps it.
LEMMA DescendInv ==
  ASSUME ParInv, pc = "assign", NEW j \in Entry, Descend(j)
  PROVE  ParInv'
<1>0. /\ pc' = pc /\ source' = source /\ dest' = dest /\ usingHp' = usingHp
      /\ next' = next /\ freeset' = freeset /\ from' = from /\ goal' = goal
      /\ Entry' = Entry
      /\ Reach(j) /\ status[j] = "todo" /\ Call(j, After(j))
  BY DEF Descend, mergeVars, Entry
<1>1. ParType /\ MovesInv /\ StackInv /\ CodeInv
  BY DEF ParInv
<1>2. /\ stack # << >> /\ Top.entry \in Entry /\ dest[j] = source[Top.entry]
      /\ dest[j] \in Operand \ freeset
      /\ \A i \in Entry : Open(i) /\ dest[i] = source[Top.entry] => i = j
      /\ \A i \in Entry : Open(i) => ~ Temp(i) /\ dest[i] \in Operand \ freeset
  BY <1>0, <1>1, ReachFacts
<1>3. PICK n, e : n = Len(stack) /\ e = Top.entry
  OBVIOUS
<1>4. j \in Nat
  BY <1>1, EntryFacts
<1>5. /\ n \in Nat /\ n > 0 /\ e \in Entry /\ stack[n].entry = e
      /\ \A m \in 1..n : stack[m].entry \in Entry
      /\ After(j) \in Seq([entry : Entry, j : Nat])
      /\ Len(After(j)) = n
      /\ \A m \in 1..n : After(j)[m].entry = stack[m].entry
      /\ After(j)[n].j = j + 1
  BY <1>1, <1>2, <1>3, <1>4, StackFacts DEF Top
<1>6. \A i \in Entry : Temp(i)' <=> Temp(i)
  BY <1>0 DEF Temp
<1>7. /\ \A m, k \in 1..n : stack[m].entry = stack[k].entry => m = k
      /\ \A i \in Entry : status[i] = "moving" <=> \E m \in 1..n : stack[m].entry = i
      /\ \A m \in 1..(n - 1) :
           /\ source[stack[m].entry] \notin freeset
           /\ \A i \in Entry : Open(i) /\ dest[i] = source[stack[m].entry] =>
                i = stack[m + 1].entry
  BY <1>1, <1>3 DEF StackInv
<1>8. ParType'
  BY <1>0, <1>1 DEF ParType
<1>9. CASE dest[j] = source[j]
  <2>1. stack' = After(j) /\ status' = status
    BY <1>0, <1>9 DEF Call
  <2>2. MovesInv'
    BY <1>0, <1>1, <2>1 DEF MovesInv, Open, Temp
  <2>3. CodeInv'
    BY <1>0, <1>1, <2>1 DEF CodeInv, Brought, Open
  <2>4. \A i \in Entry : Open(i)' <=> Open(i)
    BY <2>1 DEF Open
  <2>5. PICK t : t = stack'
    OBVIOUS
  <2>6. Len(t) = n /\ t # << >> /\ \A m \in 1..n : t[m].entry = stack[m].entry
    BY <1>5, <2>1, <2>5
  <2>7. Top' = t[n]
    BY <2>5, <2>6 DEF Top
  <2>8. \A i \in Entry : Open(i) /\ dest[i] = source[e] => dest[i] = source[i]
    BY <1>2, <1>3, <1>9
  <2>9. t[n].entry = e
    BY <1>5, <2>6
  <2>10. \A m \in 1..(n - 1) :
           /\ source[t[m].entry] \notin freeset
           /\ \A i \in Entry : Open(i) /\ dest[i] = source[t[m].entry] =>
                i = t[m + 1].entry
    <3> TAKE m \in 1..(n - 1)
    <3>1. t[m].entry = stack[m].entry /\ t[m + 1].entry = stack[m + 1].entry
      BY <1>5, <2>6
    <3> QED BY <1>7, <3>1
  <2>11. t \in Seq([entry : Entry, j : Nat])
    BY <1>5, <2>1, <2>5
  <2>12. \A m, k \in 1..n : t[m].entry = t[k].entry => m = k
    BY <1>7, <2>6
  <2>13. \A i \in Entry : status[i] = "moving" <=> \E m \in 1..n : t[m].entry = i
    BY <1>7, <2>6
  <2>14. StackInv'
    BY <1>0, <1>2, <1>6, <2>1, <2>4, <2>5, <2>6, <2>7, <2>8, <2>9, <2>10, <2>11,
       <2>12, <2>13 DEF StackInv
  <2> QED BY <1>0, <1>8, <2>2, <2>3, <2>14 DEF ParInv
<1>10. CASE dest[j] # source[j]
  <2>1. /\ stack' = Append(After(j), [entry |-> j, j |-> 1])
        /\ status' = [status EXCEPT ![j] = "moving"]
    BY <1>0, <1>10 DEF Call
  <2>2. status' \in [Entry -> StatusType]
        /\ \A i \in Entry : status'[i] = IF i = j THEN "moving" ELSE status[i]
    BY <1>1, <2>1 DEF MovesInv, StatusType
  <2>3. \A i \in Entry : Open(i)' <=> Open(i)
    BY <1>0, <2>2 DEF Open
  <2>4. MovesInv'
    <3>1. \A i \in Entry : i < next /\ status'[i] = "todo" => dest[i] = source[i]
      BY <1>1, <2>2 DEF MovesInv
    <3>2. \A i \in Entry : Open(i)' =>
            dest[i] \in Operand \ freeset /\ <<dest[i], source[i]>> \in goal
      BY <1>1, <1>2, <2>3 DEF MovesInv
    <3>3. /\ \A i \in Entry : dest[i] \in Regs \cup {Hp} \/ source[i] \in Regs
          /\ freeset \subseteq Regs
          /\ \A i, k \in Entry : Open(i)' /\ Open(k)' /\ dest[i] = dest[k] => i = k
      BY <1>1, <2>3 DEF MovesInv
    <3>4. \A i \in Entry : Open(i)' => ~ Temp(i)'
      BY <1>2, <1>6, <2>3
    <3> QED BY <1>0, <2>2, <3>1, <3>2, <3>3, <3>4 DEF MovesInv
  <2>5. CodeInv'
    BY <1>0, <1>1, <2>3 DEF CodeInv, Brought
  <2>6. PICK t : t = stack'
    OBVIOUS
  <2>7. /\ Len(t) = n + 1 /\ t # << >>
        /\ t \in Seq([entry : Entry, j : Nat])
        /\ t[n + 1].entry = j /\ t[n + 1].j = 1
        /\ \A m \in 1..n : t[m].entry = stack[m].entry
    <3> DEFINE F == [entry : Entry, j : Nat]
    <3>1. PICK x : x = [entry |-> j, j |-> 1]
      OBVIOUS
    <3>2. x \in F /\ x.entry = j /\ x.j = 1
      BY <3>1
    <3>3. PICK a : a = After(j)
      OBVIOUS
    <3>4. t = Append(a, x) /\ a \in Seq(F) /\ Len(a) = n
          /\ \A m \in 1..n : a[m].entry = stack[m].entry
      BY <1>5, <2>1, <2>6, <3>1, <3>3
    <3> HIDE DEF F
    <3>5. /\ t \in Seq(F) /\ Len(t) = n + 1 /\ t[n + 1] = x /\ t # << >>
          /\ \A m \in 1..n : t[m] = a[m]
      BY <1>5, <3>2, <3>4
    <3> QED BY <3>2, <3>4, <3>5 DEF F
  <2>8. Top' = t[n + 1]
    BY <2>6, <2>7 DEF Top
  <2>9. \A m, k \in 1..(n + 1) : t[m].entry = t[k].entry => m = k
    <3>1. \A m \in 1..n : stack[m].entry # j
      BY <1>0, <1>7
    <3>2. \A m \in 1..(n + 1) : m \in 1..n \/ m = n + 1
      BY <1>5
    <3> QED BY <1>7, <2>7, <3>1, <3>2
  <2>10. \A i \in Entry : status'[i] = "moving" <=>
           \E m \in 1..(n + 1) : t[m].entry = i
    <3> SUFFICES ASSUME NEW i \in Entry
                 PROVE  status'[i] = "moving" <=>
                          \E m \in 1..(n + 1) : t[m].entry = i
      OBVIOUS
    <3>1. \A m : m \in 1..(n + 1) <=> m \in 1..n \/ m = n + 1
      BY <1>5
    <3>2. (\E m \in 1..(n + 1) : t[m].entry = i) <=>
            (\E m \in 1..n : stack[m].entry = i) \/ i = j
      BY <2>7, <3>1
    <3> QED BY <1>7, <2>2, <3>2
  <2>11. \A m \in 1..n :
           /\ source[t[m].entry] \notin freeset
           /\ \A i \in Entry : Open(i) /\ dest[i] = source[t[m].entry] =>
                i = t[m + 1].entry
    <3> SUFFICES ASSUME NEW m \in 1..n
                 PROVE  /\ source[t[m].entry] \notin freeset
                        /\ \A i \in Entry : Open(i) /\ dest[i] = source[t[m].entry] =>
                             i = t[m + 1].entry
      OBVIOUS
    <3>1. CASE m = n
      BY <1>2, <1>3, <1>5, <2>7, <3>1
    <3>2. CASE m # n
      <4>1. m \in 1..(n - 1) /\ m + 1 \in 1..n
        BY <1>5, <3>2
      <4>2. t[m].entry = stack[m].entry /\ t[m + 1].entry = stack[m + 1].entry
        BY <2>7, <4>1
      <4> QED BY <1>7, <4>1, <4>2
    <3> QED BY <3>1, <3>2
  <2>12. \A i \in Entry : ~ (i < 1)
    BY <1>1, EntryFacts
  <2>13. (n + 1) - 1 = n
    BY <1>5
  <2>14. StackInv'
    BY <1>0, <1>2, <1>6, <2>3, <2>6, <2>7, <2>8, <2>9, <2>10, <2>11, <2>12, <2>13
       DEF StackInv
  <2> QED BY <1>0, <1>8, <2>4, <2>5, <2>14 DEF ParInv
<1> QED BY <1>9, <1>10

\* Breaking a cycle takes the only temporary, from which nothing reads.
LEMMA BreakCycleInv ==
  ASSUME ParInv, pc = "assign", NEW j \in Entry, BreakCycle(j)
  PROVE  ParInv'
<1>0. /\ pc' = pc /\ source' = source /\ status' = status
      /\ next' = next /\ freeset' = freeset /\ goal' = goal
      /\ Reach(j) /\ status[j] = "moving" /\ stack' = After(j)
  BY DEF BreakCycle, mergeVars
<1>1. ParType /\ MovesInv /\ StackInv /\ CodeInv
  BY DEF ParInv
<1>2. PICK t \in Loc : /\ GetTemp(t)
                       /\ from' = Emit(WithHpLoad(t), dest[j], t)
                       /\ dest' = [dest EXCEPT ![j] = t]
  BY DEF BreakCycle
<1>3. PICK d, e, n : d = dest[j] /\ e = Top.entry /\ n = Len(stack)
  OBVIOUS
<1>4. /\ stack # << >> /\ e \in Entry /\ d = source[e] /\ Open(j)
      /\ d \in Operand \ freeset
      /\ \A i \in Entry : Open(i) /\ dest[i] = d => i = j
      /\ \A i \in Entry : Open(i) => ~ Temp(i) /\ dest[i] \in Operand \ freeset
  BY <1>0, <1>1, <1>3, ReachFacts
<1>5. freeset \subseteq Regs /\ usingHp \in BOOLEAN
  BY <1>1 DEF ParType, MovesInv
<1>6. /\ t \in freeset \/ t = Hp
      /\ t # d /\ t # SaveSlot
      /\ t \in Regs \cup {Hp}
      /\ \A i \in Entry : Open(i) => dest[i] # t
      /\ usingHp' \in BOOLEAN /\ (usingHp => usingHp')
      /\ t # Hp => usingHp' = usingHp
      /\ t = Hp => usingHp'
  <2>1. \/ t \in freeset /\ usingHp' = usingHp
        \/ freeset = {} /\ t = Hp /\ usingHp' = TRUE
    BY <1>2, Zenon DEF GetTemp, FreeTemp, HpTemp
  <2>2. t \in freeset \/ t = Hp
    BY <2>1
  <2>3. t # d /\ t # SaveSlot /\ t \in Regs \cup {Hp}
    BY <1>4, <1>5, <2>2, LocFacts
  <2>4. \A i \in Entry : Open(i) => dest[i] # t
    BY <1>4, <2>2, LocFacts
  <2>5. /\ usingHp' \in BOOLEAN /\ (usingHp => usingHp')
        /\ t # Hp => usingHp' = usingHp
        /\ t = Hp => usingHp'
    BY <1>5, <2>1, LocFacts
  <2> QED BY <2>2, <2>3, <2>4, <2>5
<1>7. /\ Entry' = Entry /\ DOMAIN dest = Entry
      /\ \A i \in Entry : dest'[i] = IF i = j THEN t ELSE dest[i]
  BY <1>2 DEF Entry
<1>8. \A i \in Entry : /\ Open(i)' <=> Open(i)
                       /\ Open(i)' /\ Temp(i)' <=> i = j
  <2> SUFFICES ASSUME NEW i \in Entry
               PROVE  /\ Open(i)' <=> Open(i)
                      /\ Open(i)' /\ Temp(i)' <=> i = j
    OBVIOUS
  <2>1. Open(i)' <=> Open(i)
    BY <1>0 DEF Open
  <2>2. CASE i = j
    BY <1>0, <1>4, <1>6, <1>7, <2>1, <2>2 DEF Temp
  <2>3. CASE i # j
    BY <1>0, <1>4, <1>7, <2>1, <2>3 DEF Temp
  <2> QED BY <2>1, <2>2, <2>3
\* Where the code reads what must be in g[1], before and after.
<1>9. /\ from' \in [Loc -> Loc]
      /\ \A l \in Loc : from'[l] =
           IF from[l] = d THEN t
           ELSE IF t = Hp /\ ~ usingHp /\ from[l] = Hp THEN SaveSlot ELSE from[l]
  <2>1. from \in [Loc -> Loc]
    BY <1>1 DEF ParType
  <2>2. PICK f : f = WithHpLoad(t)
    OBVIOUS
  <2>3. /\ f \in [Loc -> Loc]
        /\ \A l \in Loc : f[l] =
             IF t = Hp /\ ~ usingHp /\ from[l] = Hp THEN SaveSlot ELSE from[l]
    <3>1. CASE t = Hp /\ ~ usingHp
      <4>1. f = Emit(from, Hp, SaveSlot)
        BY <2>2, <3>1 DEF WithHpLoad
      <4> QED BY <2>1, <3>1, <4>1, EmitFacts, LocFacts
    <3>2. CASE ~ (t = Hp /\ ~ usingHp)
      BY <2>1, <2>2, <3>2 DEF WithHpLoad
    <3> QED BY <3>1, <3>2
  <2>4. from' = Emit(f, d, t)
    BY <1>2, <1>3, <2>2
  <2>5. /\ from' \in [Loc -> Loc]
        /\ \A l \in Loc : from'[l] = IF f[l] = d THEN t ELSE f[l]
    BY <2>3, <2>4, EmitFacts
  <2> QED BY <1>4, <2>3, <2>5, LocFacts
<1>10. ParType'
  <2>1. dest' \in Seq(Loc) /\ Len(dest') = Len(dest)
    BY <1>1, <1>2, <1>7 DEF ParType
  <2>2. usingHp' \in BOOLEAN
    BY <1>6
  <2> QED BY <1>0, <1>1, <1>9, <2>1, <2>2 DEF ParType
<1>11. MovesInv'
  <2>1. \A i \in Entry : dest'[i] \in Regs \cup {Hp} \/ source[i] \in Regs
    BY <1>1, <1>6, <1>7 DEF MovesInv
  <2>2. \A i, k \in Entry : Open(i)' /\ Open(k)' /\ dest'[i] = dest'[k] => i = k
    <3>1. \A i, k \in Entry : Open(i) /\ Open(k) /\ dest[i] = dest[k] => i = k
      BY <1>1 DEF MovesInv
    <3> QED BY <1>6, <1>7, <1>8, <3>1
  <2>3. \A i \in Entry : Open(i)' =>
          \/ dest'[i] \in Operand \ freeset /\ <<dest'[i], source[i]>> \in goal
          \/ status[i] = "moving" /\ Temp(i)'
    <3>1. \A i \in Entry : Open(i) => <<dest[i], source[i]>> \in goal
      BY <1>1, <1>4 DEF MovesInv
    <3> QED BY <1>0, <1>4, <1>7, <1>8, <3>1
  <2>4. \A i \in Entry : i < next /\ status[i] = "todo" => dest'[i] = source[i]
    BY <1>0, <1>1, <1>7 DEF MovesInv
  <2>5. status \in [Entry -> StatusType]
    BY <1>1 DEF MovesInv
  <2> QED BY <1>0, <1>5, <1>7, <1>8, <2>1, <2>2, <2>3, <2>4, <2>5 DEF MovesInv
<1>12. StackInv'
  <2>1. j \in Nat
    BY <1>1, EntryFacts
  <2>2. PICK s : s = stack'
    OBVIOUS
  <2>3. /\ n \in Nat /\ n > 0 /\ Len(s) = n /\ s # << >>
        /\ s \in Seq([entry : Entry, j : Nat])
        /\ s[n].entry = e
        /\ \A m \in 1..n : s[m].entry = stack[m].entry /\ s[m].entry \in Entry
    <3>1. PICK a : a = After(j)
      OBVIOUS
    <3>2. /\ n \in Nat /\ n > 0 /\ stack[n].entry = e
          /\ a \in Seq([entry : Entry, j : Nat]) /\ Len(a) = n
          /\ \A m \in 1..n : a[m].entry = stack[m].entry /\ a[m].entry \in Entry
      BY <1>1, <1>3, <1>4, <2>1, <3>1, StackFacts DEF Top
    <3>3. a # << >> /\ n \in 1..n
      BY <3>2
    <3> QED BY <1>0, <2>2, <3>1, <3>2, <3>3
  <2>4. Top' = s[n]
    BY <2>2, <2>3 DEF Top
  <2>5. /\ \A m, k \in 1..n : s[m].entry = s[k].entry => m = k
        /\ \A i \in Entry : status[i] = "moving" <=> \E m \in 1..n : s[m].entry = i
    <3>1. /\ \A m, k \in 1..n : stack[m].entry = stack[k].entry => m = k
          /\ \A i \in Entry :
               status[i] = "moving" <=> \E m \in 1..n : stack[m].entry = i
      BY <1>1, <1>3 DEF StackInv
    <3> QED BY <2>3, <3>1
  <2>6. \A m \in 1..(n - 1) :
          /\ source[s[m].entry] \notin freeset
          /\ \A i \in Entry : Open(i) /\ dest'[i] = source[s[m].entry] =>
               i = s[m + 1].entry
    <3> TAKE m \in 1..(n - 1)
    <3>1. m \in 1..n /\ m + 1 \in 1..n
      BY <2>3
    <3>2. /\ source[s[m].entry] \in Operand \ freeset
          /\ \A i \in Entry : Open(i) /\ dest[i] = source[s[m].entry] =>
               i = s[m + 1].entry
      BY <1>1, <1>3, <2>3, <3>1, EntryFacts DEF StackInv
    <3>3. t # source[s[m].entry]
      BY <1>6, <3>2, LocFacts
    <3> QED BY <1>7, <3>2, <3>3
  <2>7. \A i \in Entry : Open(i) => dest'[i] # source[e]
    BY <1>4, <1>6, <1>7
  <2> QED BY <1>0, <1>4, <1>7, <1>8, <2>2, <2>3, <2>4, <2>5, <2>6, <2>7 DEF StackInv
<1>13. CodeInv'
  <2> SUFFICES ASSUME NEW g \in goal
               PROVE  /\ Brought(from[g[1]], g[2])'
                      /\ from'[g[1]] \in freeset \/ (usingHp' /\ from'[g[1]] = Hp) =>
                           \E i \in Entry : Open(i)' /\ dest'[i] = from'[g[1]]
    BY <1>0, <1>7 DEF CodeInv
  <2>1. PICK l, v, m : l = from[g[1]] /\ v = g[2] /\ m = from'[g[1]]
    OBVIOUS
  <2>2. /\ l \in Loc /\ g[1] \in Loc
        /\ \/ usingHp /\ l = SaveSlot /\ v = Hp
           \/ l # SaveSlot /\ \E i \in Entry : Open(i) /\ dest[i] = l /\ source[i] = v
           \/ l # SaveSlot /\ l = v /\ \A i \in Entry : Open(i) => dest[i] # l
        /\ l \in freeset \/ (usingHp /\ l = Hp) =>
             \E i \in Entry : Open(i) /\ dest[i] = l
    <3>1. Brought(l, v)
      BY <1>1, <2>1 DEF CodeInv
    <3>2. l \in freeset \/ (usingHp /\ l = Hp) =>
             \E i \in Entry : Open(i) /\ dest[i] = l
      BY <1>1, <2>1 DEF CodeInv
    <3>3. g[1] \in Loc
      BY <1>1 DEF ParType
    <3>4. l \in Loc
      BY <1>1, <2>1, <3>3 DEF ParType
    <3> QED BY <3>1, <3>2, <3>3, <3>4 DEF Brought
  <2>3. l \notin freeset /\ ~ (usingHp /\ l = Hp)
    BY <1>4, <2>2, LocFacts
  <2>4. m = IF l = d THEN t
            ELSE IF t = Hp /\ ~ usingHp /\ l = Hp THEN SaveSlot ELSE l
    BY <1>9, <2>1, <2>2
  <2> SUFFICES /\ \/ usingHp' /\ m = SaveSlot /\ v = Hp
                  \/ m # SaveSlot /\ \E i \in Entry : Open(i) /\ dest'[i] = m /\ source[i] = v
                  \/ m # SaveSlot /\ m = v /\ \A i \in Entry : Open(i) => dest'[i] # m
               /\ m \in freeset \/ (usingHp' /\ m = Hp) =>
                    \E i \in Entry : Open(i) /\ dest'[i] = m
    BY <1>0, <1>7, <1>8, <2>1 DEF Brought
  <2>5. CASE l = d
    <3>1. m = t /\ m # SaveSlot /\ dest'[j] = m /\ Open(j)
      BY <1>4, <1>6, <1>7, <2>4, <2>5
    <3>2. source[j] = v
      <4>1. l # SaveSlot /\ dest[j] = l
        BY <1>3, <1>4, <2>5, LocFacts
      <4>2. \E i \in Entry : Open(i) /\ dest[i] = l /\ source[i] = v
        BY <1>4, <2>2, <4>1
      <4> QED BY <1>4, <2>5, <4>2
    <3> QED BY <3>1, <3>2
  <2>6. CASE l # d /\ t = Hp /\ ~ usingHp /\ l = Hp
    <3>1. m = SaveSlot /\ v = Hp /\ usingHp'
      BY <1>4, <1>6, <2>2, <2>4, <2>6, LocFacts
    <3>2. SaveSlot \notin freeset /\ SaveSlot # Hp
      BY <1>5, LocFacts
    <3> QED BY <3>1, <3>2
  <2>7. CASE l # d /\ ~ (t = Hp /\ ~ usingHp /\ l = Hp)
    <3>1. m = l
      BY <2>4, <2>7
    <3>2. l # t /\ ~ (usingHp' /\ l = Hp)
      BY <1>6, <2>3, <2>7
    <3>3. \A i \in Entry : Open(i) => (dest'[i] = l <=> dest[i] = l)
      BY <1>3, <1>7, <2>7, <3>2
    <3> QED BY <1>6, <2>2, <2>3, <3>1, <3>2, <3>3
  <2> QED BY <2>5, <2>6, <2>7
<1> QED BY <1>0, <1>10, <1>11, <1>12, <1>13 DEF ParInv

\* What the end of moveOne emits: the newest call's source has been written
\* by nothing but moves that stay where they are.
LEMMA TransferFacts ==
  ASSUME ParType, MovesInv, StackInv, Transfer
  PROVE  /\ stack # << >> /\ Top.entry \in Entry /\ status[Top.entry] = "moving"
         /\ \A i \in Entry : Open(i) /\ dest[i] = source[Top.entry] =>
              dest[i] = source[i]
         /\ from' = Emit(from, dest[Top.entry], source[Top.entry])
         /\ freeset' = freeset \ {source[Top.entry]}
         /\ status' = [status EXCEPT ![Top.entry] = "done"]
         /\ stack' = Below /\ pc' = pc
<1>1. stack # << >> /\ Conflicts = {}
  BY DEF Transfer
<1>2. Top.entry \in Entry /\ Top.j \in Nat /\ status[Top.entry] = "moving"
  BY <1>1, StackFacts, 0 \in Nat
<1>3. ~ (dest[Top.entry] \notin Regs \cup {Hp} /\ source[Top.entry] \notin Regs)
  BY <1>2 DEF MovesInv
<1>4. /\ from' = Emit(from, dest[Top.entry], source[Top.entry])
      /\ freeset' = freeset \ {source[Top.entry]}
      /\ status' = [status EXCEPT ![Top.entry] = "done"]
      /\ stack' = Below /\ pc' = pc
  BY <1>3 DEF Transfer, UseReg
<1>5. \A i \in Entry : Open(i) /\ dest[i] = source[Top.entry] =>
        dest[i] = source[i]
  <2> SUFFICES ASSUME NEW i \in Entry, Open(i), dest[i] = source[Top.entry]
               PROVE  dest[i] = source[i]
    OBVIOUS
  <2>1. ~ (i >= Top.j)
    BY <1>1 DEF Conflicts, Open
  <2>2. i < Top.j
    BY <1>2, <2>1, EntryFacts
  <2> QED BY <1>1, <2>2 DEF StackInv
<1> QED BY <1>1, <1>2, <1>4, <1>5

\* To write a move, and go back to the one that waits for it, keeps it.
LEMMA TransferInv ==
  ASSUME ParInv, pc = "assign", Transfer
  PROVE  ParInv'
<1>0. /\ source' = source /\ dest' = dest /\ usingHp' = usingHp
      /\ next' = next /\ goal' = goal /\ Entry' = Entry
  BY DEF Transfer, mergeVars, Entry
<1>1. ParType /\ MovesInv /\ StackInv /\ CodeInv
  BY DEF ParInv
<1>2. PICK d, c, e, n :
        e = Top.entry /\ d = dest[e] /\ c = source[e] /\ n = Len(stack)
  OBVIOUS
<1>3. /\ stack # << >> /\ e \in Entry /\ status[e] = "moving"
      /\ \A i \in Entry : Open(i) /\ dest[i] = c => dest[i] = source[i]
      /\ from' = Emit(from, d, c) /\ freeset' = freeset \ {c}
      /\ status' = [status EXCEPT ![e] = "done"]
      /\ stack' = Below /\ pc' = pc
  BY <1>1, <1>2, TransferFacts
<1>4. c \in Operand /\ d \in Loc /\ Open(e) /\ freeset \subseteq Regs
  BY <1>1, <1>2, <1>3, EntryFacts DEF Open, MovesInv
<1>5. /\ status' \in [Entry -> StatusType]
      /\ \A i \in Entry : status'[i] = IF i = e THEN "done" ELSE status[i]
      /\ \A i \in Entry : Open(i)' <=> Open(i) /\ i # e
  <2>1. /\ status' \in [Entry -> StatusType]
        /\ \A i \in Entry : status'[i] = IF i = e THEN "done" ELSE status[i]
    BY <1>1, <1>3 DEF MovesInv, StatusType
  <2> QED BY <2>1 DEF Open
\* A move that goes to a temporary is being made, and still does.
<1>6. \A i \in Entry : Open(i) /\ Temp(i) => status[i] = "moving" /\ c \notin freeset
  <2> SUFFICES ASSUME NEW i \in Entry, Open(i), Temp(i)
               PROVE  status[i] = "moving" /\ c \notin freeset
    OBVIOUS
  <2>1. c \notin freeset
    BY <1>1, <1>2 DEF StackInv
  <2>2. dest[i] \notin Operand \ freeset
    BY LocFacts DEF Temp
  <2> QED BY <1>1, <2>1, <2>2 DEF MovesInv
<1>7. \A i \in Entry : Open(i) => (Temp(i)' <=> Temp(i))
  <2> SUFFICES ASSUME NEW i \in Entry, Open(i) PROVE Temp(i)' <=> Temp(i)
    OBVIOUS
  <2>1. CASE Temp(i)
    <3>1. freeset' = freeset
      BY <1>3, <1>6, <2>1
    <3> QED BY <1>0, <3>1 DEF Temp
  <2>2. CASE ~ Temp(i)
    BY <1>0, <1>3, <2>2 DEF Temp
  <2> QED BY <2>1, <2>2
<1>8. from \in [Loc -> Loc]
      /\ from' \in [Loc -> Loc]
      /\ \A l \in Loc : from'[l] = IF from[l] = d THEN c ELSE from[l]
  <2>1. from \in [Loc -> Loc]
    BY <1>1 DEF ParType
  <2> QED BY <1>3, <1>4, <2>1, EmitFacts, LocFacts
<1>9. ParType'
  <2>1. pc' = "assign"
    BY <1>3
  <2> QED BY <1>0, <1>1, <1>8, <2>1 DEF ParType
<1>10. MovesInv'
  <2>1. \A i \in Entry : Open(i)' =>
          \/ dest[i] \in Operand \ freeset' /\ <<dest[i], source[i]>> \in goal
          \/ status'[i] = "moving" /\ Temp(i)'
    <3> SUFFICES ASSUME NEW i \in Entry, Open(i)'
                 PROVE  \/ dest[i] \in Operand \ freeset' /\ <<dest[i], source[i]>> \in goal
                        \/ status'[i] = "moving" /\ Temp(i)'
      OBVIOUS
    <3>1. Open(i) /\ i # e /\ status'[i] = status[i]
      BY <1>5
    <3>2. \/ dest[i] \in Operand \ freeset /\ <<dest[i], source[i]>> \in goal
          \/ status[i] = "moving" /\ Temp(i)
      BY <1>1, <3>1 DEF MovesInv
    <3> QED BY <1>3, <1>7, <3>1, <3>2
  <2>2. \A i, k \in Entry : Open(i)' /\ Open(k)' /\ dest[i] = dest[k] => i = k
    BY <1>1, <1>5 DEF MovesInv
  <2>3. \A i, k \in Entry : Open(i)' /\ Open(k)' /\ Temp(i)' /\ Temp(k)' => i = k
    BY <1>1, <1>5, <1>7 DEF MovesInv
  <2>4. \A i \in Entry : i < next /\ status'[i] = "todo" => dest[i] = source[i]
    BY <1>1, <1>5 DEF MovesInv
  <2>5. freeset' \subseteq Regs
    BY <1>3, <1>4
  <2>6. \A i \in Entry : dest[i] \in Regs \cup {Hp} \/ source[i] \in Regs
    BY <1>1 DEF MovesInv
  <2> QED BY <1>0, <1>5, <2>1, <2>2, <2>3, <2>4, <2>5, <2>6 DEF MovesInv
<1>11. StackInv'
  <2>1. PICK s : s = stack'
    OBVIOUS
  <2>2. /\ n \in Nat /\ n > 0 /\ stack[n].entry = e
        /\ s \in Seq([entry : Entry, j : Nat]) /\ Len(s) = n - 1
        /\ \A m \in 1..(n - 1) : s[m] = stack[m]
    BY <1>1, <1>2, <1>3, <2>1, StackFacts, 0 \in Nat DEF Top
  <2>3. /\ \A m, k \in 1..n : stack[m].entry = stack[k].entry => m = k
        /\ \A i \in Entry :
             status[i] = "moving" <=> \E m \in 1..n : stack[m].entry = i
    BY <1>1, <1>2 DEF StackInv
  <2>4. \A m \in 1..(n - 1) :
          /\ source[stack[m].entry] \notin freeset
          /\ \A i \in Entry : Open(i) /\ dest[i] = source[stack[m].entry] =>
               i = stack[m + 1].entry
    BY <1>1, <1>2 DEF StackInv
  <2>5. \A m \in 1..(n - 1) : m \in 1..n /\ n \in 1..n /\ m # n
    BY <2>2
  <2>6. \A m, k \in 1..(n - 1) : s[m].entry = s[k].entry => m = k
    BY <2>2, <2>3, <2>5
  <2>7. \A i \in Entry : status'[i] = "moving" <=> \E m \in 1..(n - 1) : s[m].entry = i
    <3> SUFFICES ASSUME NEW i \in Entry
                 PROVE  status'[i] = "moving" <=> \E m \in 1..(n - 1) : s[m].entry = i
      OBVIOUS
    <3>1. CASE i = e
      <4>1. \A m \in 1..(n - 1) : s[m].entry # e
        BY <2>2, <2>3, <2>5
      <4> QED BY <1>5, <3>1, <4>1
    <3>2. CASE i # e
      <4>1. \A m \in 1..n : m \in 1..(n - 1) \/ m = n
        BY <2>2
      <4>2. (\E m \in 1..(n - 1) : s[m].entry = i) <=>
              \E m \in 1..n : stack[m].entry = i
        BY <2>2, <2>5, <3>2, <4>1
      <4> QED BY <1>5, <2>3, <3>2, <4>2
    <3> QED BY <3>1, <3>2
  <2>8. \A m \in 1..(n - 2) :
          /\ source[s[m].entry] \notin freeset'
          /\ \A i \in Entry : Open(i)' /\ dest[i] = source[s[m].entry] =>
               i = s[m + 1].entry
    <3> TAKE m \in 1..(n - 2)
    <3>1. m \in 1..(n - 1) /\ m + 1 \in 1..(n - 1)
      BY <2>2
    <3>2. s[m] = stack[m] /\ s[m + 1] = stack[m + 1]
      BY <2>2, <3>1
    <3> QED BY <1>3, <1>5, <2>4, <3>1, <3>2
  \* The source of the call that continues is overwritten by nothing left.
  <2>9. n - 1 > 0 =>
          /\ source[s[n - 1].entry] \notin freeset'
          /\ \A i \in Entry : Open(i)' => dest[i] # source[s[n - 1].entry]
    <3> HAVE n - 1 > 0
    <3>1. n - 1 \in 1..(n - 1) /\ (n - 1) + 1 = n
      BY <2>2
    <3>2. s[n - 1] = stack[n - 1]
      BY <2>2, <3>1
    <3> QED BY <1>3, <1>5, <2>2, <2>4, <3>1, <3>2
  <2>10. Top' = s[n - 1]
    BY <2>1, <2>2 DEF Top
  <2>11. s # << >> => n - 1 > 0
    BY <2>2
  <2>12. ASSUME NEW w \in Entry, Open(w)', Temp(w)' PROVE n - 1 > 0
    <3>1. Open(w) /\ w # e /\ Temp(w)
      BY <1>5, <1>7, <2>12
    <3>2. PICK m \in 1..n : stack[m].entry = w
      BY <1>6, <2>3, <3>1
    <3>3. m # n
      BY <2>2, <3>1, <3>2
    <3> QED BY <2>2, <3>3
  <2>13. (n - 1) - 1 = n - 2
    BY <2>2
  <2> QED BY <1>0, <2>1, <2>2, <2>6, <2>7, <2>8, <2>9, <2>10, <2>11, <2>12, <2>13
       DEF StackInv
<1>12. CodeInv'
  <2> SUFFICES ASSUME NEW g \in goal
               PROVE  /\ Brought(from[g[1]], g[2])'
                      /\ from'[g[1]] \in freeset' \/ (usingHp /\ from'[g[1]] = Hp) =>
                           \E i \in Entry : Open(i)' /\ dest[i] = from'[g[1]]
    BY <1>0 DEF CodeInv
  <2>1. PICK l, v, m : l = from[g[1]] /\ v = g[2] /\ m = from'[g[1]]
    OBVIOUS
  <2>2. /\ \/ usingHp /\ l = SaveSlot /\ v = Hp
           \/ l # SaveSlot /\ \E i \in Entry : Open(i) /\ dest[i] = l /\ source[i] = v
           \/ l # SaveSlot /\ l = v /\ \A i \in Entry : Open(i) => dest[i] # l
        /\ l \in freeset \/ (usingHp /\ l = Hp) =>
             \E i \in Entry : Open(i) /\ dest[i] = l
    BY <1>1, <2>1 DEF CodeInv, Brought
  <2>3. m = IF l = d THEN c ELSE l
    <3>1. g[1] \in Loc
      BY <1>1 DEF ParType
    <3> QED BY <1>8, <2>1, <3>1
  <2> SUFFICES /\ \/ usingHp /\ m = SaveSlot /\ v = Hp
                  \/ m # SaveSlot /\ \E i \in Entry : Open(i)' /\ dest[i] = m /\ source[i] = v
                  \/ m # SaveSlot /\ m = v /\ \A i \in Entry : Open(i)' => dest[i] # m
               /\ m \in freeset' \/ (usingHp /\ m = Hp) =>
                    \E i \in Entry : Open(i)' /\ dest[i] = m
    BY <1>0, <2>1 DEF Brought
  <2>4. CASE l = d
    <3>1. l # SaveSlot
      <4>1. \/ d \in Operand
            \/ d \in freeset \cup {Hp}
        BY <1>1, <1>2, <1>3, <1>4 DEF MovesInv, Temp
      <4> QED BY <1>4, <2>4, <4>1, LocFacts
    <3>2. \E i \in Entry : Open(i) /\ dest[i] = d /\ source[i] = v
      BY <1>2, <1>3, <1>4, <2>2, <2>4, <3>1
    <3>3. v = c
      BY <1>1, <1>2, <1>3, <1>4, <3>2 DEF MovesInv
    <3>4. m = c /\ m # SaveSlot /\ m # Hp /\ m \notin freeset'
      BY <1>3, <1>4, <2>3, <2>4, LocFacts
    <3>5. \A i \in Entry : Open(i)' /\ dest[i] = c => source[i] = c
      BY <1>3, <1>5
    <3> QED BY <3>3, <3>4, <3>5
  <2>5. CASE l # d
    <3>1. m = l
      BY <2>3, <2>5
    <3>2. \A i \in Entry : Open(i) /\ dest[i] = l => Open(i)'
      BY <1>2, <1>5, <2>5
    <3>3. \A i \in Entry : Open(i)' => Open(i)
      BY <1>5
    <3> QED BY <1>3, <2>2, <3>1, <3>2, <3>3
  <2> QED BY <2>4, <2>5
<1> QED BY <1>3, <1>9, <1>10, <1>11, <1>12 DEF ParInv

-----------------------------------------------------------------------------

\* All the moves left stay where they are.
LEMMA FinishInv ==
  ASSUME ParInv, Finish
  PROVE  ParInv'
<1>0. /\ pc = "assign" /\ pc' = "done" /\ stack = << >> /\ next \notin Entry
      /\ from' = IF usingHp THEN Emit(from, SaveSlot, Hp) ELSE from
      /\ source' = source /\ dest' = dest /\ usingHp' = usingHp
      /\ next' = next /\ goal' = goal
  BY DEF Finish, mergeVars
<1>1. ParType /\ MovesInv /\ StackInv /\ CodeInv
  BY <1>0 DEF ParInv
<1>2. \A i \in Entry : i < next
  <2>1. next \in Nat \ {0}
    BY <1>1 DEF ParType
  <2> QED BY <1>0, <1>1, <2>1, EntryFacts
<1>3. \A i \in Entry : Open(i) => dest[i] = source[i]
  <2> SUFFICES ASSUME NEW i \in Entry, Open(i) PROVE dest[i] = source[i]
    OBVIOUS
  <2>1. status[i] # "moving"
    BY <1>0, <1>1 DEF StackInv
  <2>2. status[i] = "todo"
    BY <1>1, <2>1 DEF MovesInv, StatusType, Open
  <2> QED BY <1>1, <1>2, <2>2 DEF MovesInv
<1>4. /\ from \in [Loc -> Loc] /\ from' \in [Loc -> Loc]
      /\ \A l \in Loc : from'[l] = IF usingHp /\ from[l] = SaveSlot THEN Hp ELSE from[l]
  <2>1. from \in [Loc -> Loc]
    BY <1>1 DEF ParType
  <2>2. CASE usingHp
    BY <1>0, <2>1, <2>2, EmitFacts, LocFacts
  <2>3. CASE ~ usingHp
    BY <1>0, <2>1, <2>3
  <2> QED BY <2>2, <2>3
<1>5. \A g \in goal : from'[g[1]] = g[2]
  <2> SUFFICES ASSUME NEW g \in goal PROVE from'[g[1]] = g[2]
    OBVIOUS
  <2>1. g[1] \in Loc
    BY <1>1 DEF ParType
  <2>2. \/ usingHp /\ from[g[1]] = SaveSlot /\ g[2] = Hp
        \/ from[g[1]] # SaveSlot /\ from[g[1]] = g[2]
    BY <1>1, <1>3 DEF CodeInv, Brought
  <2> QED BY <1>4, <2>1, <2>2
<1>6. ParType'
  BY <1>0, <1>1, <1>4 DEF ParType
<1> QED BY <1>0, <1>5, <1>6 DEF ParInv

\* A step of another component keeps it.
LEMMA StutterInv ==
  ASSUME ParInv, UNCHANGED parVars
  PROVE  ParInv'
<1>1. /\ pc' = pc /\ parent' = parent /\ side' = side /\ source' = source
      /\ dest' = dest /\ status' = status /\ usingHp' = usingHp /\ next' = next
      /\ stack' = stack /\ freeset' = freeset /\ from' = from /\ goal' = goal
  BY DEF parVars
<1>2. ParType => ParType'
  BY <1>1 DEF ParType
<1>3. SideInv => SideInv'
  BY <1>1 DEF SideInv, SideLocs
<1>4. MergedInv => MergedInv'
  BY <1>1 DEF MergedInv, Passed, HasReg, StoredToo, SpillOnly, MoveOf, Entry
<1>5. MovesInv => MovesInv'
  BY <1>1 DEF MovesInv, Open, Temp, Entry
<1>6. StackInv => StackInv'
  BY <1>1 DEF StackInv, Open, Temp, Entry, Top
<1>7. CodeInv => CodeInv'
  BY <1>1 DEF CodeInv, Brought, Open, Entry
<1> QED BY <1>1, <1>2, <1>3, <1>4, <1>5, <1>6, <1>7 DEF ParInv

-----------------------------------------------------------------------------
(***************************************************************************)
(* The theorems.                                                           *)
(***************************************************************************)

\* Every step of mergeWithParent and parallelAssign keeps the invariant, for
\* all assignments, however the moves overlap.
THEOREM ParInvariance == ParSpec => []ParInv
<1>1. ParInit => ParInv
  BY ParInitInv
<1>2. ParInv /\ [ParNext]_parVars => ParInv'
  <2> SUFFICES ASSUME ParInv, [ParNext]_parVars PROVE ParInv'
    OBVIOUS
  <2>1. CASE MergeOne
    BY <2>1, MergeOneInv
  <2>2. CASE MergeAssign
    BY <2>2, MergeAssignInv
  <2>3. CASE StartMove
    BY <2>3, StartMoveInv
  <2>4. CASE MoveOne
    BY <2>4, DescendInv, BreakCycleInv, TransferInv DEF MoveOne
  <2>5. CASE Finish
    BY <2>5, FinishInv
  <2>6. CASE UNCHANGED parVars
    BY <2>6, StutterInv
  <2> QED BY <2>1, <2>2, <2>3, <2>4, <2>5, <2>6 DEF ParNext
<1> QED BY <1>1, <1>2, PTL DEF ParSpec

\* What moveOne and transfer rely on: one temporary at a time, and no move
\* from memory to memory (TempsSafe).
THEOREM TempsAlwaysSafe == ParSpec => []TempsSafe
<1>1. ParInv => TempsSafe
  <2> SUFFICES ASSUME ParInv PROVE TempsSafe
    OBVIOUS
  <2>1. pc # "exit"
    BY DEF ParInv, ParType
  <2>2. ASSUME pc = "assign", NEW i \in Entry, status[i] # "done",
               <<dest[i], source[i]>> \notin goal
        PROVE  Open(i) /\ Temp(i)
    BY <2>2 DEF ParInv, MovesInv, Open
  <2>3. pc = "assign" => \A i, k \in Entry :
          Open(i) /\ Open(k) /\ Temp(i) /\ Temp(k) => i = k
    BY DEF ParInv, MovesInv
  <2> QED BY <2>1, <2>2, <2>3 DEF TempsSafe
<1> QED BY <1>1, ParInvariance, PTL

\* The moves left and the code emitted so far are the assignment that was
\* asked for, and at the end the code alone is (AssignmentKept).
THEOREM AssignmentAlwaysKept == ParSpec => []AssignmentKept
<1>1. ParInv => AssignmentKept
  <2> SUFFICES ASSUME ParInv PROVE AssignmentKept
    OBVIOUS
  <2>1. ASSUME pc = "assign", NEW g \in goal, NEW l, l = from[g[1]]
        PROVE  IF Pending(l) = {} THEN l = g[2] ELSE Pending(l) = {g[2]}
    <3>1. Brought(l, g[2])
      BY <2>1 DEF ParInv, CodeInv
    <3>2. CASE usingHp /\ l = SaveSlot
      <4>1. Pending(l) = {Hp} /\ g[2] = Hp
        BY <3>1, <3>2 DEF Brought, Pending
      <4> QED BY <4>1
    <3>3. CASE ~ (usingHp /\ l = SaveSlot)
      <4>1. Pending(l) =
              {source[i] : i \in {k \in Entry : dest[k] = l /\ status[k] # "done"}}
        BY <3>3 DEF Pending
      <4>2. CASE \E i \in Entry : Open(i) /\ dest[i] = l /\ source[i] = g[2]
        <5>1. PICK i \in Entry : Open(i) /\ dest[i] = l /\ source[i] = g[2]
          BY <4>2
        <5>2. \A k \in Entry : Open(k) /\ dest[k] = l => k = i
          BY <2>1, <5>1 DEF ParInv, MovesInv
        <5>3. Pending(l) = {g[2]}
          BY <4>1, <5>1, <5>2 DEF Open
        <5> QED BY <5>3
      <4>3. CASE l = g[2] /\ \A i \in Entry : Open(i) => dest[i] # l
        <5>1. Pending(l) = {}
          BY <4>1, <4>3 DEF Open
        <5> QED BY <4>3, <5>1
      <4> QED BY <3>1, <3>3, <4>2, <4>3 DEF Brought
    <3> QED BY <3>2, <3>3
  <2>2. pc = "done" => \A g \in goal : from[g[1]] = g[2]
    BY DEF ParInv
  <2> QED BY <2>1, <2>2 DEF AssignmentKept
<1> QED BY <1>1, ParInvariance, PTL
=============================================================================
