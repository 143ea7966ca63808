--------------------------- MODULE LazyHeapProofs ----------------------------
(***************************************************************************)
(* The proof that the heap with its copying collector implements LazyHeap, *)
(* for every number and size of blocks, closures, slots and static         *)
(* closures: an initial state maps to an initial state, and every step to  *)
(* a step of LazyHeap or to none.                                          *)
(***************************************************************************)
EXTENDS CopyingGC, CopyingGCProofs

\* The heap that the program sees.
Live == {b \in Addr : mem[b].type \in Type}
AbsRoot == [s \in Slot |-> IdOf(root[s])]
AbsCaf == [c \in Caf |-> IdOf(caf[c])]
AbsNodes == {Abs(a) : a \in Live}

-----------------------------------------------------------------------------
(***************************************************************************)
(* References and what they stand for.                                     *)
(***************************************************************************)

\* Static closures and Null stand for themselves.
LEMMA IdOfStatic ==
  /\ \A x \in Static \cup {Null} : IdOf(x) = x /\ (IdOf(x))' = x
  /\ \A x \in Addr : IdOf(x) = mem[x].id /\ (IdOf(x))' = mem'[x].id
BY RefFacts DEF IdOf

\* The fields of a closure the program sees.
LEMMA AbsFacts ==
  \A a : /\ Abs(a).id = mem[a].id /\ Abs(a).type = mem[a].type
         /\ Abs(a).fields = [f \in Field |-> IdOf(mem[a].ptrs[f])]
         /\ \A f \in Field : Abs(a).fields[f] = IdOf(mem[a].ptrs[f])
BY DEF Abs

\* While the program runs, what a pointer leads to has an identity.
LEMMA HeapRefId ==
  ASSUME IInv, phase = "mutator", NEW x \in HeapRef
  PROVE  /\ IdOf(x) \in Id \cup Static /\ IdOf(x) # Null
         /\ IsHNF(x) => IdOf(x) \in Id \cup Value
<1>1. Null \notin Id \cup Static
  BY ConstantsAssumption, RefFacts
<1>2. CASE x \in Static
  BY <1>1, <1>2, IdOfStatic, RefFacts DEF IsHNF
<1>3. CASE x \in Addr /\ mem[x].type \in Type
  BY <1>1, <1>3, IdOfStatic DEF IInv, IdInv
<1>4. CASE x \in Addr /\ mem[x].type = "IND"
  <2> DEFINE t == mem[x].ptrs[1]
  <2>1. IsHNF(t) /\ IdOf(x) = IdOf(t)
    BY <1>4, IdOfStatic DEF IInv, MutatorInv, IdInv
  <2>2. CASE t \in Value
    BY <1>1, <2>1, <2>2, IdOfStatic, RefFacts
  <2>3. CASE t \in Addr /\ mem[t].type \in HNF
    <3>1. mem[t].id \in Id
      BY <2>3 DEF IInv, IdInv, Type
    <3> QED BY <1>1, <2>1, <2>3, <3>1, IdOfStatic
  <2> QED BY <2>1, <2>2, <2>3 DEF IsHNF
<1> QED BY <1>2, <1>3, <1>4 DEF HeapRef

\* What the slots, the CAFs and the closures refer to.
LEMMA MutatorRefs ==
  ASSUME IInv, phase = "mutator"
  PROVE  /\ \A s \in Slot : root[s] \in HeapRef \cup {Null}
         /\ \A c \in Caf : caf[c] \in HeapRef \cup {Null}
         /\ \A a \in Live, f \in Field : mem[a].ptrs[f] \in HeapRef \cup {Null}
         /\ Live \subseteq HeapRef
<1>1. \A a \in Live : a \in Addr /\ mem[a].type # "FREE"
  BY DEF Live, Type, HNF
<1>2. \A a \in Live : a[1] \in Closures
  <2> SUFFICES ASSUME NEW a \in Live PROVE a[1] \in Closures
    OBVIOUS
  <2>1. a[1] \in Block /\ a[2] \in Nat /\ a[2] > 0
    BY <1>1, AddrFacts, ConstantsAssumption
  <2>2. CASE a[1] \notin Closures
    <3>1. Limit(a[1]) = 0
      <4>1. old_heap = {} /\ Head1 \in Closures
        BY HeadFacts DEF IInv, MutatorInv
      <4>2. a[1] # Head1 /\ free[a[1]] = 0
        BY <2>1, <2>2, <4>1 DEF IInv, BlocksDisjoint
      <4> QED BY <4>2 DEF Limit
    <3> QED BY <1>1, <2>1, <3>1 DEF IInv, CellsInv
  <2> QED BY <2>2
<1>3. Live \subseteq HeapRef
  BY <1>1, <1>2 DEF HeapRef, Live
<1> QED BY <1>1, <1>3 DEF IInv, MutatorInv

-----------------------------------------------------------------------------
(***************************************************************************)
(* The steps of the program.                                               *)
(***************************************************************************)

\* A step that changes neither the memory nor the roots is not visible.
LEMMA SameHeap ==
  ASSUME mem' = mem
  PROVE  /\ \A x : (IdOf(x))' = IdOf(x)
         /\ AbsNodes' = AbsNodes
         /\ root' = root => AbsRoot' = AbsRoot
         /\ caf' = caf => AbsCaf' = AbsCaf
<1>1. \A x : (IdOf(x))' = IdOf(x)
  BY DEF IdOf
<1>2. \A a : (Abs(a))' = Abs(a)
  BY DEF Abs, IdOf
<1>3. Live' = Live
  BY DEF Live
<1> QED BY <1>1, <1>2, <1>3 DEF AbsNodes, AbsRoot, AbsCaf

\* A slot that is written.
LEMMA SlotWritten ==
  ASSUME IInv, NEW s \in Slot, NEW x, mem' = mem, caf' = caf,
         root' = [root EXCEPT ![s] = x]
  PROVE  /\ AbsRoot' = [AbsRoot EXCEPT ![s] = IdOf(x)]
         /\ AbsCaf' = AbsCaf /\ AbsNodes' = AbsNodes
<1>1. root \in [Slot -> Ref \cup {Null}]
  BY DEF IInv, TypeOK
<1>2. \A t \in Slot : root'[t] = IF t = s THEN x ELSE root[t]
  BY <1>1
<1> QED BY <1>2, SameHeap DEF AbsRoot

\* Reading a field of a cell is a step of the abstract heap.
LEMMA LoadFieldStep ==
  ASSUME IInv, NEW s \in Slot, NEW t \in Slot, NEW f \in Field,
         LoadField(s, t, f)
  PROVE  Heap!Follow(s, t, f)
<1> DEFINE a == root[t]
<1>1. /\ a \in Addr /\ a \in Live /\ mem[a].ptrs[f] # Null /\ phase = "mutator"
      /\ root' = [root EXCEPT ![s] = mem[a].ptrs[f]]
      /\ mem' = mem /\ caf' = caf
  BY DEF LoadField, Live
<1>2. Abs(a) \in AbsNodes /\ Abs(a).id = AbsRoot[t]
      /\ Abs(a).fields[f] = IdOf(mem[a].ptrs[f])
  <2>1. Abs(a) \in AbsNodes
    BY <1>1 DEF AbsNodes
  <2>2. Abs(a).id = AbsRoot[t]
    BY <1>1, AbsFacts, IdOfStatic DEF AbsRoot
  <2> QED BY <2>1, <2>2, AbsFacts
<1>3. Abs(a).fields[f] # Null
  BY <1>1, <1>2, MutatorRefs, HeapRefId
<1>4. /\ AbsRoot' = [AbsRoot EXCEPT ![s] = Abs(a).fields[f]]
      /\ AbsCaf' = AbsCaf /\ AbsNodes' = AbsNodes
  BY <1>1, <1>2, SlotWritten
<1> HIDE DEF a
<1> QED BY <1>2, <1>3, <1>4
        DEF Heap!Follow, AbsRoot, AbsCaf, AbsNodes, Live, Heap!vars

\* Setting a slot is a step of the abstract heap.
LEMMA SetSlotStep ==
  ASSUME IInv, NEW s \in Slot, NEW x \in Ref \cup {Null}, SetSlot(s, x)
  PROVE  \E y \in Id \cup Static \cup {Null} : Heap!Assign(s, y)
<1>a. PICK y : y = IdOf(x)
  OBVIOUS
<1>1. /\ phase = "mutator" /\ mem' = mem /\ caf' = caf
      /\ root' = [root EXCEPT ![s] = x]
      /\ x \in Static \cup {Null} \/ \E t \in Slot : x = root[t]
  BY DEF SetSlot
<1>2. y \in Static \cup {Null} \/ \E t \in Slot : y = AbsRoot[t]
  BY <1>a, <1>1, IdOfStatic DEF AbsRoot
<1>3. y \in Id \cup Static \cup {Null}
  BY <1>a, <1>1, IdOfStatic, MutatorRefs, HeapRefId
<1>4. /\ AbsRoot' = [AbsRoot EXCEPT ![s] = y]
      /\ AbsCaf' = AbsCaf /\ AbsNodes' = AbsNodes
  BY <1>a, <1>1, SlotWritten
<1>5. Heap!Assign(s, y)
  BY <1>2, <1>4
     DEF Heap!Assign, Heap!Static, Static, AbsRoot, AbsCaf, AbsNodes, Live
<1> QED BY <1>3, <1>5

\* Following an indirection is not visible; entering an evaluated CAF is.
LEMMA FollowIndStep ==
  ASSUME IInv, NEW s \in Slot, FollowInd(s)
  PROVE  Heap!Enter(s) \/ UNCHANGED <<AbsRoot, AbsCaf, AbsNodes>>
<1>1. /\ phase = "mutator" /\ mem' = mem /\ caf' = caf
      /\ root' = [root EXCEPT ![s] = IndTarget(root[s])] /\ IsInd(root[s])
  BY DEF FollowInd
<1>2. /\ AbsRoot' = [AbsRoot EXCEPT ![s] = IdOf(IndTarget(root[s]))]
      /\ AbsCaf' = AbsCaf /\ AbsNodes' = AbsNodes
  BY <1>1, SlotWritten
<1>3. CASE root[s] \in Caf
  <2>1. AbsRoot[s] = root[s] /\ IndTarget(root[s]) = caf[root[s]]
        /\ caf[root[s]] # Null
    BY <1>1, <1>3, IdOfStatic, RefFacts DEF AbsRoot, IndTarget, IsInd
  <2>2. AbsCaf[AbsRoot[s]] = IdOf(caf[root[s]])
    BY <1>3, <2>1 DEF AbsCaf
  <2>3. AbsCaf[AbsRoot[s]] # Null
    BY <1>1, <1>3, <2>1, <2>2, MutatorRefs, HeapRefId
  <2> QED BY <1>2, <1>3, <2>1, <2>2, <2>3
          DEF Heap!Enter, AbsRoot, AbsCaf, AbsNodes, Live
<1>4. CASE root[s] \notin Caf
  <2>1. root[s] \in Addr /\ mem[root[s]].type = "IND"
        /\ IndTarget(root[s]) = mem[root[s]].ptrs[1]
    BY <1>1, <1>4 DEF IsInd, IndTarget
  <2>2. IdOf(IndTarget(root[s])) = AbsRoot[s]
    BY <2>1, IdOfStatic DEF IInv, IdInv, AbsRoot
  <2>3. AbsRoot' = AbsRoot
    BY <1>2, <2>2 DEF AbsRoot
  <2> QED BY <1>2, <2>3
<1> QED BY <1>3, <1>4

\* Allocating a closure makes a node.
LEMMA AllocStep ==
  ASSUME IInv, NEW s \in Slot, NEW ty \in AllocType,
         NEW args \in [Field -> Slot \cup {Null}], Alloc(s, ty, args)
  PROVE  Heap!New(s, ty, args)
<1>a. PICK a0 : a0 = <<Head1, heap + 1>>
  OBVIOUS
<1> DEFINE i0 == CHOOSE i \in FreshIds : TRUE
           p0 == [f \in Field |-> IF args[f] = Null THEN Null
                                  ELSE root[args[f]]]
           c0 == [type |-> ty, id |-> i0, ptrs |-> p0]
           n0 == [id |-> i0, type |-> ty,
                  fields |-> [f \in Field |-> IF args[f] = Null THEN Null
                                              ELSE AbsRoot[args[f]]]]
<1>0. /\ phase = "mutator" /\ heap < BlockSize
      /\ mem' = [mem EXCEPT ![a0] = c0]
      /\ root' = [root EXCEPT ![s] = a0] /\ caf' = caf
      /\ \A f \in Field : args[f] # Null => root[args[f]] # Null
  BY <1>a DEF Alloc, Fits
<1>1. i0 \in FreshIds
  BY DEF Alloc
<1>2. i0 \in Id /\ \A a \in Live : mem[a].id # i0
  BY <1>1 DEF FreshIds, Live
<1> HIDE DEF i0
<1>3. Head1 \in Block /\ heap \in Nat /\ heap + 1 \in 1..BlockSize
  BY <1>0, HeadFacts, ConstantsAssumption DEF IInv, TypeOK
<1>4. a0 \in Addr /\ a0[1] = Head1 /\ a0[2] = heap + 1
  BY <1>a, <1>3, AddrFacts
<1>5. mem[a0].type = "FREE"
  BY <1>0, <1>3, <1>4 DEF IInv, CellsInv, Limit
<1>6. ty \in Type
  BY ConstantsAssumption
<1>7. mem'[a0] = c0 /\ \A a \in Addr : a # a0 => mem'[a] = mem[a]
  BY <1>0, <1>4 DEF IInv, TypeOK
<1>8. c0.type = ty /\ c0.id = i0 /\ c0.ptrs = p0
  OBVIOUS
<1>9. \A f \in Field : /\ args[f] = Null => p0[f] = Null
                       /\ args[f] # Null => /\ args[f] \in Slot
                                            /\ p0[f] = root[args[f]]
  OBVIOUS
<1> HIDE DEF c0, p0
<1>10. a0 \notin HeapRef \cup {Null}
  BY <1>4, <1>5, RefFacts DEF HeapRef, Type, HNF
<1>11. \A x \in HeapRef \cup {Null} : (IdOf(x))' = IdOf(x)
  BY <1>7, <1>10 DEF IdOf
<1>12. Live' = Live \cup {a0}
  BY <1>4, <1>5, <1>6, <1>7, <1>8 DEF Live
<1>13. \A a \in Live : (Abs(a))' = Abs(a)
  <2> SUFFICES ASSUME NEW a \in Live PROVE (Abs(a))' = Abs(a)
    OBVIOUS
  <2>1. a \in Addr /\ a # a0
    BY <1>5 DEF Live, Type, HNF
  <2>2. mem'[a] = mem[a]
    BY <1>7, <2>1
  <2>3. \A f \in Field : (IdOf(mem[a].ptrs[f]))' = IdOf(mem[a].ptrs[f])
    BY <1>0, <1>11, <2>2, MutatorRefs DEF IdOf
  <2> QED BY <2>2, <2>3 DEF Abs
<1>14. (Abs(a0))' = n0
  <2>1. \A f \in Field : (IdOf(mem[a0].ptrs[f]))'
                           = IF args[f] = Null THEN Null ELSE AbsRoot[args[f]]
    <3> SUFFICES ASSUME NEW f \in Field
                 PROVE  (IdOf(mem[a0].ptrs[f]))'
                           = IF args[f] = Null THEN Null ELSE AbsRoot[args[f]]
      OBVIOUS
    <3>1. mem'[a0].ptrs[f] = p0[f]
      BY <1>7, <1>8
    <3>2. CASE args[f] = Null
      BY <1>9, <3>1, <3>2, RefFacts DEF IdOf
    <3>3. CASE args[f] # Null
      <4>1. root[args[f]] \in HeapRef \cup {Null} /\ p0[f] = root[args[f]]
        BY <1>0, <1>9, <3>3, MutatorRefs
      <4>2. (IdOf(mem[a0].ptrs[f]))' = IdOf(root[args[f]])
        BY <1>11, <3>1, <4>1 DEF IdOf
      <4> QED BY <1>9, <3>3, <4>2 DEF AbsRoot
    <3> QED BY <3>2, <3>3
  <2> QED BY <1>7, <1>8, <2>1 DEF Abs
<1>15. AbsNodes' = AbsNodes \cup {n0}
  BY <1>12, <1>13, <1>14 DEF AbsNodes
<1>16. \A n \in AbsNodes : n.id # i0
  BY <1>2, AbsFacts DEF AbsNodes
<1>17. AbsRoot' = [AbsRoot EXCEPT ![s] = i0]
  <2>1. (IdOf(a0))' = i0
    BY <1>4, <1>7, <1>8, IdOfStatic
  <2>2. root \in [Slot -> Ref \cup {Null}]
    BY DEF IInv, TypeOK
  <2>3. \A t \in Slot : (IdOf(root[t]))' = IF t = s THEN i0 ELSE IdOf(root[t])
    <3> SUFFICES ASSUME NEW t \in Slot
                 PROVE  (IdOf(root[t]))' = IF t = s THEN i0 ELSE IdOf(root[t])
      OBVIOUS
    <3>1. root'[t] = IF t = s THEN a0 ELSE root[t]
      BY <1>0, <2>2
    <3>2. root[t] \in HeapRef \cup {Null}
      BY <1>0, MutatorRefs
    <3> QED BY <1>11, <2>1, <3>1, <3>2 DEF IdOf
  <2> QED BY <2>3 DEF AbsRoot
<1>18. AbsCaf' = AbsCaf
  <2>1. \A c \in Caf : caf[c] \in HeapRef \cup {Null}
    BY <1>0, MutatorRefs
  <2>2. \A c \in Caf : (IdOf(caf[c]))' = IdOf(caf[c])
    BY <1>0, <1>11, <2>1 DEF IdOf
  <2> QED BY <2>2 DEF AbsCaf
<1>19. \A f \in Field : args[f] # Null => AbsRoot[args[f]] # Null
  BY <1>0, <1>9, MutatorRefs, HeapRefId DEF AbsRoot
<1> HIDE DEF n0
<1>20. \E i \in Id :
         /\ \A n \in AbsNodes : n.id # i
         /\ AbsNodes' = AbsNodes \cup
              {[id |-> i, type |-> ty,
                fields |-> [f \in Field |-> IF args[f] = Null THEN Null
                                            ELSE AbsRoot[args[f]]]]}
         /\ AbsRoot' = [AbsRoot EXCEPT ![s] = i]
  BY <1>2, <1>15, <1>16, <1>17 DEF n0
<1> QED BY <1>18, <1>19, <1>20
        DEF Heap!New, AbsRoot, AbsCaf, AbsNodes, Live, Heap!Type, Type,
            Heap!HNF, HNF

\* Tying a knot overwrites a field of one node.
LEMMA InitFieldStep ==
  ASSUME IInv, NEW s \in Slot, NEW t \in Slot, NEW f \in Field,
         InitField(s, t, f)
  PROVE  Heap!Tie(s, t, f)
<1>a. PICK a0 : a0 = root[s]
  OBVIOUS
<1> DEFINE v0 == root[t]
           c0 == [mem[a0] EXCEPT !.ptrs[f] = v0]
<1>0. /\ phase = "mutator" /\ a0 \in Addr /\ mem[a0].type \in Type /\ v0 # Null
      /\ mem[a0].ptrs[f] # Null
      /\ mem' = [mem EXCEPT ![a0].ptrs[f] = v0]
      /\ root' = root /\ caf' = caf
  BY <1>a DEF InitField
<1>1. mem \in [Addr -> Cell] /\ mem[a0] \in Cell
  BY <1>0 DEF IInv, TypeOK
<1>2. v0 \in HeapRef /\ v0 \in Ref
  BY <1>0 DEF IInv, MutatorInv, HeapRef, Ref
<1>3. mem' = [mem EXCEPT ![a0] = c0]
  BY <1>0, <1>1
<1>4. /\ c0.type = mem[a0].type /\ c0.id = mem[a0].id
      /\ \A g \in Field : c0.ptrs[g] = IF g = f THEN v0 ELSE mem[a0].ptrs[g]
  BY <1>1, <1>2 DEF Cell
<1> HIDE DEF c0
<1>5. mem'[a0] = c0 /\ \A a \in Addr : a # a0 => mem'[a] = mem[a]
  BY <1>0, <1>1, <1>3
<1>6. \A a \in Addr : mem'[a].type = mem[a].type /\ mem'[a].id = mem[a].id
  BY <1>4, <1>5
<1>7. \A x : (IdOf(x))' = IdOf(x)
  BY <1>6 DEF IdOf
<1>8. Live' = Live /\ a0 \in Live
  BY <1>0, <1>6 DEF Live
<1>9. \A a \in Live : a # a0 => (Abs(a))' = Abs(a) /\ Abs(a) # Abs(a0)
  <2> SUFFICES ASSUME NEW a \in Live, a # a0
               PROVE  (Abs(a))' = Abs(a) /\ Abs(a) # Abs(a0)
    OBVIOUS
  <2>1. a \in Addr /\ mem'[a] = mem[a]
    BY <1>5 DEF Live
  <2>2. (Abs(a))' = Abs(a)
    BY <1>7, <2>1 DEF Abs, IdOf
  <2>3. Abs(a).id # Abs(a0).id
    BY <1>0, AbsFacts DEF Live, IInv, NoDuplicates
  <2> QED BY <2>2, <2>3
<1>10. (Abs(a0))' = [Abs(a0) EXCEPT !.fields[f] = IdOf(v0)]
  <2>1. \A g \in Field : (IdOf(mem[a0].ptrs[g]))'
                           = IF g = f THEN IdOf(v0) ELSE IdOf(mem[a0].ptrs[g])
    <3> SUFFICES ASSUME NEW g \in Field
                 PROVE  (IdOf(mem[a0].ptrs[g]))'
                           = IF g = f THEN IdOf(v0) ELSE IdOf(mem[a0].ptrs[g])
      OBVIOUS
    <3>1. PICK y : y = IF g = f THEN v0 ELSE mem[a0].ptrs[g]
      OBVIOUS
    <3>2. mem'[a0].ptrs[g] = y
      BY <1>4, <1>5, <3>1
    <3>3. (IdOf(mem[a0].ptrs[g]))' = (IdOf(y))'
      BY <3>2 DEF IdOf
    <3> QED BY <1>7, <3>1, <3>3
  <2>2. mem'[a0].type = mem[a0].type /\ mem'[a0].id = mem[a0].id
    BY <1>0, <1>6
  <2> DEFINE F == [g \in Field |-> IdOf(mem[a0].ptrs[g])]
             G == [g \in Field |-> IF g = f THEN IdOf(v0)
                                   ELSE IdOf(mem[a0].ptrs[g])]
  <2>3. (Abs(a0))' = [id |-> mem[a0].id, type |-> mem[a0].type, fields |-> G]
    BY <2>1, <2>2 DEF Abs
  <2>4. Abs(a0) = [id |-> mem[a0].id, type |-> mem[a0].type, fields |-> F]
    BY DEF Abs
  <2>5. [F EXCEPT ![f] = IdOf(v0)] = G
    OBVIOUS
  <2> HIDE DEF F, G
  <2>6. [Abs(a0) EXCEPT !.fields[f] = IdOf(v0)]
          = [id |-> mem[a0].id, type |-> mem[a0].type,
             fields |-> [F EXCEPT ![f] = IdOf(v0)]]
    BY <2>4
  <2> QED BY <2>3, <2>5, <2>6
<1>11. AbsNodes' = (AbsNodes \ {Abs(a0)})
                     \cup {[Abs(a0) EXCEPT !.fields[f] = IdOf(v0)]}
  BY <1>8, <1>9, <1>10 DEF AbsNodes
<1>12. AbsRoot' = AbsRoot /\ AbsCaf' = AbsCaf
  BY <1>0, <1>7 DEF AbsRoot, AbsCaf, IdOf
<1>13. AbsRoot[t] # Null /\ AbsRoot[t] = IdOf(v0)
  BY <1>0, <1>2, HeapRefId DEF AbsRoot
<1>14. Abs(a0) \in AbsNodes /\ Abs(a0).id = AbsRoot[s]
       /\ Abs(a0).fields[f] # Null
  <2>1. Abs(a0) \in AbsNodes
    BY <1>8 DEF AbsNodes
  <2>2. Abs(a0).id = AbsRoot[s]
    BY <1>a, <1>0, AbsFacts, IdOfStatic DEF AbsRoot
  <2>3. Abs(a0).fields[f] # Null
    BY <1>0, <1>8, AbsFacts, MutatorRefs, HeapRefId
  <2> QED BY <2>1, <2>2, <2>3
<1> HIDE DEF v0
<1>15. \E n \in AbsNodes :
         /\ n.id = AbsRoot[s]
         /\ n.fields[f] # Null
         /\ AbsNodes' = (AbsNodes \ {n}) \cup {[n EXCEPT !.fields[f] = AbsRoot[t]]}
  BY <1>11, <1>13, <1>14
<1> QED BY <1>12, <1>13, <1>15
        DEF Heap!Tie, AbsRoot, AbsCaf, AbsNodes, Live

\* Updating a thunk replaces every reference to it, because an indirection
\* leads to a value and never to the thunk.
LEMMA UpdateThunkStep ==
  ASSUME IInv, phase = "mutator", NEW t0 \in Addr, mem[t0].type = "THUNK",
         NEW v0, v0 \in HeapRef, IsHNF(v0),
         mem' = [mem EXCEPT ![t0] =
                   [type |-> "IND", id |-> IdOf(v0),
                    ptrs |-> [f \in Field |-> IF f = 1 THEN v0 ELSE Null]]],
         root' = root, caf' = caf
  PROVE  \E i \in Id, v \in Id \cup Value : Heap!UpdateThunk(i, v)
<1> DEFINE c0 == [type |-> "IND", id |-> IdOf(v0),
                  ptrs |-> [f \in Field |-> IF f = 1 THEN v0 ELSE Null]]
<1>a. PICK i : i = mem[t0].id
  OBVIOUS
<1>b. PICK v : v = IdOf(v0)
  OBVIOUS
<1>1. t0 \in Live /\ i \in Id /\ v \in Id \cup Value
  BY <1>a, <1>b, HeapRefId DEF Live, Type, IInv, IdInv
<1>2. mem'[t0] = c0 /\ \A a \in Addr : a # t0 => mem'[a] = mem[a]
  BY DEF IInv, TypeOK
<1>3. c0.type = "IND" /\ c0.id = v
  BY <1>b
<1> HIDE DEF c0
<1>4. \A x \in HeapRef \cup {Null} : (IdOf(x))' = IF IdOf(x) = i THEN v ELSE IdOf(x)
  <2> SUFFICES ASSUME NEW x \in HeapRef \cup {Null}
               PROVE  (IdOf(x))' = IF IdOf(x) = i THEN v ELSE IdOf(x)
    OBVIOUS
  <2>1. CASE x \in Static \cup {Null}
    BY <1>1, <2>1, IdOfStatic, ConstantsAssumption
  <2>2. CASE x = t0
    BY <1>a, <1>2, <1>3, <2>2, IdOfStatic
  <2>3. CASE x \in Addr /\ x # t0
    <3>1. (IdOf(x))' = IdOf(x)
      BY <1>2, <2>3, IdOfStatic
    <3>2. CASE mem[x].type \in Type
      BY <1>a, <2>3, <3>1, <3>2, IdOfStatic DEF IInv, NoDuplicates, Type
    <3>3. CASE mem[x].type = "IND"
      <4>1. PICK y : y = mem[x].ptrs[1]
        OBVIOUS
      <4>2. IsHNF(y) /\ IdOf(x) = IdOf(y)
        BY <2>3, <3>3, <4>1, IdOfStatic DEF IInv, MutatorInv, IdInv
      <4>3. CASE y \in Value
        BY <1>1, <3>1, <4>2, <4>3, IdOfStatic, RefFacts
      <4>4. CASE y \in Addr /\ mem[y].type \in HNF
        <5>1. y # t0
          BY <4>4 DEF HNF
        <5>2. mem[y].id # i
          BY <1>a, <4>4, <5>1 DEF IInv, NoDuplicates, Type
        <5> QED BY <3>1, <4>2, <4>4, <5>2, IdOfStatic
      <4> QED BY <4>2, <4>3, <4>4 DEF IsHNF
    <3> QED BY <2>3, <3>2, <3>3, RefFacts DEF HeapRef
  <2> QED BY <2>1, <2>2, <2>3 DEF HeapRef
<1>5. Live' = Live \ {t0}
  BY <1>2, <1>3 DEF Live, Type, HNF
<1>6. \A a \in Live : mem[a].id # i <=> a # t0
  BY <1>a, <1>1 DEF Live, IInv, NoDuplicates
<1>7. ASSUME NEW a \in Live, a # t0
      PROVE  (Abs(a))' = [Abs(a) EXCEPT !.fields =
                            [f \in Field |-> Heap!Subst(@[f], i, v)]]
  <2>1. a \in Addr /\ mem'[a] = mem[a]
    BY <1>2, <1>7 DEF Live
  <2>2. \A f \in Field : (IdOf(mem[a].ptrs[f]))' =
                           Heap!Subst(IdOf(mem[a].ptrs[f]), i, v)
    <3> SUFFICES ASSUME NEW f \in Field
                 PROVE  (IdOf(mem[a].ptrs[f]))' =
                          Heap!Subst(IdOf(mem[a].ptrs[f]), i, v)
      OBVIOUS
    <3>1. PICK y : y = mem[a].ptrs[f]
      OBVIOUS
    <3>2. y \in HeapRef \cup {Null} /\ y = mem'[a].ptrs[f]
      BY <2>1, <3>1, MutatorRefs
    <3>3. (IdOf(mem[a].ptrs[f]))' = (IdOf(y))'
      BY <3>2 DEF IdOf
    <3> QED BY <1>4, <3>1, <3>2, <3>3 DEF Heap!Subst
  <2> DEFINE F == [f \in Field |-> IdOf(mem[a].ptrs[f])]
             G == [f \in Field |-> Heap!Subst(F[f], i, v)]
  <2>3. (Abs(a))' = [id |-> mem[a].id, type |-> mem[a].type, fields |-> G]
    BY <2>1, <2>2 DEF Abs
  <2>4. Abs(a) = [id |-> mem[a].id, type |-> mem[a].type, fields |-> F]
    BY DEF Abs
  <2> HIDE DEF F
  <2>5. [Abs(a) EXCEPT !.fields = [f \in Field |-> Heap!Subst(@[f], i, v)]]
          = [id |-> mem[a].id, type |-> mem[a].type, fields |-> G]
    BY <2>4
  <2> QED BY <2>3, <2>5
<1>8. AbsNodes' = {[n EXCEPT !.fields = [f \in Field |-> Heap!Subst(@[f], i, v)]] :
                     n \in {m \in AbsNodes : m.id # i}}
  <2>1. {m \in AbsNodes : m.id # i} = {Abs(a) : a \in Live \ {t0}}
    BY <1>6, AbsFacts DEF AbsNodes
  <2> DEFINE U(n) == [n EXCEPT !.fields =
                        [f \in Field |-> Heap!Subst(@[f], i, v)]]
  <2>2. \A a \in Live \ {t0} : (Abs(a))' = U(Abs(a))
    BY <1>7
  <2> HIDE DEF U
  <2>3. AbsNodes' = {U(n) : n \in {m \in AbsNodes : m.id # i}}
    BY <1>5, <2>1, <2>2 DEF AbsNodes
  <2> QED BY <2>3 DEF U
<1>9. /\ AbsRoot' = [s \in Slot |-> Heap!Subst(AbsRoot[s], i, v)]
      /\ AbsCaf' = [c \in Caf |-> Heap!Subst(AbsCaf[c], i, v)]
  <2>1. \A s \in Slot : (IdOf(root[s]))' = Heap!Subst(IdOf(root[s]), i, v)
    <3>1. \A s \in Slot : root[s] \in HeapRef \cup {Null}
      BY MutatorRefs
    <3> QED BY <1>4, <3>1 DEF Heap!Subst, IdOf
  <2>2. \A c \in Caf : (IdOf(caf[c]))' = Heap!Subst(IdOf(caf[c]), i, v)
    <3>1. \A c \in Caf : caf[c] \in HeapRef \cup {Null}
      BY MutatorRefs
    <3> QED BY <1>4, <3>1 DEF Heap!Subst, IdOf
  <2> QED BY <2>1, <2>2 DEF AbsRoot, AbsCaf
<1>10. \E n \in AbsNodes : n.id = i /\ n.type = "THUNK"
  BY <1>a, <1>1, AbsFacts DEF AbsNodes
<1>11. v \in Value \/ \E n \in AbsNodes : n.id = v /\ n.type \in HNF
  <2>1. CASE v0 \in Value
    BY <1>b, <2>1, IdOfStatic, RefFacts
  <2>2. CASE v0 \in Addr /\ mem[v0].type \in HNF
    <3>1. Abs(v0) \in AbsNodes
      BY <2>2 DEF AbsNodes, Live, Type
    <3> QED BY <1>b, <2>2, <3>1, AbsFacts, IdOfStatic
  <2> QED BY <2>1, <2>2 DEF IsHNF
<1>12. Heap!UpdateThunk(i, v)
  BY <1>8, <1>9, <1>10, <1>11
     DEF Heap!UpdateThunk, Heap!IsValue, Heap!HNF, HNF, AbsRoot, AbsCaf,
         AbsNodes, Live
<1> QED BY <1>1, <1>12

\* Updating a CAF with a value is a step of the abstract heap.
LEMMA UpdateCafStep ==
  ASSUME IInv, phase = "mutator", NEW c \in Caf, caf[c] = Null,
         NEW v0, v0 \in HeapRef, IsHNF(v0), caf' = [caf EXCEPT ![c] = v0],
         mem' = mem, root' = root
  PROVE  \E v \in Id \cup Value : Heap!UpdateCaf(c, v)
<1>a. PICK v : v = IdOf(v0)
  OBVIOUS
<1>1. v \in Id \cup Value
  BY <1>a, HeapRefId
<1>2. AbsCaf[c] = Null
  BY IdOfStatic DEF AbsCaf
<1>3. v \in Value \/ \E n \in AbsNodes : n.id = v /\ n.type \in HNF
  <2>1. CASE v0 \in Value
    BY <1>a, <2>1, IdOfStatic, RefFacts
  <2>2. CASE v0 \in Addr /\ mem[v0].type \in HNF
    <3>1. Abs(v0) \in AbsNodes
      BY <2>2 DEF AbsNodes, Live, Type
    <3> QED BY <1>a, <2>2, <3>1, AbsFacts, IdOfStatic
  <2> QED BY <2>1, <2>2 DEF IsHNF
<1>4. AbsNodes' = AbsNodes /\ AbsRoot' = AbsRoot
  BY SameHeap
<1>5. AbsCaf' = [AbsCaf EXCEPT ![c] = v]
  <2>1. \A d \in Caf : caf'[d] = IF d = c THEN v0 ELSE caf[d]
    BY DEF IInv, TypeOK
  <2>2. \A d \in Caf : (IdOf(caf[d]))' = IF d = c THEN v ELSE IdOf(caf[d])
    BY <1>a, <2>1 DEF IdOf
  <2> QED BY <2>2 DEF AbsCaf
<1>6. Heap!UpdateCaf(c, v)
  BY <1>2, <1>3, <1>4, <1>5
     DEF Heap!UpdateCaf, Heap!IsValue, Heap!HNF, HNF, AbsRoot, AbsCaf,
         AbsNodes, Live
<1> QED BY <1>1, <1>6

\* Any update is an update of LazyHeap.
LEMMA UpdateStep ==
  ASSUME IInv, NEW s \in Slot, NEW t \in Slot, Update(s, t)
  PROVE  \/ \E i \in Id, v \in Id \cup Value : Heap!UpdateThunk(i, v)
         \/ \E c \in Caf, v \in Id \cup Value : Heap!UpdateCaf(c, v)
<1>a. PICK t0, v0 : t0 = root[s] /\ v0 = root[t]
  OBVIOUS
<1>1. phase = "mutator" /\ IsHNF(v0) /\ root' = root
  BY <1>a DEF Update
<1>2. v0 \in HeapRef
  BY <1>a, <1>1, MutatorRefs, RefFacts DEF IsHNF
<1>3. CASE /\ t0 \in Addr /\ mem[t0].type = "THUNK" /\ caf' = caf
           /\ mem' = [mem EXCEPT ![t0] =
                        [type |-> "IND", id |-> IdOf(v0),
                         ptrs |-> [f \in Field |-> IF f = 1 THEN v0 ELSE Null]]]
  BY <1>1, <1>2, <1>3, UpdateThunkStep
<1>4. CASE t0 \in Caf /\ caf[t0] = Null /\ caf' = [caf EXCEPT ![t0] = v0]
           /\ mem' = mem
  BY <1>1, <1>2, <1>4, UpdateCafStep
<1> QED BY <1>a, <1>3, <1>4 DEF Update

-----------------------------------------------------------------------------
(***************************************************************************)
(* The steps of the collector.                                             *)
(***************************************************************************)

Known == FromRef \cup ToRef \cup {Null}

\* What the slots, the CAFs and the closures refer to during a collection.
LEMMA CollectorRefs ==
  ASSUME IInv, phase # "mutator"
  PROVE  /\ \A s \in Slot : root[s] \in Known
         /\ \A c \in Caf : caf[c] \in Known
         /\ \A a \in Live, f \in Field : mem[a].ptrs[f] \in Known
         /\ \A a \in Live : a[1] \in old_heap \cup Closures
<1>1. \A a \in Live : a[1] \in old_heap \cup Closures
  <2> SUFFICES ASSUME NEW a \in Live PROVE a[1] \in old_heap \cup Closures
    OBVIOUS
  <2>1. a \in Addr /\ mem[a].type # "FREE"
    BY DEF Live, Type, HNF
  <2>2. a[1] \in Block /\ a[2] \in Nat /\ a[2] > 0
    BY <2>1, AddrFacts, ConstantsAssumption
  <2>3. free[a[1]] # 0
    BY <2>1, <2>2 DEF IInv, CellsInv, Limit
  <2> QED BY <2>2, <2>3 DEF IInv, BlocksDisjoint
<1>2. \A a \in Live, f \in Field : mem[a].ptrs[f] \in Known
  <2> SUFFICES ASSUME NEW a \in Live, NEW f \in Field
               PROVE  mem[a].ptrs[f] \in Known
    OBVIOUS
  <2>1. a \in Addr /\ mem[a].type \in Type /\ mem[a].type # "FREE"
    BY DEF Live, Type, HNF
  <2>2. CASE a[1] \in old_heap
    BY <2>1, <2>2 DEF IInv, FromInv, Known
  <2>3. CASE a[1] \in Closures
    BY <2>1, <2>3 DEF IInv, ToInv, Known
  <2> QED BY <1>1, <2>2, <2>3
<1>3. \A s \in Slot : root[s] \in Known
  BY DEF IInv, RootsInv, Known
<1>4. \A c \in Caf : caf[c] \in Known
  BY DEF IInv, RootsInv, Known
<1> QED BY <1>1, <1>2, <1>3, <1>4

\* An evacuation, with the write of the payload word it came from, changes no
\* closure the program sees.
LEMMA EvacHidden ==
  ASSUME IInv, phase \in {"roots", "static", "scavenge"}, phase' = phase,
         NEW q \in FromRef, NEW new, Evacuate(q, new),
         phase = "scavenge" => /\ pos <= free[closures[k]]
                               /\ mem[Current].ptrs[fld] = q,
         old_heap' = old_heap, scavenged' = scavenged,
         mem' \in [Addr -> Cell],
         \A a \in Addr :
           /\ mem'[a].type = EvacMem(q, new)[a].type
           /\ mem'[a].id = EvacMem(q, new)[a].id
           /\ \A f \in Field :
                mem'[a].ptrs[f] = IF Written(a, f) THEN new
                                  ELSE EvacMem(q, new)[a].ptrs[f]
  PROVE  /\ (IdOf(new))' = IdOf(q)
         /\ \A x \in Known : (IdOf(x))' = IdOf(x)
         /\ AbsNodes' = AbsNodes
<1>1. (IdOf(new))' = IdOf(q) /\ \A x \in Known : (IdOf(x))' = IdOf(x)
  BY EvacStep DEF Known
<1>2. phase # "mutator"
  OBVIOUS
<1>3. ASSUME NEW a \in Live, mem'[a].type = mem[a].type, mem'[a].id = mem[a].id,
             \A f \in Field :
               mem'[a].ptrs[f] = IF Written(a, f) THEN new ELSE mem[a].ptrs[f]
      PROVE  (Abs(a))' = Abs(a)
  <2>1. \A f \in Field : (IdOf(mem[a].ptrs[f]))' = IdOf(mem[a].ptrs[f])
    <3> SUFFICES ASSUME NEW f \in Field
                 PROVE  (IdOf(mem[a].ptrs[f]))' = IdOf(mem[a].ptrs[f])
      OBVIOUS
    <3>1. PICK y : y = mem'[a].ptrs[f]
      OBVIOUS
    <3>2. (IdOf(mem[a].ptrs[f]))' = (IdOf(y))'
      BY <3>1 DEF IdOf
    <3>3. CASE Written(a, f)
      <4>1. y = new /\ mem[a].ptrs[f] = q
        BY <1>3, <3>1, <3>3 DEF Written
      <4> QED BY <1>1, <3>2, <4>1
    <3>4. CASE ~ Written(a, f)
      <4>1. y = mem[a].ptrs[f] /\ y \in Known
        BY <1>2, <1>3, <3>1, <3>4, CollectorRefs
      <4> QED BY <1>1, <3>2, <4>1
    <3> QED BY <3>3, <3>4
  <2> QED BY <1>3, <2>1 DEF Abs
<1>4. CASE NoCopy(q, new)
  <2>1. \A a \in Addr :
          /\ mem'[a].type = mem[a].type /\ mem'[a].id = mem[a].id
          /\ \A f \in Field :
               mem'[a].ptrs[f] = IF Written(a, f) THEN new ELSE mem[a].ptrs[f]
    BY <1>4 DEF NoCopy
  <2>2. Live' = Live
    BY <2>1 DEF Live
  <2>3. \A a \in Live : (Abs(a))' = Abs(a)
    BY <1>3, <2>1 DEF Live
  <2>4. AbsNodes' = AbsNodes
    BY <2>2, <2>3 DEF AbsNodes
  <2> QED BY <1>1, <2>4
<1>5. CASE Copy(q, new)
  <2>1. /\ q \in Addr /\ q[1] \in old_heap /\ mem[q].type \in Type
        /\ new \in Addr /\ new # q /\ mem[new].type = "FREE"
    BY <1>5 DEF Copy
  <2>2. \/ Current \in Addr /\ Current # q /\ Current # new
        \/ phase # "scavenge"
    BY <2>1, CurrentFacts DEF IInv, BlocksDisjoint, Type, HNF
  <2>3. /\ mem'[new].type = mem[q].type /\ mem'[new].id = mem[q].id
        /\ \A f \in Field : mem'[new].ptrs[f] = mem[q].ptrs[f]
    BY <1>5, <2>1, <2>2, CopyMem DEF Written
  <2>4. mem'[q].type = "FWD"
    BY <1>5, <2>1, CopyMem
  <2>5. \A a \in Addr : a # q /\ a # new =>
          /\ mem'[a].type = mem[a].type /\ mem'[a].id = mem[a].id
          /\ \A f \in Field :
               mem'[a].ptrs[f] = IF Written(a, f) THEN new ELSE mem[a].ptrs[f]
    BY <1>5, CopyMem
  <2>6. Live' = (Live \ {q}) \cup {new} /\ q \in Live /\ new \notin Live
    BY <2>1, <2>3, <2>4, <2>5 DEF Live, Type, HNF
  <2>7. \A a \in Live : a # q => (Abs(a))' = Abs(a)
    <3> SUFFICES ASSUME NEW a \in Live, a # q PROVE (Abs(a))' = Abs(a)
      OBVIOUS
    <3>1. a \in Addr /\ a # new
      BY <2>6 DEF Live
    <3> QED BY <1>3, <2>5, <3>1
  <2>8. (Abs(new))' = Abs(q)
    <3>1. \A f \in Field : (IdOf(mem[new].ptrs[f]))' = IdOf(mem[q].ptrs[f])
      <4> SUFFICES ASSUME NEW f \in Field
                   PROVE  (IdOf(mem[new].ptrs[f]))' = IdOf(mem[q].ptrs[f])
        OBVIOUS
      <4>1. PICK y : y = mem[q].ptrs[f]
        OBVIOUS
      <4>2. y \in Known
        BY <1>2, <2>6, <4>1, CollectorRefs
      <4>3. (IdOf(mem[new].ptrs[f]))' = (IdOf(y))'
        BY <2>3, <4>1 DEF IdOf
      <4> QED BY <1>1, <4>1, <4>2, <4>3
    <3> QED BY <2>3, <3>1 DEF Abs
  <2>9. AbsNodes' = AbsNodes
    BY <2>6, <2>7, <2>8 DEF AbsNodes
  <2> QED BY <1>1, <2>9
<1> QED BY <1>2, <1>4, <1>5, EvacCases

\* Evacuating a slot is not visible.
LEMMA EvacRootStep ==
  ASSUME IInv, NEW s \in Slot, EvacRoot(s)
  PROVE  UNCHANGED <<AbsRoot, AbsCaf, AbsNodes>>
<1>0. /\ phase = "roots" /\ phase' = "roots" /\ s \in todo
      /\ old_heap' = old_heap /\ scavenged' = scavenged /\ caf' = caf
  BY DEF EvacRoot
<1>1. PICK new \in Ref : /\ Evacuate(root[s], new)
                         /\ mem' = EvacMem(root[s], new)
                         /\ root' = [root EXCEPT ![s] = new]
  BY DEF EvacRoot
<1>2. PICK q : q = root[s]
  OBVIOUS
<1>3. q \in FromRef
  BY <1>0, <1>2 DEF IInv, RootsInv
<1>4. mem' \in [Addr -> Cell]
  BY <1>0, <1>1, <1>2, <1>3, EvacGrow
<1>5. \A a, f : ~ Written(a, f)
  BY <1>0 DEF Written
<1>6. /\ (IdOf(new))' = IdOf(q) /\ AbsNodes' = AbsNodes
      /\ \A x \in Known : (IdOf(x))' = IdOf(x)
  BY <1>0, <1>1, <1>2, <1>3, <1>4, <1>5, EvacHidden
<1>7. /\ \A t \in Slot : root[t] \in Known
      /\ \A c \in Caf : caf[c] \in Known
  BY <1>0, CollectorRefs
<1>8. \A t \in Slot : (IdOf(root[t]))' = IdOf(root[t])
  <2> SUFFICES ASSUME NEW t \in Slot PROVE (IdOf(root[t]))' = IdOf(root[t])
    OBVIOUS
  <2>1. PICK y : y = IF t = s THEN new ELSE root[t]
    OBVIOUS
  <2>2. root'[t] = y
    BY <1>1, <2>1 DEF IInv, TypeOK
  <2>3. (IdOf(root[t]))' = (IdOf(y))'
    BY <2>2 DEF IdOf
  <2> QED BY <1>2, <1>6, <1>7, <2>1, <2>3
<1>9. \A c \in Caf : (IdOf(caf[c]))' = IdOf(caf[c])
  BY <1>0, <1>6, <1>7 DEF IdOf
<1> QED BY <1>6, <1>8, <1>9 DEF AbsRoot, AbsCaf

\* Evacuating the value of a CAF is not visible.
LEMMA EvacCafStep ==
  ASSUME IInv, NEW c \in Caf, EvacCaf(c)
  PROVE  UNCHANGED <<AbsRoot, AbsCaf, AbsNodes>>
<1>0. /\ phase = "static" /\ phase' = "static" /\ c \in todo
      /\ old_heap' = old_heap /\ scavenged' = scavenged /\ root' = root
  BY DEF EvacCaf
<1>1. PICK new \in Ref : /\ Evacuate(caf[c], new)
                         /\ mem' = EvacMem(caf[c], new)
                         /\ caf' = [caf EXCEPT ![c] = new]
  BY DEF EvacCaf
<1>2. PICK q : q = caf[c]
  OBVIOUS
<1>3. q \in FromRef
  BY <1>0, <1>2 DEF IInv, RootsInv, StaticInv
<1>4. mem' \in [Addr -> Cell]
  BY <1>0, <1>1, <1>2, <1>3, EvacGrow
<1>5. \A a, f : ~ Written(a, f)
  BY <1>0 DEF Written
<1>6. /\ (IdOf(new))' = IdOf(q) /\ AbsNodes' = AbsNodes
      /\ \A x \in Known : (IdOf(x))' = IdOf(x)
  BY <1>0, <1>1, <1>2, <1>3, <1>4, <1>5, EvacHidden
<1>7. /\ \A t \in Slot : root[t] \in Known
      /\ \A d \in Caf : caf[d] \in Known
  BY <1>0, CollectorRefs
<1>8. \A d \in Caf : (IdOf(caf[d]))' = IdOf(caf[d])
  <2> SUFFICES ASSUME NEW d \in Caf PROVE (IdOf(caf[d]))' = IdOf(caf[d])
    OBVIOUS
  <2>1. PICK y : y = IF d = c THEN new ELSE caf[d]
    OBVIOUS
  <2>2. caf'[d] = y
    BY <1>1, <2>1 DEF IInv, TypeOK
  <2>3. (IdOf(caf[d]))' = (IdOf(y))'
    BY <2>2 DEF IdOf
  <2> QED BY <1>2, <1>6, <1>7, <2>1, <2>3
<1>9. \A t \in Slot : (IdOf(root[t]))' = IdOf(root[t])
  BY <1>0, <1>6, <1>7 DEF IdOf
<1> QED BY <1>6, <1>8, <1>9 DEF AbsRoot, AbsCaf

\* Scavenging a payload word is not visible.
LEMMA ScavengeFieldStep ==
  ASSUME IInv, ScavengeField
  PROVE  UNCHANGED <<AbsRoot, AbsCaf, AbsNodes>>
<1>0. /\ phase = "scavenge" /\ phase' = "scavenge"
      /\ pos <= free[closures[k]] /\ fld <= MaxFields
      /\ old_heap' = old_heap /\ scavenged' = scavenged
      /\ root' = root /\ caf' = caf
  BY DEF ScavengeField, PayloadLeft, rootVars
<1>1. PICK q : q = mem[Current].ptrs[fld]
  OBVIOUS
<1>2. CASE q = Null
  BY <1>0, <1>1, <1>2, SameHeap DEF ScavengeField
<1>3. CASE q # Null
  <2>1. PICK new \in Ref :
          /\ Evacuate(q, new)
          /\ mem' = [EvacMem(q, new) EXCEPT ![Current].ptrs[fld] = new]
    BY <1>1, <1>3 DEF ScavengeField
  <2>2. fld \in Field /\ pos \in Nat /\ k \in 1..Len(closures)
        /\ closures[k] \notin scavenged
    BY <1>0, ConstantsAssumption DEF IInv, TypeOK, LoopInv, Field
  <2>3. /\ Current \in Addr /\ Current[1] = closures[k] /\ Current[2] = pos
        /\ closures[k] \in Closures /\ mem[Current].type \in Type
    BY <1>0, CurrentFacts
  <2>4. ~ Scanned(Current, fld)
    BY <2>2, <2>3 DEF Scanned, Field
  <2>5. q \in FromRef
    BY <1>0, <1>1, <1>3, <2>2, <2>3, <2>4 DEF IInv, ToInv, Type, HNF
  <2>6. EvacMem(q, new) \in [Addr -> Cell]
    BY <1>0, <2>1, <2>5, EvacGrow
  <2>7. /\ mem' \in [Addr -> Cell]
        /\ \A a \in Addr :
             /\ mem'[a].type = EvacMem(q, new)[a].type
             /\ mem'[a].id = EvacMem(q, new)[a].id
             /\ \A f \in Field :
                  mem'[a].ptrs[f] = IF a = Current /\ f = fld THEN new
                                    ELSE EvacMem(q, new)[a].ptrs[f]
    <3> DEFINE m0 == EvacMem(q, new)
               c0 == [m0[Current] EXCEPT !.ptrs[fld] = new]
    <3>1. m0[Current] \in Cell /\ mem' = [m0 EXCEPT ![Current] = c0]
      BY <2>1, <2>3, <2>6
    <3>2. /\ c0 \in Cell /\ c0.type = m0[Current].type
          /\ c0.id = m0[Current].id
          /\ \A f \in Field : c0.ptrs[f] = IF f = fld THEN new
                                           ELSE m0[Current].ptrs[f]
      BY <2>2, <3>1 DEF Cell
    <3>3. m0 \in [Addr -> Cell]
      BY <2>6
    <3> HIDE DEF m0, c0
    <3>4. /\ mem' \in [Addr -> Cell] /\ mem'[Current] = c0
          /\ \A a \in Addr : a # Current => mem'[a] = m0[a]
      BY <2>3, <3>1, <3>2, <3>3
    <3> QED BY <3>2, <3>4 DEF m0
  <2>8. \A a, f : Written(a, f) <=> (a = Current /\ f = fld)
    BY <1>0 DEF Written
  <2>9. /\ AbsNodes' = AbsNodes
        /\ \A x \in Known : (IdOf(x))' = IdOf(x)
    <3>1. \A a \in Addr :
            /\ mem'[a].type = EvacMem(q, new)[a].type
            /\ mem'[a].id = EvacMem(q, new)[a].id
            /\ \A f \in Field :
                 mem'[a].ptrs[f] = IF Written(a, f) THEN new
                                   ELSE EvacMem(q, new)[a].ptrs[f]
      BY <2>7, <2>8
    <3>2. phase \in {"roots", "static", "scavenge"} /\ phase' = phase
      BY <1>0
    <3>3. phase = "scavenge" => /\ pos <= free[closures[k]]
                                /\ mem[Current].ptrs[fld] = q
      BY <1>0, <1>1
    <3>4. mem' \in [Addr -> Cell]
      BY <2>7
    <3> QED BY <1>0, <2>1, <2>5, <3>1, <3>2, <3>3, <3>4, EvacHidden
  <2>10. /\ \A t \in Slot : root[t] \in Known
         /\ \A c \in Caf : caf[c] \in Known
    BY <1>0, CollectorRefs
  <2>11. /\ \A t \in Slot : (IdOf(root[t]))' = IdOf(root[t])
         /\ \A c \in Caf : (IdOf(caf[c]))' = IdOf(caf[c])
    BY <1>0, <2>9, <2>10 DEF IdOf
  <2> QED BY <2>9, <2>11 DEF AbsRoot, AbsCaf
<1> QED BY <1>2, <1>3

\* Freeing the old blocks forgets closures that nothing refers to any more.
LEMMA FinishGCStep ==
  ASSUME IInv, FinishGC
  PROVE  \E keep \in SUBSET AbsNodes : Heap!Collect(keep)
<1>0. /\ phase = "blocks" /\ Head1 \in scavenged
      /\ mem' = [a \in Addr |-> IF a[1] \in old_heap THEN FreeCell ELSE mem[a]]
      /\ root' = root /\ caf' = caf
  BY DEF FinishGC, rootVars
<1>1. /\ Len(closures) \in Nat \ {0} /\ Closures \cap old_heap = {}
  BY HeadFacts DEF IInv, BlocksDisjoint
<1>2. Closures \subseteq scavenged
  <2> SUFFICES ASSUME NEW n \in 1..Len(closures)
               PROVE  closures[n] \in scavenged
    BY DEF Closures
  <2>1. Len(closures) \in 1..Len(closures)
    BY <1>1
  <2>2. n = Len(closures) \/ n < Len(closures)
    BY <1>1
  <2> QED BY <1>0, <2>1, <2>2 DEF IInv, LoopInv, Head1
<1>3. FreeCell.type = "FREE"
  BY DEF FreeCell
<1>4. \A a \in Addr : mem'[a] = IF a[1] \in old_heap THEN FreeCell ELSE mem[a]
  BY <1>0
<1>5. Live' = {a \in Live : a[1] \notin old_heap}
  BY <1>3, <1>4 DEF Live, Type, HNF
<1>6. \A a \in Live' : a[1] \in Closures
  BY <1>0, <1>5, CollectorRefs
<1>7. \A a \in Live', f \in Field : mem[a].ptrs[f] \in ToRef \cup {Null}
  <2> SUFFICES ASSUME NEW a \in Live', NEW f \in Field
               PROVE  mem[a].ptrs[f] \in ToRef \cup {Null}
    OBVIOUS
  <2>1. a \in Addr /\ mem[a].type # "FREE"
    BY <1>5 DEF Live, Type, HNF
  <2>2. Scanned(a, f)
    BY <1>2, <1>6 DEF Scanned
  <2> QED BY <1>0, <1>6, <2>1, <2>2 DEF IInv, ToInv
<1>8. \A x \in ToRef \cup {Null} : (IdOf(x))' = IdOf(x)
  <2> SUFFICES ASSUME NEW x \in ToRef \cup {Null} PROVE (IdOf(x))' = IdOf(x)
    OBVIOUS
  <2>1. CASE x \in Static \cup {Null}
    BY <2>1, IdOfStatic
  <2>2. CASE x \in Addr /\ x[1] \in Closures
    BY <1>1, <1>4, <2>2, IdOfStatic
  <2> QED BY <2>1, <2>2 DEF ToRef
<1>9. \A a \in Live' : (Abs(a))' = Abs(a)
  <2> SUFFICES ASSUME NEW a \in Live' PROVE (Abs(a))' = Abs(a)
    OBVIOUS
  <2>1. mem'[a] = mem[a]
    BY <1>4, <1>5 DEF Live
  <2>2. \A f \in Field : (IdOf(mem[a].ptrs[f]))' = IdOf(mem[a].ptrs[f])
    BY <1>7, <1>8, <2>1 DEF IdOf
  <2> QED BY <2>1, <2>2 DEF Abs
<1>10. AbsNodes' = {Abs(a) : a \in Live'} /\ AbsNodes' \subseteq AbsNodes
  BY <1>5, <1>9 DEF AbsNodes
<1>a. PICK keep : keep = AbsNodes'
  OBVIOUS
<1>b. PICK kept : kept = {n.id : n \in keep} \cup Static \cup {Null}
  OBVIOUS
<1>11. \A x \in ToRef \cup {Null} : IdOf(x) \in kept
  <2> SUFFICES ASSUME NEW x \in ToRef \cup {Null} PROVE IdOf(x) \in kept
    OBVIOUS
  <2>1. CASE x \in Static \cup {Null}
    BY <1>b, <2>1, IdOfStatic
  <2>2. CASE x \in Addr /\ x[1] \in Closures /\ mem[x].type \in Type
    <3>1. x \in Live'
      BY <1>1, <1>5, <2>2 DEF Live
    <3>2. Abs(x) \in keep /\ Abs(x).id = IdOf(x)
      BY <1>a, <1>10, <2>2, <3>1, AbsFacts, IdOfStatic
    <3> QED BY <1>b, <3>2
  <2> QED BY <2>1, <2>2 DEF ToRef
<1>12. /\ \A s \in Slot : root[s] \in ToRef \cup {Null}
       /\ \A c \in Caf : caf[c] \in ToRef \cup {Null}
  BY <1>0 DEF IInv, RootsInv
<1>13. /\ \A s \in Slot : AbsRoot[s] \in kept
       /\ \A c \in Caf : AbsCaf[c] \in kept
  BY <1>11, <1>12 DEF AbsRoot, AbsCaf
<1>14. \A n \in keep, f \in Field : n.fields[f] \in kept
  <2> SUFFICES ASSUME NEW a \in Live', NEW f \in Field
               PROVE  Abs(a).fields[f] \in kept
    BY <1>a, <1>10
  <2> QED BY <1>7, <1>11, AbsFacts
<1>15. AbsRoot' = AbsRoot /\ AbsCaf' = AbsCaf
  <2>1. /\ \A s \in Slot : (IdOf(root[s]))' = IdOf(root[s])
        /\ \A c \in Caf : (IdOf(caf[c]))' = IdOf(caf[c])
    BY <1>0, <1>8, <1>12 DEF IdOf
  <2> QED BY <2>1 DEF AbsRoot, AbsCaf
<1>16. keep \subseteq AbsNodes
  BY <1>a, <1>10
<1>17. Heap!Collect(keep)
  BY <1>a, <1>b, <1>13, <1>14, <1>15, <1>16
     DEF Heap!Collect, Heap!Static, Static, AbsRoot, AbsCaf, AbsNodes, Live
<1> QED BY <1>16, <1>17

-----------------------------------------------------------------------------
(***************************************************************************)
(* The refinement.                                                         *)
(***************************************************************************)

\* An empty heap maps to an empty graph of closures.
LEMMA InitStep ==
  ASSUME Init
  PROVE  Heap!Init
<1>1. \A a \in Addr : mem[a].type = "FREE"
  BY DEF Init, FreeCell
<1>2. Live = {}
  BY <1>1 DEF Live, Type, HNF
<1>3. AbsNodes = {}
  BY <1>2 DEF AbsNodes
<1>4. AbsRoot = [s \in Slot |-> Null] /\ AbsCaf = [c \in Caf |-> Null]
  BY IdOfStatic DEF AbsRoot, AbsCaf, Init
<1> QED BY <1>3, <1>4 DEF Heap!Init, AbsRoot, AbsCaf, AbsNodes, Live

\* Every step of the program is a step of LazyHeap.
LEMMA MutateStep ==
  ASSUME IInv, Mutate
  PROVE  Heap!Next \/ UNCHANGED <<AbsRoot, AbsCaf, AbsNodes>>
<1>1. ASSUME NEW s \in Slot, NEW ty \in AllocType,
             NEW args \in [Field -> Slot \cup {Null}], Alloc(s, ty, args)
      PROVE  Heap!Next
  <2>1. Heap!New(s, ty, args)
    BY <1>1, AllocStep
  <2>2. ty \in Heap!Type
    BY ConstantsAssumption DEF Heap!Type, Heap!HNF, Type, HNF
  <2> QED BY <2>1, <2>2 DEF Heap!Next
<1>2. ASSUME NEW s \in Slot, NEW t \in Slot, NEW f \in Field, LoadField(s, t, f)
      PROVE  Heap!Next
  BY <1>2, LoadFieldStep DEF Heap!Next
<1>3. ASSUME NEW s \in Slot, NEW t \in Slot, NEW f \in Field, InitField(s, t, f)
      PROVE  Heap!Next
  BY <1>3, InitFieldStep DEF Heap!Next
<1>4. ASSUME NEW s \in Slot, NEW x \in Ref \cup {Null}, SetSlot(s, x)
      PROVE  Heap!Next
  BY <1>4, SetSlotStep DEF Heap!Next, Heap!Name, Heap!Static, Static
<1>5. ASSUME NEW s \in Slot, FollowInd(s)
      PROVE  Heap!Next \/ UNCHANGED <<AbsRoot, AbsCaf, AbsNodes>>
  BY <1>5, FollowIndStep DEF Heap!Next
<1>6. ASSUME NEW s \in Slot, NEW t \in Slot, Update(s, t)
      PROVE  Heap!Next
  BY <1>6, UpdateStep DEF Heap!Next
<1>7. CASE BumpAllocatorFull \/ StartGC
  BY <1>7, SameHeap DEF BumpAllocatorFull, StartGC, rootVars
<1> QED BY <1>1, <1>2, <1>3, <1>4, <1>5, <1>6, <1>7 DEF Mutate

\* Of the collector's steps only the last is visible, as a Collect.
LEMMA CollectStep ==
  ASSUME IInv, Collect
  PROVE  Heap!Next \/ UNCHANGED <<AbsRoot, AbsCaf, AbsNodes>>
<1>1. CASE FinishGC
  <2>1. \E keep \in SUBSET AbsNodes : Heap!Collect(keep)
    BY <1>1, FinishGCStep
  <2> QED BY <2>1 DEF Heap!Next, AbsNodes, Live
<1>2. CASE StackDone \/ StaticDone \/ PickBlock \/ NextClosure \/ BlockScavenged
  BY <1>2, SameHeap
     DEF StackDone, StaticDone, PickBlock, NextClosure, BlockScavenged, rootVars
<1>3. CASE \E s \in Slot : EvacRoot(s)
  BY <1>3, EvacRootStep
<1>4. CASE \E c \in Caf : EvacCaf(c)
  BY <1>4, EvacCafStep
<1>5. CASE ScavengeField
  BY <1>5, ScavengeFieldStep
<1> QED BY <1>1, <1>2, <1>3, <1>4, <1>5 DEF Collect

\* The heap with its bump allocator, its updates by indirection and its
\* copying collector (performGC) implements LazyHeap: the program never
\* sees a closure move, and only closures it cannot reach disappear.
THEOREM Refinement == Spec => ImplementsLazyHeap
<1>1. Init => Heap!Init
  BY InitStep
<1>2. IInv /\ [Next]_vars => [Heap!Next]_(Heap!vars)
  <2> SUFFICES ASSUME IInv, [Next]_vars
               PROVE  [Heap!Next]_(Heap!vars)
    OBVIOUS
  <2>1. Heap!Next \/ UNCHANGED <<AbsRoot, AbsCaf, AbsNodes>>
    <3>1. CASE UNCHANGED vars
      BY <3>1, SameHeap DEF vars
    <3>2. CASE Next
      BY <3>2, MutateStep, CollectStep DEF Next
    <3> QED BY <3>1, <3>2
  <2> QED BY <2>1 DEF Heap!vars, AbsRoot, AbsCaf, AbsNodes, Live
<1> QED BY <1>1, <1>2, Invariance, PTL DEF Spec, ImplementsLazyHeap, Heap!Spec
=============================================================================
