--------------------------- MODULE CopyingGCProofs ---------------------------
(***************************************************************************)
(* Proofs about CopyingGC, for every number and size of blocks, closures,  *)
(* slots and static closures.                                              *)
(***************************************************************************)
EXTENDS CopyingGC, SequenceTheorems, TLAPS

\* Addresses are pairs of a block and a position in it.
LEMMA AddrFacts ==
  /\ \A a \in Addr : a[1] \in Block /\ a[2] \in 1..BlockSize
                     /\ a = <<a[1], a[2]>>
  /\ \A b \in Block, i \in 1..BlockSize :
       <<b, i>> \in Addr /\ <<b, i>>[1] = b /\ <<b, i>>[2] = i
BY DEF Addr

\* A grabbed block comes from the free list or was never handed out.
LEMMA GrabFacts ==
  ASSUME Grabbable # {}
  PROVE  grabFreeBlock \in Grabbable
BY DEF grabFreeBlock

\* With disjoint lists, a grabbed block is an empty block of no other list.
LEMMA GrabFresh ==
  ASSUME TypeOK, BlocksDisjoint, Grabbable # {}
  PROVE  /\ grabFreeBlock \in Block
         /\ grabFreeBlock \notin Closures
         /\ grabFreeBlock \notin old_heap
         /\ free[grabFreeBlock] = 0
BY GrabFacts DEF Grabbable, Untouched, TypeOK, BlocksDisjoint

\* The newest block of closures_.
LEMMA HeadFacts ==
  ASSUME TypeOK
  PROVE  /\ Len(closures) \in Nat \ {0}
         /\ Head1 \in Block
         /\ Head1 \in Closures
         /\ Closures \subseteq Block
BY DEF TypeOK, Head1, Closures

\* What blockFull does to closures_.
LEMMA AppendFacts ==
  ASSUME closures \in Seq(Block), NEW b \in Block,
         closures' = Append(closures, b)
  PROVE  /\ closures' \in Seq(Block)
         /\ Len(closures') = Len(closures) + 1
         /\ \A n \in 1..Len(closures) : closures'[n] = closures[n]
         /\ closures'[Len(closures) + 1] = b
         /\ Head1' = b
         /\ Closures' = Closures \cup {b}
<1>1. /\ closures' \in Seq(Block)
      /\ Len(closures') = Len(closures) + 1
      /\ \A n \in 1..Len(closures) : closures'[n] = closures[n]
      /\ closures'[Len(closures) + 1] = b
  OBVIOUS
<1>2. Head1' = b
  BY <1>1 DEF Head1
<1>3. Closures' = Closures \cup {b}
  BY <1>1 DEF Closures
<1> QED BY <1>1, <1>2, <1>3

\* The initial state satisfies the invariant.
LEMMA InitInv == Init => IInv
<1> SUFFICES ASSUME Init PROVE IInv
  OBVIOUS
<1> USE ConstantsAssumption
<1> DEFINE b0 == CHOOSE b \in Block : TRUE
<1>0. b0 \in Block
  OBVIOUS
<1>1. closures = <<b0>> /\ Len(closures) = 1 /\ closures[1] = b0
  BY DEF Init
<1> HIDE DEF b0
<1>2. Closures = {b0} /\ Head1 = b0
  <2>1. \A n : n \in 1..Len(closures) <=> n = 1
    BY <1>1
  <2>2. Closures = {b0}
    BY <1>1, <2>1, Zenon DEF Closures
  <2> QED BY <1>1, <2>2 DEF Head1
<1>3. FreeCell \in Cell
  BY DEF FreeCell, Cell
<1>4. TypeOK
  BY <1>0, <1>1, <1>3 DEF Init, TypeOK
<1>5. BlocksDisjoint
  <2>1. \A m, n \in 1..Len(closures) : closures[m] = closures[n] => m = n
    BY <1>1
  <2> QED BY <1>2, <2>1 DEF Init, BlocksDisjoint
<1>6. CellsInv
  BY AddrFacts DEF Init, CellsInv, FreeCell, Limit
<1>7. NoDuplicates /\ IdInv /\ StaticInv
  BY DEF Init, NoDuplicates, IdInv, StaticInv, FreeCell, Type, HNF
<1>8. MutatorInv
  BY DEF Init, MutatorInv, FreeCell
<1>9. RootsInv /\ FromInv /\ ToInv /\ LoopInv
  BY DEF Init, RootsInv, FromInv, ToInv, LoopInv
<1> QED BY <1>4, <1>5, <1>6, <1>7, <1>8, <1>9 DEF IInv
-----------------------------------------------------------------------------

\* References, null and identities are kept apart.
LEMMA RefFacts ==
  /\ Null \notin Ref /\ Null \notin Addr /\ Null \notin Static
  /\ Addr \subseteq Ref /\ Static \subseteq Ref
  /\ \A x \in Static : x \notin Addr /\ x \notin Id
  /\ Caf \subseteq Static /\ Value \subseteq Static
  /\ 1 \in Field
BY ConstantsAssumption DEF Ref, Static, Field

\* A step that leaves all variables alone preserves the invariant.
LEMMA StutterInv ==
  ASSUME IInv, UNCHANGED vars
  PROVE  IInv'
<1> USE DEF vars
<1>1. /\ Closures' = Closures /\ Head1' = Head1
      /\ \A b : Limit(b)' = Limit(b)
      /\ \A q : IdOf(q)' = IdOf(q)
      /\ \A q : IsHNF(q)' = IsHNF(q)
  BY DEF Closures, Head1, Limit, IdOf, IsHNF
<1>2. FromRef' = FromRef /\ ToRef' = ToRef /\ HeapRef' = HeapRef
  BY <1>1 DEF FromRef, ToRef, HeapRef
<1>3. \A a, f : Scanned(a, f)' = Scanned(a, f)
  BY DEF Scanned
<1>4. TypeOK'
  BY DEF IInv, TypeOK
<1>5. BlocksDisjoint' /\ CellsInv' /\ NoDuplicates' /\ IdInv' /\ StaticInv'
  BY <1>1 DEF IInv, BlocksDisjoint, CellsInv, NoDuplicates, IdInv, StaticInv
<1>6. MutatorInv' /\ RootsInv'
  BY <1>1, <1>2 DEF IInv, MutatorInv, RootsInv
<1>7. FromInv' /\ ToInv' /\ LoopInv'
  BY <1>1, <1>2, <1>3 DEF IInv, FromInv, ToInv, LoopInv
<1> QED BY <1>4, <1>5, <1>6, <1>7 DEF IInv

\* Writing a reference to the heap into a slot preserves the invariant.
LEMMA SlotInv ==
  ASSUME IInv, phase = "mutator", NEW s \in Slot, NEW x \in HeapRef \cup {Null},
         root' = [root EXCEPT ![s] = x],
         UNCHANGED <<mem, heap, caf, static_roots>>, MutatorUnchanged
  PROVE  IInv'
<1> USE DEF MutatorUnchanged, gcVars, blockVars
<1>1. Closures' = Closures /\ Head1' = Head1
  BY DEF Closures, Head1
<1>2. HeapRef' = HeapRef
  BY <1>1 DEF HeapRef
<1>3. HeapRef \subseteq Ref
  BY DEF HeapRef, Ref
<1>4. TypeOK'
  BY <1>3 DEF IInv, TypeOK
<1>5. BlocksDisjoint' /\ CellsInv' /\ NoDuplicates' /\ IdInv' /\ StaticInv'
  BY <1>1 DEF IInv, BlocksDisjoint, CellsInv, NoDuplicates, IdInv, StaticInv,
              Limit, IdOf
<1>6. MutatorInv'
  BY <1>2 DEF IInv, MutatorInv, TypeOK, IsHNF
<1>7. RootsInv' /\ FromInv' /\ ToInv' /\ LoopInv'
  BY <1>1 DEF IInv, RootsInv, FromInv, ToInv, LoopInv
<1> QED BY <1>4, <1>5, <1>6, <1>7 DEF IInv

\* Reading a field preserves the invariant.
LEMMA LoadFieldInv ==
  ASSUME IInv, NEW s \in Slot, NEW t \in Slot, NEW f \in Field,
         LoadField(s, t, f)
  PROVE  IInv'
<1>1. mem[root[t]].ptrs[f] \in HeapRef \cup {Null}
  BY DEF LoadField, IInv, MutatorInv, Type, HNF
<1> QED BY <1>1, SlotInv DEF LoadField

\* Assigning or killing a slot preserves the invariant.
LEMMA SetSlotInv ==
  ASSUME IInv, NEW s \in Slot, NEW x, SetSlot(s, x)
  PROVE  IInv'
<1>1. x \in HeapRef \cup {Null}
  BY DEF SetSlot, IInv, MutatorInv, HeapRef
<1> QED BY <1>1, SlotInv DEF SetSlot

\* Following an indirection preserves the invariant.
LEMMA FollowIndInv ==
  ASSUME IInv, NEW s \in Slot, FollowInd(s)
  PROVE  IInv'
<1>1. IndTarget(root[s]) \in HeapRef \cup {Null}
  BY RefFacts DEF FollowInd, IInv, MutatorInv, IsInd, IndTarget
<1> QED BY <1>1, SlotInv DEF FollowInd

\* The bump pointer of the newest block stays in step with the cells in use.
LEMMA AllocInv ==
  ASSUME IInv, NEW s \in Slot, NEW ty \in AllocType,
         NEW args \in [Field -> Slot \cup {Null}], Alloc(s, ty, args)
  PROVE  IInv'
<1> USE DEF MutatorUnchanged, gcVars, blockVars
<1> DEFINE a0 == <<Head1, heap + 1>>
           i0 == CHOOSE i \in FreshIds : TRUE
           p0 == [f \in Field |-> IF args[f] = Null THEN Null
                                  ELSE root[args[f]]]
           c0 == [type |-> ty, id |-> i0, ptrs |-> p0]
<1>0. /\ phase = "mutator" /\ heap < BlockSize /\ heap' = heap + 1
      /\ mem' = [mem EXCEPT ![a0] = c0]
      /\ root' = [root EXCEPT ![s] = a0]
      /\ caf' = caf /\ static_roots' = static_roots
  BY DEF Alloc, Fits
<1>1. i0 \in FreshIds
  BY DEF Alloc
<1>2. i0 \in Id /\ \A a \in Addr : mem[a].type \in Type => mem[a].id # i0
  BY <1>1 DEF FreshIds
<1> HIDE DEF i0
<1>3. Closures' = Closures /\ Head1' = Head1
  BY DEF Closures, Head1, Alloc
<1>4. Head1 \in Block /\ Head1 \in Closures
  BY HeadFacts DEF IInv
<1>5. heap \in Nat /\ heap + 1 \in 1..BlockSize
  BY <1>0, ConstantsAssumption DEF IInv, TypeOK
<1>6. a0 \in Addr /\ a0[1] = Head1 /\ a0[2] = heap + 1
  BY <1>4, <1>5, AddrFacts
<1>7. mem[a0].type = "FREE"
  BY <1>0, <1>4, <1>5, <1>6 DEF IInv, CellsInv, Limit
<1>8. ty \in Type
  BY ConstantsAssumption
<1>9. p0 \in [Field -> HeapRef \cup {Null}]
  BY <1>0 DEF IInv, MutatorInv
<1>10. HeapRef \subseteq Ref
  BY DEF HeapRef, Ref
<1>11. c0 \in Cell
  BY <1>2, <1>8, <1>9, <1>10 DEF Cell
<1>12. mem' \in [Addr -> Cell] /\ mem'[a0] = c0
       /\ \A a \in Addr : a # a0 => mem'[a] = mem[a]
  BY <1>0, <1>6, <1>11 DEF IInv, TypeOK
<1>13. c0.type = ty /\ c0.id = i0 /\ c0.ptrs = p0
  OBVIOUS
<1> HIDE DEF c0, p0, a0
<1>14. HeapRef' = HeapRef \cup {a0}
  <2>1. HeapRef' \subseteq HeapRef \cup {a0}
    BY <1>3, <1>12 DEF HeapRef
  <2>2. HeapRef \subseteq HeapRef'
    BY <1>3, <1>7, <1>12 DEF HeapRef, Type, HNF
  <2>3. a0 \in HeapRef'
    BY <1>3, <1>4, <1>6, <1>8, <1>12, <1>13 DEF HeapRef
  <2> QED BY <2>1, <2>2, <2>3
<1>15. TypeOK'
  BY <1>0, <1>5, <1>6, <1>12, AddrFacts DEF IInv, TypeOK, Alloc, Ref
<1>16. BlocksDisjoint' /\ StaticInv'
  BY <1>0, <1>3 DEF IInv, BlocksDisjoint, StaticInv, Alloc
<1>17. CellsInv'
  <2> SUFFICES ASSUME NEW a \in Addr
               PROVE  mem'[a].type = "FREE" <=> a[2] > Limit(a[1])'
    BY DEF CellsInv
  <2>1. CASE a = a0
    BY <2>1, <1>0, <1>3, <1>5, <1>6, <1>8, <1>12, <1>13
       DEF Limit, Type, HNF, Alloc
  <2>2. CASE a # a0 /\ a[1] = Head1
    <3>1. a[2] # heap + 1
      BY <2>2, <1>6, AddrFacts DEF a0
    <3>2. Limit(a[1])' = heap + 1 /\ Limit(a[1]) = heap
      BY <2>2, <1>0, <1>3 DEF Limit, Alloc
    <3> QED BY <3>1, <3>2, <2>2, <1>5, <1>12, AddrFacts DEF IInv, CellsInv
  <2>3. CASE a # a0 /\ a[1] # Head1
    BY <2>3, <1>0, <1>3, <1>12 DEF Limit, Alloc, IInv, CellsInv
  <2> QED BY <2>1, <2>2, <2>3
<1>18. NoDuplicates'
  BY <1>2, <1>12, <1>13 DEF IInv, NoDuplicates
<1>19. IdInv'
  <2>1. \A q \in Ref : q # a0 => IdOf(q)' = IdOf(q)
    BY <1>12 DEF IdOf
  <2>2. \A a \in Addr : mem[a].type # "FREE" => mem[a].ptrs[1] # a0
    BY <1>0, <1>7, RefFacts, <1>6 DEF IInv, MutatorInv, HeapRef, Type, HNF
  <2> QED BY <2>1, <2>2, <1>2, <1>8, <1>12, <1>13
             DEF IInv, IdInv, Type, HNF
<1>20. MutatorInv'
  <2>1. \A a \in Addr : mem'[a].type # "FWD"
    BY <1>0, <1>8, <1>12, <1>13 DEF IInv, MutatorInv, Type, HNF
  <2>2. \A a \in Addr : mem'[a].type = "IND" => IsHNF(mem[a].ptrs[1])'
    BY <1>0, <1>7, <1>8, <1>12, <1>13
       DEF IInv, MutatorInv, Type, HNF, IsHNF
  <2>3. \A a \in Addr, f \in Field :
          mem'[a].type # "FREE" => mem'[a].ptrs[f] \in HeapRef' \cup {Null}
    BY <1>0, <1>9, <1>12, <1>13, <1>14 DEF IInv, MutatorInv
  <2>4. /\ \A t \in Slot : root'[t] \in HeapRef' \cup {Null}
        /\ \A c \in Caf : caf'[c] \in HeapRef' \cup {Null}
    BY <1>0, <1>14 DEF IInv, MutatorInv, TypeOK
  <2> QED BY <1>0, <2>1, <2>2, <2>3, <2>4 DEF IInv, MutatorInv, Alloc
<1>21. RootsInv' /\ FromInv' /\ ToInv' /\ LoopInv'
  BY <1>0, <1>3 DEF IInv, RootsInv, FromInv, ToInv, LoopInv, Alloc
<1> QED BY <1>15, <1>16, <1>17, <1>18, <1>19, <1>20, <1>21 DEF IInv

\* Overwriting a pointer field preserves the invariant.
LEMMA InitFieldInv ==
  ASSUME IInv, NEW s \in Slot, NEW t \in Slot, NEW f \in Field,
         InitField(s, t, f)
  PROVE  IInv'
<1> USE DEF MutatorUnchanged, gcVars, blockVars
<1> DEFINE a0 == root[s]
           v0 == root[t]
           c0 == [mem[a0] EXCEPT !.ptrs[f] = v0]
<1>0. /\ phase = "mutator" /\ a0 \in Addr /\ mem[a0].type \in Type /\ v0 # Null
      /\ mem' = [mem EXCEPT ![a0].ptrs[f] = v0]
      /\ UNCHANGED <<root, heap, caf, static_roots>>
  BY DEF InitField
<1>1. mem \in [Addr -> Cell] /\ mem[a0] \in Cell
  BY <1>0 DEF IInv, TypeOK
<1>2. v0 \in HeapRef /\ v0 \in Ref
  BY <1>0 DEF IInv, MutatorInv, HeapRef, Ref
<1>3. mem' = [mem EXCEPT ![a0] = c0]
  BY <1>0, <1>1
<1>4. /\ c0 \in Cell /\ c0.type = mem[a0].type /\ c0.id = mem[a0].id
      /\ \A g \in Field : c0.ptrs[g] = IF g = f THEN v0 ELSE mem[a0].ptrs[g]
  BY <1>1, <1>2 DEF Cell
<1> HIDE DEF c0
<1>5. mem' \in [Addr -> Cell] /\ mem'[a0] = c0
      /\ \A a \in Addr : a # a0 => mem'[a] = mem[a]
  BY <1>0, <1>1, <1>3, <1>4
<1>6. \A a \in Addr : mem'[a].type = mem[a].type /\ mem'[a].id = mem[a].id
  BY <1>4, <1>5
<1>7. /\ Closures' = Closures /\ Head1' = Head1
      /\ \A b : Limit(b)' = Limit(b)
      /\ \A q : IdOf(q)' = IdOf(q)
      /\ \A q : IsHNF(q)' <=> IsHNF(q)
  BY <1>0, <1>6 DEF Closures, Head1, Limit, IdOf, IsHNF, InitField
<1>8. HeapRef' = HeapRef
  BY <1>6, <1>7 DEF HeapRef
<1>9. TypeOK'
  BY <1>0, <1>5 DEF IInv, TypeOK, InitField
<1>10. BlocksDisjoint' /\ CellsInv' /\ NoDuplicates' /\ StaticInv'
  BY <1>0, <1>6, <1>7
     DEF IInv, BlocksDisjoint, CellsInv, NoDuplicates, StaticInv, InitField
<1>11. IdInv'
  BY <1>0, <1>5, <1>6, <1>7 DEF IInv, IdInv, Type, HNF
<1>12. MutatorInv'
  <2>1. \A a \in Addr : mem'[a].type # "FWD"
    BY <1>0, <1>6 DEF IInv, MutatorInv
  <2>2. \A a \in Addr : mem'[a].type = "IND" => IsHNF(mem[a].ptrs[1])'
    BY <1>0, <1>5, <1>6, <1>7 DEF IInv, MutatorInv, Type, HNF, IsHNF
  <2>3. \A a \in Addr, g \in Field :
          mem'[a].type # "FREE" => mem'[a].ptrs[g] \in HeapRef \cup {Null}
    BY <1>0, <1>2, <1>4, <1>5, <1>6 DEF IInv, MutatorInv
  <2> QED BY <1>0, <1>8, <2>1, <2>2, <2>3 DEF IInv, MutatorInv, InitField
<1>13. RootsInv' /\ FromInv' /\ ToInv' /\ LoopInv'
  BY <1>0, <1>7 DEF IInv, RootsInv, FromInv, ToInv, LoopInv, InitField
<1> QED BY <1>9, <1>10, <1>11, <1>12, <1>13 DEF IInv

\* Updating a thunk or a CAF preserves the invariant.
LEMMA UpdateInv ==
  ASSUME IInv, NEW s \in Slot, NEW t \in Slot, Update(s, t)
  PROVE  IInv'
<1> USE DEF MutatorUnchanged, gcVars, blockVars
<1> DEFINE t0 == root[s]
           v0 == root[t]
           p0 == [f \in Field |-> IF f = 1 THEN v0 ELSE Null]
           c0 == [type |-> "IND", id |-> IdOf(v0), ptrs |-> p0]
<1>0. phase = "mutator" /\ IsHNF(v0) /\ root' = root /\ heap' = heap
  BY DEF Update
<1>1. Closures' = Closures /\ Head1' = Head1
  BY DEF Closures, Head1, Update
<1>2. \A b : Limit(b)' = Limit(b)
  BY <1>0, <1>1 DEF Limit, Update
<1>3. v0 \in HeapRef /\ v0 \in Ref
  BY <1>0, RefFacts DEF IInv, MutatorInv, IsHNF, HeapRef, Ref, Static
<1>4. CASE /\ t0 \in Addr /\ mem[t0].type = "THUNK"
           /\ mem' = [mem EXCEPT ![t0] = c0]
           /\ UNCHANGED <<caf, static_roots>>
  <2>1. v0 # t0
    BY <1>0, <1>4, RefFacts DEF IsHNF, HNF
  <2>2. IdOf(v0) \in Id \cup Static
    BY <1>0, <1>3, RefFacts DEF IdOf, IInv, IdInv, IsHNF, Type, Ref
  <2>3. c0 \in Cell
    BY <1>3, <2>2 DEF Cell
  <2>4. mem' \in [Addr -> Cell] /\ mem'[t0] = c0
        /\ \A a \in Addr : a # t0 => mem'[a] = mem[a]
    BY <1>4, <2>3 DEF IInv, TypeOK
  <2>5. c0.type = "IND" /\ c0.id = IdOf(v0) /\ c0.ptrs = p0
        /\ p0[1] = v0 /\ \A f \in Field : p0[f] \in {v0, Null}
    BY RefFacts
  <2> HIDE DEF c0, p0
  <2>6. HeapRef' = HeapRef
    <3>1. \A a \in Addr : mem'[a].type \in Type \cup {"IND"}
                            <=> mem[a].type \in Type \cup {"IND"}
      BY <1>4, <2>4, <2>5 DEF Type
    <3> QED BY <3>1, <1>1 DEF HeapRef
  <2>7. \A q : IsHNF(q) => q # t0 /\ IdOf(q)' = IdOf(q) /\ IsHNF(q)'
    BY <1>4, <2>4, RefFacts DEF IsHNF, IdOf, HNF
  <2>8. TypeOK'
    BY <2>4, <1>4 DEF IInv, TypeOK, Update
  <2>9. BlocksDisjoint' /\ StaticInv'
    BY <1>0, <1>1, <1>4 DEF IInv, BlocksDisjoint, StaticInv, Update
  <2>10. CellsInv'
    BY <1>2, <1>4, <2>4, <2>5 DEF IInv, CellsInv
  <2>11. NoDuplicates'
    BY <2>4, <2>5 DEF IInv, NoDuplicates, Type, HNF
  <2>12. IdInv'
    BY <1>0, <1>3, <2>4, <2>5, <2>7 DEF IInv, IdInv, MutatorInv, Type, HNF
  <2>13. MutatorInv'
    <3>1. \A a \in Addr : mem'[a].type # "FWD"
      BY <1>0, <2>4, <2>5 DEF IInv, MutatorInv
    <3>2. \A a \in Addr : mem'[a].type = "IND" => IsHNF(mem[a].ptrs[1])'
      BY <1>0, <2>4, <2>5, <2>7 DEF IInv, MutatorInv, IsHNF
    <3>3. \A a \in Addr, f \in Field :
            mem'[a].type # "FREE" => mem'[a].ptrs[f] \in HeapRef' \cup {Null}
      BY <1>0, <1>3, <2>4, <2>5, <2>6 DEF IInv, MutatorInv
    <3>4. /\ \A r \in Slot : root'[r] \in HeapRef' \cup {Null}
          /\ \A c \in Caf : caf'[c] \in HeapRef' \cup {Null}
      BY <1>0, <1>4, <2>6 DEF IInv, MutatorInv
    <3> QED BY <1>0, <3>1, <3>2, <3>3, <3>4 DEF IInv, MutatorInv, Update
  <2>14. RootsInv' /\ FromInv' /\ ToInv' /\ LoopInv'
    BY <1>0, <1>1 DEF IInv, RootsInv, FromInv, ToInv, LoopInv, Update
  <2> QED BY <2>8, <2>9, <2>10, <2>11, <2>12, <2>13, <2>14 DEF IInv
<1>5. CASE /\ t0 \in Caf /\ caf[t0] = Null
           /\ caf' = [caf EXCEPT ![t0] = v0]
           /\ static_roots' = static_roots \cup {t0}
           /\ UNCHANGED mem
  <2>1. HeapRef' = HeapRef
    BY <1>1, <1>5 DEF HeapRef
  <2>2. TypeOK'
    BY <1>0, <1>3, <1>5 DEF IInv, TypeOK, Update
  <2>3. BlocksDisjoint' /\ CellsInv' /\ NoDuplicates' /\ IdInv'
    BY <1>0, <1>1, <1>2, <1>5
       DEF IInv, BlocksDisjoint, CellsInv, NoDuplicates, IdInv, IdOf, Update
  <2>4. StaticInv'
    BY <1>3, <1>5, RefFacts DEF IInv, StaticInv, TypeOK
  <2>5. MutatorInv'
    BY <1>0, <1>3, <1>5, <2>1
       DEF IInv, MutatorInv, TypeOK, IsHNF, Update
  <2>6. RootsInv' /\ FromInv' /\ ToInv' /\ LoopInv'
    BY <1>0, <1>1 DEF IInv, RootsInv, FromInv, ToInv, LoopInv, Update
  <2> QED BY <2>2, <2>3, <2>4, <2>5, <2>6 DEF IInv
<1> QED BY <1>4, <1>5 DEF Update, Link

\* Taking another block preserves the invariant.
LEMMA BumpAllocatorFullInv ==
  ASSUME IInv, BumpAllocatorFull
  PROVE  IInv'
<1> USE DEF gcVars, rootVars
<1> DEFINE b0 == grabFreeBlock
<1>0. /\ phase = "mutator" /\ phase' = "mutator" /\ heap > 0
      /\ Grabbable # {} /\ closures' = Append(closures, b0)
      /\ free_list' = free_list \ {b0} /\ heap' = free[b0]
      /\ free' = [free EXCEPT ![Head1] = heap]
      /\ nextGC > 1 /\ nextGC' = nextGC - 1
      /\ mem' = mem /\ old_heap' = old_heap /\ scavenged' = scavenged
      /\ root' = root /\ caf' = caf /\ static_roots' = static_roots
      /\ todo' = todo /\ k' = k /\ pos' = pos /\ fld' = fld
      /\ num_gcs' = num_gcs
  BY DEF BumpAllocatorFull, Unlinked
<1>1. /\ b0 \in Block /\ b0 \notin Closures /\ b0 \notin old_heap
      /\ free[b0] = 0
  BY <1>0, GrabFresh DEF IInv
<1> HIDE DEF b0
<1>2. /\ Len(closures) \in Nat \ {0}
      /\ Head1 \in Block /\ Head1 \in Closures /\ Closures \subseteq Block
  BY HeadFacts DEF IInv
<1>3. /\ closures' \in Seq(Block) /\ Len(closures') = Len(closures) + 1
      /\ \A n \in 1..Len(closures) : closures'[n] = closures[n]
      /\ closures'[Len(closures) + 1] = b0
      /\ Head1' = b0 /\ Closures' = Closures \cup {b0}
  BY <1>0, <1>1, AppendFacts DEF IInv, TypeOK
<1>4. /\ free' \in [Block -> 0..BlockSize]
      /\ \A b \in Block : b # Head1 => free'[b] = free[b]
      /\ free'[Head1] = heap
  BY <1>0, <1>2, ConstantsAssumption DEF IInv, TypeOK
<1>5. TypeOK'
  BY <1>0, <1>1, <1>2, <1>3, <1>4, ConstantsAssumption DEF IInv, TypeOK
<1>6. BlocksDisjoint'
  <2>1. \A m, n \in 1..Len(closures') : closures'[m] = closures'[n] => m = n
    BY <1>1, <1>2, <1>3 DEF IInv, BlocksDisjoint, Closures
  <2> QED BY <1>0, <1>1, <1>2, <1>3, <1>4, <2>1 DEF IInv, BlocksDisjoint
<1>7. CellsInv'
  <2>1. \A b \in Block : Limit(b)' = Limit(b)
    BY <1>0, <1>1, <1>2, <1>3, <1>4 DEF Limit
  <2> QED BY <1>0, <2>1, AddrFacts DEF IInv, CellsInv
<1>8. NoDuplicates' /\ IdInv' /\ StaticInv'
  BY <1>0 DEF IInv, NoDuplicates, IdInv, StaticInv, IdOf
<1>9. HeapRef \subseteq HeapRef'
  BY <1>0, <1>3 DEF HeapRef
<1>10. MutatorInv'
  <2>1. nextGC' > 0
    BY <1>0 DEF IInv, TypeOK
  <2> QED BY <1>0, <1>9, <2>1 DEF IInv, MutatorInv, IsHNF
<1>11. RootsInv' /\ FromInv' /\ ToInv'
  BY <1>0 DEF RootsInv, FromInv, ToInv
<1>12. LoopInv'
  BY <1>0 DEF IInv, MutatorInv, LoopInv
<1> QED BY <1>5, <1>6, <1>7, <1>8, <1>10, <1>11, <1>12 DEF IInv

\* Starting a collection establishes the collector's invariants.
LEMMA StartGCInv ==
  ASSUME IInv, StartGC
  PROVE  IInv'
<1> USE DEF rootVars, cursorVars
<1> DEFINE b0 == grabFreeBlock
<1>0. /\ phase = "mutator" /\ phase' = "roots" /\ heap > 0
      /\ Grabbable # {} /\ closures' = <<b0>>
      /\ free_list' = free_list \ {b0} /\ heap' = heap
      /\ free' = [free EXCEPT ![Head1] = heap]
      /\ nextGC' = 0 /\ num_gcs' = num_gcs + 1
      /\ mem' = mem /\ old_heap' = Closures /\ scavenged' = scavenged
      /\ root' = root /\ caf' = caf /\ static_roots' = static_roots
      /\ todo' = {s \in Slot : root[s] # Null}
      /\ k' = k /\ pos' = pos /\ fld' = fld
  BY DEF StartGC, Unlinked
<1>1. /\ b0 \in Block /\ b0 \notin Closures /\ b0 \notin old_heap
      /\ free[b0] = 0
  BY <1>0, GrabFresh DEF IInv
<1> HIDE DEF b0
<1>2. /\ Len(closures) \in Nat \ {0}
      /\ Head1 \in Block /\ Head1 \in Closures /\ Closures \subseteq Block
  BY HeadFacts DEF IInv
<1>3. closures' \in Seq(Block) /\ Len(closures') = 1 /\ closures'[1] = b0
  BY <1>0, <1>1
<1>4. Closures' = {b0} /\ Head1' = b0
  <2>1. \A n : n \in 1..Len(closures') <=> n = 1
    BY <1>3
  <2>2. Closures' = {b0}
    BY <1>3, <2>1, Zenon DEF Closures
  <2> QED BY <1>3, <2>2 DEF Head1
<1>5. /\ free' \in [Block -> 0..BlockSize]
      /\ \A b \in Block : b # Head1 => free'[b] = free[b]
      /\ free'[Head1] = heap
  BY <1>0, <1>2, ConstantsAssumption DEF IInv, TypeOK
<1>6. TypeOK'
  BY <1>0, <1>1, <1>2, <1>3, <1>5, ConstantsAssumption DEF IInv, TypeOK
<1>7. old_heap = {} /\ scavenged = {}
  BY <1>0 DEF IInv, MutatorInv
<1>8. BlocksDisjoint'
  <2>1. \A m, n \in 1..Len(closures') : closures'[m] = closures'[n] => m = n
    BY <1>3
  <2> QED BY <1>0, <1>1, <1>2, <1>4, <1>5, <1>7, <2>1
             DEF IInv, BlocksDisjoint
<1>9. \A b \in Block : Limit(b)' = Limit(b)
  BY <1>0, <1>1, <1>2, <1>4, <1>5 DEF Limit
<1>10. CellsInv'
  BY <1>0, <1>9, AddrFacts DEF IInv, CellsInv
<1>11. NoDuplicates' /\ IdInv' /\ StaticInv'
  BY <1>0 DEF IInv, NoDuplicates, IdInv, StaticInv, IdOf
<1>12. MutatorInv'
  BY <1>0 DEF MutatorInv
<1>13. HeapRef \subseteq FromRef'
  BY <1>0 DEF HeapRef, FromRef, Type, HNF
<1>14. RootsInv'
  BY <1>0, <1>13, RefFacts DEF IInv, MutatorInv, RootsInv, TypeOK
<1>15. \A a \in Addr : a[1] = b0 => mem[a].type = "FREE"
  BY <1>0, <1>1, <1>2, AddrFacts DEF IInv, CellsInv, Limit
<1>16. FromInv'
  <2>1. \A a \in Addr : mem[a].type = "IND" => mem[a].ptrs[1] \in Ref
    BY DEF IInv, IdInv
  <2> QED BY <1>0, <1>13, <2>1, RefFacts
             DEF IInv, MutatorInv, FromInv, Type, HNF
<1>17. ToInv'
  BY <1>0, <1>4, <1>15 DEF ToInv
<1>18. LoopInv'
  BY <1>0, <1>7 DEF LoopInv
<1> QED BY <1>6, <1>8, <1>10, <1>11, <1>12, <1>14, <1>16, <1>17, <1>18
           DEF IInv
-----------------------------------------------------------------------------
(***************************************************************************)
(* Evacuation.  NoCopy and Copy are the two outcomes of Evacuate(q, new).  *)
(***************************************************************************)

NoCopy(q, new) ==
  /\ free' = free /\ closures' = closures /\ free_list' = free_list
  /\ EvacMem(q, new) = mem
  /\ new \in IF Pending(q) THEN FromRef ELSE ToRef
  /\ IdOf(new) = IdOf(q)

\* The blocks before and after a copy to address new.
CopyBlocks(new) ==
  /\ closures' \in Seq(Block) /\ Len(closures') \in Nat
  /\ Len(closures') >= Len(closures)
  /\ \A n \in 1..Len(closures) : closures'[n] = closures[n]
  /\ Closures' = Closures \cup {new[1]}
  /\ \A m, n \in 1..Len(closures') : closures'[m] = closures'[n] => m = n
  /\ \/ closures' = closures /\ new[1] = Head1
     \/ /\ Len(closures') = Len(closures) + 1
        /\ closures'[Len(closures) + 1] = new[1]
        /\ new[1] \notin Closures
  /\ free' \in [Block -> 0..BlockSize]
  /\ free'[new[1]] = free[new[1]] + 1
  /\ \A b \in Block : b # new[1] => free'[b] = free[b]
  /\ free_list' = free_list \ {new[1]}

Copy(q, new) ==
  /\ q \in Addr /\ q[1] \in old_heap /\ mem[q].type \in Type /\ ~ Pending(q)
  /\ new \in Addr /\ new[1] \notin old_heap /\ new # q
  /\ new[2] = free[new[1]] + 1
  /\ mem[new].type = "FREE"
  /\ CopyBlocks(new)

\* An evacuation copies the closure, or changes no memory at all.
LEMMA EvacCases ==
  ASSUME IInv, phase # "mutator", NEW q \in FromRef, NEW new, Evacuate(q, new)
  PROVE  NoCopy(q, new) \/ Copy(q, new)
<1>1. CASE /\ q \in Static /\ new = q
           /\ UNCHANGED <<free, closures, free_list>>
  BY <1>1, RefFacts DEF NoCopy, EvacMem, Pending, ToRef, FromRef, IdOf
<1>2. CASE /\ q \in Addr /\ mem[q].type \in {"FWD", "IND"}
           /\ new = mem[q].ptrs[1]
           /\ UNCHANGED <<free, closures, free_list>>
  <2>1. q[1] \in old_heap
    BY <1>2, RefFacts DEF FromRef
  <2>2. EvacMem(q, new) = mem
    BY <1>2 DEF EvacMem, Type, HNF
  <2>3. new \in IF Pending(q) THEN FromRef ELSE ToRef
    BY <1>2, <2>1 DEF IInv, FromInv, Pending
  <2>4. IdOf(new) = IdOf(q)
    BY <1>2 DEF IInv, IdInv, IdOf
  <2> QED BY <1>2, <2>2, <2>3, <2>4 DEF NoCopy
<1>3. CASE q \in Addr /\ mem[q].type \in Type /\ CopyTo(new)
  <2>0. q[1] \in old_heap /\ ~ Pending(q)
    BY <1>3, RefFacts DEF FromRef, Pending, Type, HNF
  <2>1. /\ Len(closures) \in Nat \ {0}
        /\ Head1 \in Block /\ Head1 \in Closures /\ Closures \subseteq Block
    BY HeadFacts DEF IInv
  <2>2. /\ closures \in Seq(Block)
        /\ \A m, n \in 1..Len(closures) : closures[m] = closures[n] => m = n
        /\ Closures \cap old_heap = {} /\ Closures \cap free_list = {}
        /\ free \in [Block -> 0..BlockSize]
        /\ BlockSize \in Nat \ {0}
    BY ConstantsAssumption DEF IInv, TypeOK, BlocksDisjoint
  <2>3. ASSUME NEW b \in Block, new = <<b, free[b] + 1>>, free[b] < BlockSize,
               b \notin old_heap,
               free' = [free EXCEPT ![new[1]] = new[2]]
        PROVE  /\ new \in Addr /\ new[1] = b /\ new[2] = free[b] + 1
               /\ new[1] \notin old_heap /\ new # q
               /\ mem[new].type = "FREE"
               /\ free' \in [Block -> 0..BlockSize]
               /\ free'[b] = free[b] + 1
               /\ \A c \in Block : c # b => free'[c] = free[c]
    <3>1. free[b] \in Nat /\ free[b] + 1 \in 1..BlockSize
      BY <2>2, <2>3
    <3>2. new \in Addr /\ new[1] = b /\ new[2] = free[b] + 1
      BY <2>3, <3>1, AddrFacts
    <3>3. new # q
      BY <2>0, <2>3, <3>2
    <3>4. mem[new].type = "FREE"
      BY <3>1, <3>2 DEF IInv, CellsInv, Limit
    <3> QED BY <2>2, <2>3, <3>1, <3>2, <3>3, <3>4
  <2>4. CASE /\ free[Head1] < BlockSize /\ new = <<Head1, free[Head1] + 1>>
             /\ UNCHANGED <<closures, free_list>>
    <3>1. Head1 \notin old_heap /\ Head1 \notin free_list
      BY <2>1, <2>2
    <3>2. Closures' = Closures
      BY <2>4 DEF Closures
    <3>3. free' = [free EXCEPT ![new[1]] = new[2]]
      BY <1>3 DEF CopyTo
    <3>4. /\ new \in Addr /\ new[1] = Head1 /\ new[2] = free[Head1] + 1
          /\ new[1] \notin old_heap /\ new # q
          /\ mem[new].type = "FREE"
          /\ free' \in [Block -> 0..BlockSize]
          /\ free'[Head1] = free[Head1] + 1
          /\ \A c \in Block : c # Head1 => free'[c] = free[c]
      BY <2>1, <2>3, <2>4, <3>1, <3>3
    <3>5. CopyBlocks(new)
      <4>1. free_list' = free_list \ {new[1]}
        BY <2>4, <3>1, <3>4
      <4>2. Closures' = Closures \cup {new[1]}
        BY <2>1, <3>2, <3>4
      <4> QED BY <2>1, <2>2, <2>4, <3>4, <4>1, <4>2 DEF CopyBlocks
    <3> QED BY <1>3, <2>0, <3>4, <3>5 DEF Copy
  <2>5. CASE /\ Grabbable # {}
             /\ new = <<grabFreeBlock, free[grabFreeBlock] + 1>>
             /\ closures' = Append(closures, grabFreeBlock)
             /\ free_list' = free_list \ {grabFreeBlock}
    <3>1. /\ grabFreeBlock \in Block /\ grabFreeBlock \notin Closures
          /\ grabFreeBlock \notin old_heap /\ free[grabFreeBlock] = 0
      BY <2>5, GrabFresh DEF IInv
    <3>2. /\ closures' \in Seq(Block) /\ Len(closures') = Len(closures) + 1
          /\ \A n \in 1..Len(closures) : closures'[n] = closures[n]
          /\ closures'[Len(closures) + 1] = grabFreeBlock
          /\ Closures' = Closures \cup {grabFreeBlock}
      BY <2>2, <2>5, <3>1, AppendFacts
    <3>3. \A m, n \in 1..Len(closures') : closures'[m] = closures'[n] => m = n
      <4>1. \A n \in 1..Len(closures) : closures[n] # grabFreeBlock
        BY <3>1 DEF Closures
      <4>2. \A n \in 1..Len(closures') :
              n \in 1..Len(closures) \/ n = Len(closures) + 1
        BY <2>1, <3>2
      <4> QED BY <2>2, <3>2, <4>1, <4>2, Zenon
    <3>4. free' = [free EXCEPT ![new[1]] = new[2]]
      BY <1>3 DEF CopyTo
    <3>5. free[grabFreeBlock] < BlockSize
      BY <2>2, <3>1
    <3>6. /\ new \in Addr /\ new[1] = grabFreeBlock
          /\ new[2] = free[grabFreeBlock] + 1
          /\ new[1] \notin old_heap /\ new # q
          /\ mem[new].type = "FREE"
          /\ free' \in [Block -> 0..BlockSize]
          /\ free'[grabFreeBlock] = free[grabFreeBlock] + 1
          /\ \A c \in Block : c # grabFreeBlock => free'[c] = free[c]
      BY <2>3, <2>5, <3>1, <3>4, <3>5
    <3>7. CopyBlocks(new)
      BY <2>1, <2>5, <3>1, <3>2, <3>3, <3>6 DEF CopyBlocks
    <3> QED BY <1>3, <2>0, <3>6, <3>7 DEF Copy
  <2> QED BY <1>3, <2>4, <2>5 DEF CopyTo, Unlinked
<1> QED BY <1>1, <1>2, <1>3 DEF Evacuate

\* The memory after a copy, cell by cell.
LEMMA CopyMem ==
  ASSUME IInv, NEW q, NEW new, Copy(q, new)
  PROVE  /\ EvacMem(q, new) \in [Addr -> Cell]
         /\ EvacMem(q, new)[new] = mem[q]
         /\ EvacMem(q, new)[q].type = "FWD"
         /\ EvacMem(q, new)[q].id = mem[q].id
         /\ EvacMem(q, new)[q].ptrs[1] = new
         /\ \A a \in Addr : a # q /\ a # new => EvacMem(q, new)[a] = mem[a]
<1> DEFINE p0 == [f \in Field |-> IF f = 1 THEN new ELSE Null]
           c0 == [type |-> "FWD", id |-> mem[q].id, ptrs |-> p0]
<1>1. /\ q \in Addr /\ new \in Addr /\ new # q /\ mem[q].type \in Type
      /\ mem \in [Addr -> Cell]
  BY DEF Copy, IInv, TypeOK
<1>2. c0 \in Cell /\ mem[q] \in Cell
  BY <1>1, RefFacts DEF Cell
<1>3. c0.type = "FWD" /\ c0.id = mem[q].id /\ c0.ptrs = p0 /\ p0[1] = new
  BY RefFacts
<1>4. EvacMem(q, new) = [mem EXCEPT ![new] = mem[q], ![q] = c0]
  BY <1>1 DEF EvacMem
<1> HIDE DEF c0, p0
<1> QED BY <1>1, <1>2, <1>3, <1>4

\* The closure being scavenged is a copy.
LEMMA CurrentFacts ==
  ASSUME IInv, phase = "scavenge", pos <= free[closures[k]]
  PROVE  /\ Current \in Addr /\ Current[1] = closures[k] /\ Current[2] = pos
         /\ closures[k] \in Closures /\ closures[k] \in Block
         /\ mem[Current].type \in Type
<1>1. k \in 1..Len(closures) /\ pos > 0 /\ pos \in Nat
      /\ closures \in Seq(Block) /\ free \in [Block -> 0..BlockSize]
  BY DEF IInv, LoopInv, TypeOK
<1>2. closures[k] \in Closures /\ closures[k] \in Block
  BY <1>1 DEF Closures
<1>3. pos \in 1..BlockSize
  BY <1>1, <1>2, ConstantsAssumption
<1>4. Current \in Addr /\ Current[1] = closures[k] /\ Current[2] = pos
  BY <1>2, <1>3, AddrFacts DEF Current
<1>5. mem[Current].type # "FREE"
  BY <1>1, <1>2, <1>3, <1>4 DEF IInv, CellsInv, Limit
<1> QED BY <1>2, <1>4, <1>5 DEF IInv, ToInv

\* The payload word that scavengeBlock writes.
Written(a, f) == phase = "scavenge" /\ a = Current /\ f = fld

\* What an evacuation and the write of *p preserve, whatever p is.
LEMMA EvacStep ==
  ASSUME IInv, phase \in {"roots", "static", "scavenge"}, phase' = phase,
         NEW q \in FromRef, NEW new, Evacuate(q, new),
         phase = "scavenge" => pos <= free[closures[k]],
         old_heap' = old_heap, scavenged' = scavenged,
         mem' \in [Addr -> Cell],
         \A a \in Addr :
           /\ mem'[a].type = EvacMem(q, new)[a].type
           /\ mem'[a].id = EvacMem(q, new)[a].id
           /\ \A f \in Field :
                mem'[a].ptrs[f] = IF Written(a, f) THEN new
                                  ELSE EvacMem(q, new)[a].ptrs[f]
  PROVE  /\ closures' \in Seq(Block) /\ Len(closures') > 0
         /\ free' \in [Block -> 0..BlockSize]
         /\ free_list' \in SUBSET Block
         /\ BlocksDisjoint' /\ CellsInv' /\ NoDuplicates' /\ IdInv' /\ FromInv'
         /\ FromRef' = FromRef /\ ToRef \subseteq ToRef'
         /\ new \in IF Pending(q) THEN FromRef ELSE ToRef'
         /\ new \in Ref
         /\ IdOf(new)' = IdOf(q)
         /\ \A x \in FromRef \cup ToRef \cup {Null} : IdOf(x)' = IdOf(x)
         /\ \A a \in Addr : a[1] \in Closures' /\ mem'[a].type # "FREE" =>
              /\ mem'[a].type \in Type
              /\ \A f \in Field : ~ Written(a, f) =>
                   mem'[a].ptrs[f] \in IF Scanned(a, f) THEN ToRef' \cup {Null}
                                       ELSE FromRef \cup {Null}
<1>1. CASE NoCopy(q, new)
  <2>1. /\ free' = free /\ closures' = closures /\ free_list' = free_list
        /\ new \in IF Pending(q) THEN FromRef ELSE ToRef
        /\ IdOf(new) = IdOf(q)
        /\ \A a \in Addr :
             /\ mem'[a].type = mem[a].type /\ mem'[a].id = mem[a].id
             /\ \A f \in Field : ~ Written(a, f) =>
                                   mem'[a].ptrs[f] = mem[a].ptrs[f]
    BY <1>1 DEF NoCopy
  <2>2. Closures' = Closures /\ Head1' = Head1 /\ \A b : Limit(b)' = Limit(b)
    BY <2>1 DEF Closures, Head1, Limit
  <2>3. FromRef' = FromRef /\ ToRef' = ToRef
    BY <2>1, <2>2 DEF FromRef, ToRef
  <2>4. \A x \in Ref \cup {Null} : IdOf(x)' = IdOf(x)
    BY <2>1 DEF IdOf
  <2>5. \A a \in Addr, f \in Field :
          mem[a].type \notin Type => mem'[a].ptrs[f] = mem[a].ptrs[f]
    BY <2>1, CurrentFacts DEF Written
  <2>6. \A a \in Addr, f \in Field :
          a[1] \in old_heap => mem'[a].ptrs[f] = mem[a].ptrs[f]
    BY <2>1, CurrentFacts DEF Written, IInv, BlocksDisjoint
  <2>7. BlocksDisjoint' /\ CellsInv' /\ NoDuplicates'
    BY <2>1, <2>2 DEF IInv, BlocksDisjoint, CellsInv, NoDuplicates
  <2>8. IdInv'
    BY <2>1, <2>4, <2>5, RefFacts DEF IInv, IdInv, Type, HNF
  <2>9. FromInv'
    BY <2>1, <2>3, <2>6, RefFacts DEF IInv, FromInv
  <2>10. new \in Ref /\ FromRef \cup ToRef \subseteq Ref
    BY <2>1 DEF FromRef, ToRef, Ref
  <2>11. \A a \in Addr : a[1] \in Closures' /\ mem'[a].type # "FREE" =>
              /\ mem'[a].type \in Type
              /\ \A f \in Field : ~ Written(a, f) =>
                   mem'[a].ptrs[f] \in IF Scanned(a, f) THEN ToRef' \cup {Null}
                                       ELSE FromRef \cup {Null}
    BY <2>1, <2>2, <2>3 DEF IInv, ToInv
  <2> QED BY <2>1, <2>3, <2>4, <2>7, <2>8, <2>9, <2>10, <2>11
             DEF IInv, TypeOK
<1>2. CASE Copy(q, new)
  <2>1. /\ q \in Addr /\ q[1] \in old_heap /\ mem[q].type \in Type
        /\ ~ Pending(q)
        /\ new \in Addr /\ new[1] \notin old_heap /\ new # q
        /\ new[1] \in Block /\ new[2] \in 1..BlockSize
        /\ new[2] = free[new[1]] + 1 /\ mem[new].type = "FREE"
        /\ free[new[1]] \in Nat
    BY <1>2, AddrFacts DEF Copy, IInv, TypeOK
  <2>2. CopyBlocks(new)
    BY <1>2 DEF Copy
  <2>3. /\ closures' \in Seq(Block) /\ Len(closures') > 0
        /\ free' \in [Block -> 0..BlockSize]
        /\ free_list' \in SUBSET Block
    <3>1. Len(closures) \in Nat \ {0} /\ free_list \in SUBSET Block
      BY HeadFacts DEF IInv, TypeOK
    <3>2. closures' \in Seq(Block) /\ free' \in [Block -> 0..BlockSize]
          /\ Len(closures') \in Nat /\ Len(closures') >= Len(closures)
          /\ free_list' = free_list \ {new[1]}
      BY <2>2 DEF CopyBlocks
    <3>3. Len(closures') > 0
      BY <3>1, <3>2
    <3>4. free_list' \in SUBSET Block
      BY <3>1, <3>2
    <3> QED BY <3>2, <3>3, <3>4
  <2>4. \/ Current \in Addr /\ Current # q /\ Current # new
        \/ phase # "scavenge"
    BY <2>1, CurrentFacts DEF IInv, BlocksDisjoint, Type, HNF
  <2>5. /\ mem'[new].type = mem[q].type /\ mem'[new].id = mem[q].id
        /\ \A f \in Field : mem'[new].ptrs[f] = mem[q].ptrs[f]
    BY <1>2, <2>1, <2>4, CopyMem DEF Written
  <2>6. /\ mem'[q].type = "FWD" /\ mem'[q].id = mem[q].id
        /\ mem'[q].ptrs[1] = new
    BY <1>2, <2>1, <2>4, CopyMem, RefFacts DEF Written
  <2>7. \A a \in Addr : a # q /\ a # new =>
          /\ mem'[a].type = mem[a].type /\ mem'[a].id = mem[a].id
          /\ \A f \in Field : ~ Written(a, f) =>
                                mem'[a].ptrs[f] = mem[a].ptrs[f]
    BY <1>2, CopyMem
  <2>8. Closures' = Closures \cup {new[1]}
    BY <2>2 DEF CopyBlocks
  <2>9. FromRef' = FromRef
    BY <2>1, <2>6, <2>7 DEF FromRef, Type, HNF
  <2>10. ToRef' = ToRef \cup {new}
    <3>1. ToRef' \subseteq ToRef \cup {new}
      <4> SUFFICES ASSUME NEW a \in Addr, a[1] \in Closures',
                          mem'[a].type \in Type, a # new
                   PROVE  a \in ToRef
        BY DEF ToRef
      <4>1. a # q
        BY <2>6 DEF Type, HNF
      <4>2. mem[a].type \in Type
        BY <4>1, <2>7
      <4>3. CASE a[1] \in Closures
        BY <4>2, <4>3 DEF ToRef
      <4>4. CASE a[1] = new[1] /\ a[1] \notin Closures
        <5>1. free[a[1]] = 0
          BY <4>4, <2>1 DEF IInv, BlocksDisjoint
        <5>2. mem[a].type = "FREE"
          BY <5>1, AddrFacts DEF IInv, CellsInv, Limit
        <5> QED BY <5>2, <4>2 DEF Type, HNF
      <4> QED BY <4>3, <4>4, <2>8
    <3>2. ToRef \subseteq ToRef'
      <4> SUFFICES ASSUME NEW a \in Addr, a[1] \in Closures, mem[a].type \in Type
                   PROVE  a \in ToRef'
        BY DEF ToRef
      <4>1. a # q /\ a # new
        BY <2>1 DEF IInv, BlocksDisjoint, Type, HNF
      <4> QED BY <4>1, <2>7, <2>8 DEF ToRef
    <3>3. new \in ToRef'
      BY <2>1, <2>5, <2>8 DEF ToRef
    <3> QED BY <3>1, <3>2, <3>3
  <2>11. BlocksDisjoint'
    <3>1. \A b \in Block \ (Closures' \cup old_heap') : free'[b] = 0
      BY <2>2, <2>8 DEF CopyBlocks, IInv, BlocksDisjoint
    <3>2. /\ Closures' \cap old_heap' = {} /\ Closures' \cap free_list' = {}
          /\ old_heap' \cap free_list' = {}
      BY <2>1, <2>2, <2>8 DEF CopyBlocks, IInv, BlocksDisjoint
    <3> QED BY <3>1, <3>2, <2>2 DEF CopyBlocks, BlocksDisjoint
  <2>12. CellsInv'
    <3> SUFFICES ASSUME NEW a \in Addr
                 PROVE  mem'[a].type = "FREE" <=> a[2] > Limit(a[1])'
      BY DEF CellsInv
    <3>0. Limit(a[1])' = free'[a[1]] /\ Limit(a[1]) = free[a[1]]
          /\ (mem[a].type = "FREE" <=> a[2] > free[a[1]])
      BY DEF Limit, IInv, CellsInv
    <3>1. CASE a = new
      BY <3>0, <3>1, <2>1, <2>2, <2>5 DEF CopyBlocks, Type, HNF
    <3>2. CASE a = q
      <4>1. a[1] # new[1]
        BY <3>2, <2>1
      <4>2. free'[a[1]] = free[a[1]]
        BY <4>1, <2>2, AddrFacts DEF CopyBlocks
      <4> QED BY <3>0, <3>2, <4>2, <2>1, <2>6 DEF Type, HNF
    <3>3. CASE a # q /\ a # new /\ a[1] = new[1]
      <4>1. a[2] # new[2]
        BY <3>3, AddrFacts, <2>1
      <4>2. a[2] \in Nat
        BY AddrFacts, ConstantsAssumption
      <4> QED BY <3>0, <3>3, <4>1, <4>2, <2>1, <2>2, <2>7 DEF CopyBlocks
    <3>4. CASE a # q /\ a # new /\ a[1] # new[1]
      BY <3>0, <3>4, <2>2, <2>7, AddrFacts DEF CopyBlocks
    <3> QED BY <3>1, <3>2, <3>3, <3>4
  <2>13. NoDuplicates'
    BY <2>1, <2>5, <2>6, <2>7 DEF IInv, NoDuplicates, Type, HNF
  <2>14. \A x \in Addr : x # new => mem'[x].id = mem[x].id
    BY <2>6, <2>7
  <2>15. \A x \in Ref \cup {Null} : x # new => IdOf(x)' = IdOf(x)
    BY <2>14 DEF IdOf
  <2>16. new \notin FromRef /\ new \notin ToRef /\ new # Null
    BY <2>1, RefFacts DEF FromRef, ToRef, Type, HNF
  <2>17. IdOf(new)' = IdOf(q)
    BY <2>1, <2>5 DEF IdOf
  <2>18. \A a \in Addr : mem[a].type \notin Type =>
           \A f \in Field : ~ Written(a, f)
    BY CurrentFacts DEF Written
  <2>19. \A a \in Addr : mem[a].type \in {"IND", "FWD"} => a[1] \in old_heap
    <3> SUFFICES ASSUME NEW a \in Addr, mem[a].type \in {"IND", "FWD"}
                 PROVE  a[1] \in old_heap
      OBVIOUS
    <3>1. a[1] \notin Closures
      BY DEF IInv, ToInv, Type, HNF
    <3>2. a[1] \in Block /\ a[2] \in Nat /\ a[2] > 0
      BY AddrFacts, ConstantsAssumption
    <3>3. ~ (a[2] > Limit(a[1]))
      BY DEF IInv, CellsInv
    <3>4. free \in [Block -> Nat]
      BY ConstantsAssumption DEF IInv, TypeOK
    <3>5. free[a[1]] # 0
      BY <3>2, <3>3, <3>4 DEF Limit
    <3> QED BY <3>1, <3>2, <3>5 DEF IInv, BlocksDisjoint
  <2>20. \A a \in Addr : mem[a].type \in {"IND", "FWD"} =>
           mem[a].ptrs[1] # new
    BY <2>16, <2>19 DEF IInv, FromInv
  <2>21. IdInv'
    <3>1. \A a \in Addr : mem'[a].type \in Type => mem'[a].id \in Id
      BY <2>1, <2>5, <2>6, <2>7 DEF IInv, IdInv, Type, HNF
    <3>2. ASSUME NEW a \in Addr, mem'[a].type \in {"IND", "FWD"}
          PROVE  mem'[a].ptrs[1] \in Ref /\ mem'[a].id = IdOf(mem[a].ptrs[1])'
      <4>1. CASE a = q
        BY <4>1, <2>1, <2>6, <2>17, RefFacts DEF IdOf
      <4>2. CASE a # q
        <5>1. a # new
          BY <3>2, <2>1, <2>5 DEF Type, HNF
        <5>2. /\ mem[a].type \in {"IND", "FWD"} /\ mem'[a].id = mem[a].id
              /\ mem'[a].ptrs[1] = mem[a].ptrs[1]
          BY <3>2, <4>2, <5>1, <2>7, <2>18, RefFacts DEF Type, HNF
        <5>3. mem[a].ptrs[1] \in Ref /\ mem[a].id = IdOf(mem[a].ptrs[1])
              /\ mem[a].ptrs[1] # new
          BY <5>2, <2>20 DEF IInv, IdInv
        <5> QED BY <5>2, <5>3, <2>15 DEF IdOf
      <4> QED BY <4>1, <4>2
    <3> QED BY <3>1, <3>2 DEF IdInv
  <2>22. FromInv'
    <3> SUFFICES ASSUME NEW a \in Addr, a[1] \in old_heap
                 PROVE  /\ mem'[a].type \in Type \cup {"IND"} =>
                             \A f \in Field : mem'[a].ptrs[f] \in FromRef \cup {Null}
                        /\ mem'[a].type = "IND" => mem'[a].ptrs[1] \in FromRef
                        /\ mem'[a].type = "FWD" => mem'[a].ptrs[1] \in ToRef' \ Static
      BY <2>9 DEF FromInv
    <3>1. a # new
      BY <2>1
    <3>2. CASE a = q
      BY <3>2, <2>1, <2>6, <2>10, RefFacts DEF Type, HNF
    <3>3. CASE a # q
      <4>1. \A f \in Field : ~ Written(a, f)
        BY CurrentFacts DEF Written, IInv, BlocksDisjoint
      <4> QED BY <3>1, <3>3, <4>1, <2>7, <2>10, RefFacts DEF IInv, FromInv
    <3> QED BY <3>2, <3>3
  <2>23. ~ \E f \in Field : Scanned(new, f)
    <3>1. new[1] \notin scavenged
      <4>1. Head1 \notin scavenged
        BY DEF IInv, LoopInv, Head1
      <4> QED BY <4>1, <2>2 DEF CopyBlocks, IInv, LoopInv
    <3>2. phase = "scavenge" => ~ (new[1] = closures[k]) \/ new[2] > pos
      BY <2>1 DEF IInv, TypeOK
    <3> QED BY <3>1, <3>2, <2>1 DEF Scanned, IInv, TypeOK
  <2>24. ASSUME NEW a \in Addr, a[1] \in Closures', mem'[a].type # "FREE"
         PROVE  /\ mem'[a].type \in Type
                /\ \A f \in Field : ~ Written(a, f) =>
                     mem'[a].ptrs[f] \in IF Scanned(a, f) THEN ToRef' \cup {Null}
                                         ELSE FromRef \cup {Null}
    <3>1. CASE a = new
      <4>1. \A f \in Field : mem[q].ptrs[f] \in FromRef \cup {Null}
        BY <2>1 DEF IInv, FromInv
      <4> QED BY <3>1, <4>1, <2>1, <2>5, <2>23
    <3>2. CASE a # new
      <4>1. a # q /\ a[1] \in Closures
        <5>1. a \in ToRef' \/ mem'[a].type \notin Type
          BY <2>24 DEF ToRef
        <5>2. CASE a[1] \in Closures
          BY <5>2, <2>1 DEF IInv, BlocksDisjoint
        <5>3. CASE a[1] \notin Closures
          <6>1. a[1] = new[1] /\ a # q
            BY <5>3, <2>24, <2>8, <2>1
          <6>2. mem[a].type # "FREE"
            BY <6>1, <3>2, <2>7, <2>24
          <6>3. free[a[1]] = 0
            BY <5>3, <6>1, <2>1 DEF IInv, BlocksDisjoint
          <6>4. mem[a].type = "FREE"
            BY <6>3, AddrFacts DEF IInv, CellsInv, Limit
          <6> QED BY <6>2, <6>4
        <5> QED BY <5>2, <5>3
      <4> QED BY <3>2, <4>1, <2>7, <2>10, <2>24 DEF IInv, ToInv
    <3> QED BY <3>1, <3>2
  <2>25. \A x \in FromRef \cup ToRef \cup {Null} : IdOf(x)' = IdOf(x)
    BY <2>15, <2>16 DEF FromRef, ToRef, Ref
  <2> QED BY <2>1, <2>3, <2>9, <2>10, <2>11, <2>12, <2>13, <2>17, <2>21,
             <2>22, <2>24, <2>25, RefFacts
<1> QED BY <1>1, <1>2, EvacCases

\* How an evacuation changes the list closures_ and the fill of its blocks.
LEMMA EvacGrow ==
  ASSUME IInv, phase # "mutator", NEW q \in FromRef, NEW new, Evacuate(q, new)
  PROVE  /\ Len(closures') \in Nat /\ Len(closures') >= Len(closures)
         /\ \A n \in 1..Len(closures) : closures'[n] = closures[n]
         /\ Closures \subseteq Closures'
         /\ \/ closures' = closures
            \/ /\ Len(closures') = Len(closures) + 1
               /\ closures'[Len(closures) + 1] \notin scavenged
         /\ \A b \in Block : free'[b] >= free[b]
         /\ EvacMem(q, new) \in [Addr -> Cell]
<1>0. /\ Len(closures) \in Nat /\ free \in [Block -> 0..BlockSize]
      /\ mem \in [Addr -> Cell] /\ scavenged \subseteq Closures
  BY DEF IInv, TypeOK, LoopInv
<1>1. CASE NoCopy(q, new)
  BY <1>0, <1>1 DEF NoCopy, Closures
<1>2. CASE Copy(q, new)
  <2>1. EvacMem(q, new) \in [Addr -> Cell]
    BY <1>2, CopyMem
  <2>2. CopyBlocks(new) /\ new[1] \in Block
    BY <1>2, AddrFacts DEF Copy
  <2>3. \A b \in Block : free'[b] >= free[b]
    <3>1. \A b \in Block : free[b] \in Int
      BY <1>0, ConstantsAssumption
    <3>2. \A b \in Block : free'[b] = free[b] \/ free'[b] = free[b] + 1
      BY <2>2 DEF CopyBlocks
    <3> QED BY <3>1, <3>2
  <2>4. /\ Len(closures') \in Nat /\ Len(closures') >= Len(closures)
        /\ \A n \in 1..Len(closures) : closures'[n] = closures[n]
        /\ Closures \subseteq Closures'
    BY <2>2 DEF CopyBlocks
  <2>5. \/ closures' = closures
        \/ /\ Len(closures') = Len(closures) + 1
           /\ closures'[Len(closures) + 1] \notin scavenged
    BY <1>0, <2>2 DEF CopyBlocks
  <2> QED BY <2>1, <2>3, <2>4, <2>5
<1> QED BY <1>1, <1>2, EvacCases

\* An evacuation does not disturb the order in which blocks are scavenged.
LEMMA EvacLoop ==
  ASSUME IInv, phase \in {"roots", "static", "scavenge"}, phase' = phase,
         NEW q \in FromRef, NEW new, Evacuate(q, new),
         scavenged' = scavenged, k' = k, pos' = pos,
         fld' \in Nat, phase = "scavenge" => fld' > 0
  PROVE  LoopInv'
<1>1. /\ Len(closures) \in Nat
      /\ Len(closures') \in Nat /\ Len(closures') >= Len(closures)
      /\ \A n \in 1..Len(closures) : closures'[n] = closures[n]
      /\ Closures \subseteq Closures'
      /\ \/ closures' = closures
         \/ /\ Len(closures') = Len(closures) + 1
            /\ closures'[Len(closures) + 1] \notin scavenged
  BY EvacGrow DEF IInv, TypeOK
<1>2. scavenged' \subseteq Closures'
      /\ (phase \in {"roots", "static"} => scavenged' = {})
  BY <1>1 DEF IInv, LoopInv
<1>3. ASSUME phase = "scavenge"
      PROVE  /\ k \in 1..Len(closures')
             /\ pos > 0 /\ pos <= free'[closures'[k]] + 1 /\ fld' > 0
             /\ closures'[k] \notin scavenged
             /\ \A x, y \in 1..Len(closures') :
                  /\ x < y /\ closures'[y] \in scavenged
                  /\ y < k \/ x > k
                  => closures'[x] \in scavenged
             /\ k < Len(closures') => Head1' \notin scavenged
             /\ k = Len(closures') /\ k > 1 => closures'[k - 1] \in scavenged
  <2>1. /\ k \in 1..Len(closures) /\ pos > 0 /\ pos \in Nat
        /\ pos <= free[closures[k]] + 1
        /\ closures[k] \notin scavenged
        /\ \A x, y \in 1..Len(closures) :
             /\ x < y /\ closures[y] \in scavenged
             /\ y < k \/ x > k
             => closures[x] \in scavenged
        /\ k < Len(closures) => Head1 \notin scavenged
        /\ k = Len(closures) /\ k > 1 => closures[k - 1] \in scavenged
    BY <1>3 DEF IInv, LoopInv, TypeOK
  <2>2. closures[k] \in Block /\ free[closures[k]] \in Nat
        /\ free'[closures[k]] >= free[closures[k]]
    BY <1>3, <2>1, EvacGrow DEF IInv, TypeOK
  <2>3. free'[closures[k]] \in Int
    <3>1. free' \in [Block -> 0..BlockSize]
      <4>1. CASE NoCopy(q, new)
        BY <4>1 DEF NoCopy, IInv, TypeOK
      <4>2. CASE Copy(q, new)
        BY <4>2 DEF Copy, CopyBlocks
      <4> QED BY <4>1, <4>2, EvacCases
    <3> QED BY <2>2, <3>1, ConstantsAssumption
  <2>4. k \in 1..Len(closures') /\ closures'[k] = closures[k]
    BY <1>1, <2>1
  <2>5. pos <= free'[closures'[k]] + 1
    BY <2>1, <2>2, <2>3, <2>4
  <2>6. \A y \in 1..Len(closures') : closures'[y] \in scavenged =>
          y \in 1..Len(closures) /\ closures'[y] = closures[y]
    BY <1>1
  <2>7. ASSUME NEW x \in 1..Len(closures'), NEW y \in 1..Len(closures'),
               x < y, closures'[y] \in scavenged, y < k \/ x > k
        PROVE  closures'[x] \in scavenged
    <3>1. y \in 1..Len(closures) /\ closures[y] \in scavenged
      BY <2>6, <2>7
    <3>2. x \in 1..Len(closures) /\ closures'[x] = closures[x]
      BY <3>1, <2>7, <1>1
    <3> QED BY <3>1, <3>2, <2>1, <2>7
  <2>8. k < Len(closures') => Head1' \notin scavenged
    BY <1>1, <2>1 DEF Head1
  <2>9. k = Len(closures') /\ k > 1 => closures'[k - 1] \in scavenged
    BY <1>1, <2>1
  <2> QED BY <1>3, <2>1, <2>4, <2>5, <2>7, <2>8, <2>9
<1> QED BY <1>2, <1>3 DEF LoopInv
-----------------------------------------------------------------------------
(***************************************************************************)
(* The steps of the collector.                                             *)
(***************************************************************************)

\* Evacuating a stack slot preserves the invariant.
LEMMA EvacRootInv ==
  ASSUME IInv, NEW s \in Slot, EvacRoot(s)
  PROVE  IInv'
<1> USE DEF cursorVars
<1>0. /\ phase = "roots" /\ phase' = "roots" /\ s \in todo
      /\ old_heap' = old_heap /\ scavenged' = scavenged /\ heap' = heap
      /\ nextGC' = nextGC /\ num_gcs' = num_gcs /\ caf' = caf
      /\ static_roots' = static_roots /\ k' = k /\ pos' = pos /\ fld' = fld
      /\ todo' = IF Pending(root[s]) THEN todo ELSE todo \ {s}
  BY DEF EvacRoot
<1>1. PICK new \in Ref : /\ Evacuate(root[s], new)
                         /\ mem' = EvacMem(root[s], new)
                         /\ root' = [root EXCEPT ![s] = new]
  BY DEF EvacRoot
<1>2. root[s] \in FromRef
  BY <1>0 DEF IInv, RootsInv
<1>3. mem' \in [Addr -> Cell]
  BY <1>0, <1>1, <1>2, EvacGrow
<1>4. \A a, f : ~ Written(a, f)
  BY <1>0 DEF Written
<1>5. /\ closures' \in Seq(Block) /\ Len(closures') > 0
      /\ free' \in [Block -> 0..BlockSize]
      /\ free_list' \in SUBSET Block
      /\ BlocksDisjoint' /\ CellsInv' /\ NoDuplicates' /\ IdInv' /\ FromInv'
      /\ FromRef' = FromRef /\ ToRef \subseteq ToRef'
      /\ new \in IF Pending(root[s]) THEN FromRef ELSE ToRef'
      /\ \A a \in Addr : a[1] \in Closures' /\ mem'[a].type # "FREE" =>
           /\ mem'[a].type \in Type
           /\ \A f \in Field :
                mem'[a].ptrs[f] \in IF Scanned(a, f) THEN ToRef' \cup {Null}
                                    ELSE FromRef \cup {Null}
  BY <1>0, <1>1, <1>2, <1>3, <1>4, EvacStep
<1>6. TypeOK'
  BY <1>0, <1>1, <1>3, <1>5 DEF IInv, TypeOK
<1>7. StaticInv' /\ MutatorInv'
  BY <1>0 DEF IInv, StaticInv, MutatorInv
<1>8. RootsInv'
  <2>1. \A t \in Slot : root'[t] \in IF t \in todo' THEN FromRef
                                      ELSE ToRef' \cup {Null}
    <3> SUFFICES ASSUME NEW t \in Slot
                 PROVE  root'[t] \in IF t \in todo' THEN FromRef
                                     ELSE ToRef' \cup {Null}
      OBVIOUS
    <3>1. CASE t = s
      BY <3>1, <1>0, <1>1, <1>5 DEF IInv, TypeOK
    <3>2. CASE t # s
      <4>1. root'[t] = root[t] /\ (t \in todo' <=> t \in todo)
        BY <3>2, <1>0, <1>1 DEF IInv, TypeOK
      <4>2. root[t] \in IF t \in todo THEN FromRef ELSE ToRef \cup {Null}
        BY <1>0 DEF IInv, RootsInv
      <4> QED BY <4>1, <4>2, <1>5
    <3> QED BY <3>1, <3>2
  <2>2. \A c \in Caf : caf'[c] \in FromRef \cup {Null}
    BY <1>0 DEF IInv, RootsInv
  <2>3. todo' \subseteq Slot
    BY <1>0 DEF IInv, RootsInv
  <2> QED BY <1>0, <1>5, <2>1, <2>2, <2>3 DEF RootsInv
<1>9. ToInv'
  <2>1. \A a, f : Scanned(a, f)' = Scanned(a, f)
    BY <1>0 DEF Scanned
  <2> QED BY <2>1, <1>5 DEF ToInv
<1>10. LoopInv'
  BY <1>0, <1>1, <1>2, EvacLoop DEF IInv, TypeOK
<1> QED BY <1>5, <1>6, <1>7, <1>8, <1>9, <1>10 DEF IInv

\* The end of the stack scan preserves the invariant.
LEMMA StackDoneInv ==
  ASSUME IInv, StackDone
  PROVE  IInv'
<1> USE DEF StackDone, blockVars, rootVars, cursorVars
<1>1. /\ Closures' = Closures /\ Head1' = Head1
      /\ \A b : Limit(b)' = Limit(b)
      /\ \A q : IdOf(q)' = IdOf(q)
  BY DEF Closures, Head1, Limit, IdOf
<1>2. FromRef' = FromRef /\ ToRef' = ToRef
  BY <1>1 DEF FromRef, ToRef
<1>3. \A a, f : Scanned(a, f)' = Scanned(a, f)
  BY DEF Scanned
<1>4. TypeOK'
  BY DEF IInv, TypeOK
<1>5. BlocksDisjoint' /\ CellsInv' /\ NoDuplicates' /\ IdInv' /\ StaticInv'
  BY <1>1 DEF IInv, BlocksDisjoint, CellsInv, NoDuplicates, IdInv, StaticInv
<1>6. MutatorInv' /\ LoopInv'
  BY <1>1 DEF IInv, MutatorInv, LoopInv
<1>7. RootsInv'
  <2>1. \A c \in Caf : caf[c] \in IF c \in static_roots
                                  THEN FromRef \cup {Null}
                                  ELSE ToRef \cup {Null}
    BY DEF IInv, RootsInv, StaticInv
  <2> QED BY <1>2, <2>1 DEF IInv, RootsInv
<1>8. FromInv' /\ ToInv'
  BY <1>1, <1>2, <1>3 DEF IInv, FromInv, ToInv
<1> QED BY <1>4, <1>5, <1>6, <1>7, <1>8 DEF IInv

\* Evacuating the value of a CAF preserves the invariant.
LEMMA EvacCafInv ==
  ASSUME IInv, NEW c \in Caf, EvacCaf(c)
  PROVE  IInv'
<1> USE DEF cursorVars
<1>0. /\ phase = "static" /\ phase' = "static" /\ c \in todo
      /\ old_heap' = old_heap /\ scavenged' = scavenged /\ heap' = heap
      /\ nextGC' = nextGC /\ num_gcs' = num_gcs /\ root' = root
      /\ static_roots' = static_roots /\ k' = k /\ pos' = pos /\ fld' = fld
      /\ todo' = IF Pending(caf[c]) THEN todo ELSE todo \ {c}
  BY DEF EvacCaf
<1>1. PICK new \in Ref : /\ Evacuate(caf[c], new)
                         /\ mem' = EvacMem(caf[c], new)
                         /\ caf' = [caf EXCEPT ![c] = new]
  BY DEF EvacCaf
<1>2. caf[c] \in FromRef
  BY <1>0 DEF IInv, RootsInv, StaticInv
<1>3. mem' \in [Addr -> Cell]
  BY <1>0, <1>1, <1>2, EvacGrow
<1>4. \A a, f : ~ Written(a, f)
  BY <1>0 DEF Written
<1>5. /\ closures' \in Seq(Block) /\ Len(closures') > 0
      /\ free' \in [Block -> 0..BlockSize]
      /\ free_list' \in SUBSET Block
      /\ BlocksDisjoint' /\ CellsInv' /\ NoDuplicates' /\ IdInv' /\ FromInv'
      /\ FromRef' = FromRef /\ ToRef \subseteq ToRef'
      /\ new \in IF Pending(caf[c]) THEN FromRef ELSE ToRef'
      /\ \A a \in Addr : a[1] \in Closures' /\ mem'[a].type # "FREE" =>
           /\ mem'[a].type \in Type
           /\ \A f \in Field :
                mem'[a].ptrs[f] \in IF Scanned(a, f) THEN ToRef' \cup {Null}
                                    ELSE FromRef \cup {Null}
  BY <1>0, <1>1, <1>2, <1>3, <1>4, EvacStep
<1>6. TypeOK'
  BY <1>0, <1>1, <1>3, <1>5 DEF IInv, TypeOK
<1>7. StaticInv' /\ MutatorInv'
  <2>1. caf'[c] # Null /\ c \in static_roots
    BY <1>0, <1>1, RefFacts DEF IInv, TypeOK, RootsInv
  <2>2. \A d \in Caf : d # c => caf'[d] = caf[d]
    BY <1>1 DEF IInv, TypeOK
  <2> QED BY <1>0, <2>1, <2>2 DEF IInv, StaticInv, MutatorInv
<1>8. RootsInv'
  <2>1. \A d \in Caf : caf'[d] \in IF d \in todo' THEN FromRef \cup {Null}
                                    ELSE ToRef' \cup {Null}
    <3> SUFFICES ASSUME NEW d \in Caf
                 PROVE  caf'[d] \in IF d \in todo' THEN FromRef \cup {Null}
                                    ELSE ToRef' \cup {Null}
      OBVIOUS
    <3>1. CASE d = c
      BY <3>1, <1>0, <1>1, <1>5 DEF IInv, TypeOK
    <3>2. CASE d # c
      <4>1. caf'[d] = caf[d] /\ (d \in todo' <=> d \in todo)
        BY <3>2, <1>0, <1>1 DEF IInv, TypeOK
      <4>2. caf[d] \in IF d \in todo THEN FromRef \cup {Null}
                       ELSE ToRef \cup {Null}
        BY <1>0 DEF IInv, RootsInv
      <4> QED BY <4>1, <4>2, <1>5
    <3> QED BY <3>1, <3>2
  <2>2. \A s \in Slot : root'[s] \in ToRef' \cup {Null}
    BY <1>0, <1>5 DEF IInv, RootsInv
  <2>3. todo' \subseteq static_roots
    BY <1>0 DEF IInv, RootsInv
  <2> QED BY <1>0, <1>5, <2>1, <2>2, <2>3 DEF RootsInv
<1>9. ToInv'
  <2>1. \A a, f : Scanned(a, f)' = Scanned(a, f)
    BY <1>0 DEF Scanned
  <2> QED BY <2>1, <1>5 DEF ToInv
<1>10. LoopInv'
  BY <1>0, <1>1, <1>2, EvacLoop DEF IInv, TypeOK
<1> QED BY <1>5, <1>6, <1>7, <1>8, <1>9, <1>10 DEF IInv

\* The steps that only move the collector's cursor.
LEMMA CursorStep ==
  ASSUME IInv, phase # "mutator", phase' # "mutator",
         UNCHANGED <<mem, free, closures, old_heap, free_list, heap, nextGC,
                     num_gcs, rootVars>>
  PROVE  /\ Closures' = Closures /\ Head1' = Head1
         /\ FromRef' = FromRef /\ ToRef' = ToRef
         /\ BlocksDisjoint' /\ CellsInv' /\ NoDuplicates' /\ IdInv'
         /\ StaticInv' /\ MutatorInv' /\ FromInv'
<1> USE DEF rootVars
<1>1. /\ Closures' = Closures /\ Head1' = Head1
      /\ \A b : Limit(b)' = Limit(b)
      /\ \A q : IdOf(q)' = IdOf(q)
  BY DEF Closures, Head1, Limit, IdOf
<1>2. FromRef' = FromRef /\ ToRef' = ToRef
  BY <1>1 DEF FromRef, ToRef
<1>3. BlocksDisjoint' /\ CellsInv' /\ NoDuplicates' /\ IdInv' /\ StaticInv'
  BY <1>1 DEF IInv, BlocksDisjoint, CellsInv, NoDuplicates, IdInv, StaticInv
<1>4. MutatorInv' /\ FromInv'
  BY <1>2 DEF IInv, MutatorInv, FromInv
<1> QED BY <1>1, <1>2, <1>3, <1>4

\* The end of the static roots preserves the invariant.
LEMMA StaticDoneInv ==
  ASSUME IInv, StaticDone
  PROVE  IInv'
<1> USE DEF StaticDone, blockVars, rootVars, cursorVars
<1>1. /\ Closures' = Closures /\ FromRef' = FromRef /\ ToRef' = ToRef
      /\ BlocksDisjoint' /\ CellsInv' /\ NoDuplicates' /\ IdInv'
      /\ StaticInv' /\ MutatorInv' /\ FromInv'
  BY CursorStep
<1>2. TypeOK'
  BY DEF IInv, TypeOK
<1>3. RootsInv'
  BY <1>1 DEF IInv, RootsInv
<1>4. \A a, f : Scanned(a, f)' = Scanned(a, f)
  BY DEF Scanned
<1>5. ToInv'
  BY <1>1, <1>4 DEF IInv, ToInv
<1>6. LoopInv'
  BY <1>1 DEF IInv, LoopInv
<1> QED BY <1>1, <1>2, <1>3, <1>5, <1>6 DEF IInv

\* Choosing the first block to scavenge preserves the invariant.
LEMMA PickBlockInv ==
  ASSUME IInv, PickBlock
  PROVE  IInv'
<1> USE DEF PickBlock, blockVars, rootVars
<1>1. /\ Closures' = Closures /\ FromRef' = FromRef /\ ToRef' = ToRef
      /\ Head1' = Head1
      /\ BlocksDisjoint' /\ CellsInv' /\ NoDuplicates' /\ IdInv'
      /\ StaticInv' /\ MutatorInv' /\ FromInv'
  BY CursorStep
<1>2. /\ Len(closures) \in Nat \ {0} /\ closures \in Seq(Block)
      /\ Head1 = closures[Len(closures)]
  BY HeadFacts DEF IInv, Head1, TypeOK
<1>3. /\ k' \in 1..Len(closures) /\ k' \in Nat /\ closures[k'] \notin scavenged
      /\ k' = Len(closures) /\ k' > 1 => closures[k' - 1] \in scavenged
  BY <1>2 DEF FirstToScavenge
<1>4. TypeOK'
  BY <1>3 DEF IInv, TypeOK
<1>5. RootsInv'
  BY <1>1 DEF IInv, RootsInv
<1>6. \A a \in Addr, f \in Field : Scanned(a, f)' = Scanned(a, f)
  BY AddrFacts DEF Scanned, Field
<1>7. ToInv'
  BY <1>1, <1>6 DEF IInv, ToInv
<1>8. LoopInv'
  <2>1. closures[k'] \in Block
    BY <1>2, <1>3
  <2>2. pos' > 0 /\ pos' <= free[closures[k']] + 1 /\ fld' > 0
    BY <2>1 DEF IInv, TypeOK
  <2>3. \A x, y \in 1..Len(closures) :
          x < y /\ closures[y] \in scavenged => closures[x] \in scavenged
    BY DEF IInv, LoopInv
  <2>4. scavenged \subseteq Closures
    BY DEF IInv, LoopInv
  <2> QED BY <1>1, <1>2, <1>3, <2>2, <2>3, <2>4 DEF LoopInv
<1> QED BY <1>1, <1>4, <1>5, <1>7, <1>8 DEF IInv

\* Moving to the next closure preserves the invariant.
LEMMA NextClosureInv ==
  ASSUME IInv, NextClosure
  PROVE  IInv'
<1> USE DEF NextClosure, blockVars, rootVars
<1>1. /\ Closures' = Closures /\ FromRef' = FromRef /\ ToRef' = ToRef
      /\ Head1' = Head1
      /\ BlocksDisjoint' /\ CellsInv' /\ NoDuplicates' /\ IdInv'
      /\ StaticInv' /\ MutatorInv' /\ FromInv'
  BY CursorStep
<1>2. pos \in Nat /\ fld \in Nat /\ MaxFields \in Nat
  BY ConstantsAssumption DEF IInv, TypeOK
<1>3. TypeOK'
  BY <1>2 DEF IInv, TypeOK
<1>4. RootsInv'
  BY <1>1 DEF IInv, RootsInv
<1>5. \A a \in Addr, f \in Field : Scanned(a, f)' = Scanned(a, f)
  <2>1. \A a \in Addr, f \in Field : a[2] \in Nat /\ f \in Nat /\ f < fld
    BY <1>2, AddrFacts, ConstantsAssumption DEF Field, PayloadLeft
  <2>2. \A a \in Addr, f \in Field : f >= 1
    BY DEF Field
  <2> QED BY <1>2, <2>1, <2>2 DEF Scanned
<1>6. ToInv'
  BY <1>1, <1>5 DEF IInv, ToInv
<1>7. LoopInv'
  <2>1. k \in 1..Len(closures) /\ free[closures[k]] \in Nat
    BY DEF IInv, LoopInv, TypeOK
  <2>2. pos' > 0 /\ pos' <= free[closures[k]] + 1 /\ fld' > 0
    BY <1>2, <2>1
  <2> QED BY <1>1, <2>2 DEF IInv, LoopInv
<1> QED BY <1>1, <1>3, <1>4, <1>6, <1>7 DEF IInv

\* Scavenging a payload word preserves the invariant.
LEMMA ScavengeFieldInv ==
  ASSUME IInv, ScavengeField
  PROVE  IInv'
<1> USE DEF rootVars
<1> DEFINE q == mem[Current].ptrs[fld]
<1>0. /\ phase = "scavenge" /\ phase' = "scavenge"
      /\ pos <= free[closures[k]] /\ fld <= MaxFields
      /\ old_heap' = old_heap /\ scavenged' = scavenged /\ heap' = heap
      /\ nextGC' = nextGC /\ num_gcs' = num_gcs /\ root' = root /\ caf' = caf
      /\ static_roots' = static_roots /\ todo' = todo /\ k' = k /\ pos' = pos
  BY DEF ScavengeField, PayloadLeft
<1>1. /\ fld \in Nat /\ pos \in Nat /\ k \in 1..Len(closures)
      /\ closures[k] \notin scavenged
  BY <1>0 DEF IInv, TypeOK, LoopInv
<1>2. fld \in Field /\ fld > 0
  BY <1>0, <1>1, ConstantsAssumption DEF IInv, LoopInv, Field
<1>3. /\ Current \in Addr /\ Current[1] = closures[k] /\ Current[2] = pos
      /\ closures[k] \in Closures /\ mem[Current].type \in Type
  BY <1>0, CurrentFacts
<1>4. \A a \in Addr : a = Current <=> a[1] = closures[k] /\ a[2] = pos
  BY <1>3, AddrFacts
<1>5. \A a \in Addr, f \in Field : a[2] \in Nat /\ f \in Nat
  BY AddrFacts, ConstantsAssumption DEF Field
<1>6. ~ Scanned(Current, fld)
  BY <1>1, <1>3 DEF Scanned
<1>7. q \in FromRef \cup {Null}
  BY <1>0, <1>2, <1>3, <1>6 DEF IInv, ToInv, Type, HNF
<1>8. CASE q = Null /\ fld' = fld + 1
           /\ UNCHANGED <<mem, free, closures, free_list>>
  <2>1. /\ Closures' = Closures /\ FromRef' = FromRef /\ ToRef' = ToRef
        /\ Head1' = Head1
        /\ BlocksDisjoint' /\ CellsInv' /\ NoDuplicates' /\ IdInv'
        /\ StaticInv' /\ MutatorInv' /\ FromInv'
    BY <1>0, <1>8, CursorStep
  <2>2. TypeOK'
    BY <1>0, <1>1, <1>8 DEF IInv, TypeOK
  <2>3. RootsInv'
    BY <1>0, <2>1 DEF IInv, RootsInv
  <2>4. \A a \in Addr, f \in Field :
          Scanned(a, f)' <=> Scanned(a, f) \/ (a = Current /\ f = fld)
    BY <1>0, <1>1, <1>4, <1>5, <1>8 DEF Scanned
  <2>5. ToInv'
    <3> SUFFICES ASSUME NEW a \in Addr, a[1] \in Closures, mem[a].type # "FREE",
                        NEW f \in Field
                 PROVE  /\ mem[a].type \in Type
                        /\ mem[a].ptrs[f] \in
                             IF Scanned(a, f)' THEN ToRef \cup {Null}
                             ELSE FromRef \cup {Null}
      BY <1>2, <1>8, <2>1 DEF ToInv
    <3>1. /\ mem[a].type \in Type
          /\ mem[a].ptrs[f] \in IF Scanned(a, f) THEN ToRef \cup {Null}
                                ELSE FromRef \cup {Null}
      BY <1>0 DEF IInv, ToInv
    <3> QED BY <1>8, <2>4, <3>1
  <2>6. LoopInv'
    BY <1>0, <1>1, <1>8, <2>1 DEF IInv, LoopInv
  <2> QED BY <2>1, <2>2, <2>3, <2>5, <2>6 DEF IInv
<1>9. CASE /\ q # Null
           /\ \E new \in Ref :
                /\ Evacuate(q, new)
                /\ mem' = [EvacMem(q, new) EXCEPT ![Current].ptrs[fld] = new]
           /\ fld' = IF Pending(q) THEN fld ELSE fld + 1
  <2>1. PICK new \in Ref :
          /\ Evacuate(q, new)
          /\ mem' = [EvacMem(q, new) EXCEPT ![Current].ptrs[fld] = new]
    BY <1>9
  <2>2. q \in FromRef
    BY <1>7, <1>9
  <2> HIDE DEF q
  <2>3. EvacMem(q, new) \in [Addr -> Cell]
    BY <1>0, <2>1, <2>2, EvacGrow
  <2>4. /\ mem' \in [Addr -> Cell]
        /\ \A a \in Addr :
             /\ mem'[a].type = EvacMem(q, new)[a].type
             /\ mem'[a].id = EvacMem(q, new)[a].id
             /\ \A f \in Field :
                  mem'[a].ptrs[f] = IF a = Current /\ f = fld THEN new
                                    ELSE EvacMem(q, new)[a].ptrs[f]
    <3> DEFINE m0 == EvacMem(q, new)
               c0 == [m0[Current] EXCEPT !.ptrs[fld] = new]
    <3>1. m0[Current] \in Cell /\ mem' = [m0 EXCEPT ![Current] = c0]
      BY <1>3, <2>1, <2>3
    <3>2. /\ c0 \in Cell /\ c0.type = m0[Current].type
          /\ c0.id = m0[Current].id
          /\ \A f \in Field : c0.ptrs[f] = IF f = fld THEN new
                                           ELSE m0[Current].ptrs[f]
      BY <1>2, <3>1 DEF Cell
    <3> HIDE DEF m0, c0
    <3>3. m0 \in [Addr -> Cell]
      BY <2>3 DEF m0
    <3>4. /\ mem' \in [Addr -> Cell] /\ mem'[Current] = c0
          /\ \A a \in Addr : a # Current => mem'[a] = m0[a]
      BY <1>3, <3>1, <3>2, <3>3
    <3> QED BY <3>2, <3>4 DEF m0
  <2>5. \A a, f : Written(a, f) <=> (a = Current /\ f = fld)
    BY <1>0 DEF Written
  <2>6. /\ closures' \in Seq(Block) /\ Len(closures') > 0
        /\ free' \in [Block -> 0..BlockSize]
        /\ free_list' \in SUBSET Block
        /\ BlocksDisjoint' /\ CellsInv' /\ NoDuplicates' /\ IdInv' /\ FromInv'
        /\ FromRef' = FromRef /\ ToRef \subseteq ToRef'
        /\ new \in IF Pending(q) THEN FromRef ELSE ToRef'
        /\ \A a \in Addr : a[1] \in Closures' /\ mem'[a].type # "FREE" =>
             /\ mem'[a].type \in Type
             /\ \A f \in Field : ~ Written(a, f) =>
                  mem'[a].ptrs[f] \in IF Scanned(a, f) THEN ToRef' \cup {Null}
                                      ELSE FromRef \cup {Null}
    BY <1>0, <2>1, <2>2, <2>4, <2>5, EvacStep
  <2>7. TypeOK'
    <3>1. fld' \in Nat
      BY <1>1, <1>9
    <3>2. IInv => TypeOK
      BY DEF IInv
    <3> QED BY <1>0, <2>4, <2>6, <3>1, <3>2 DEF TypeOK
  <2>8. StaticInv' /\ MutatorInv'
    BY <1>0 DEF IInv, StaticInv, MutatorInv
  <2>9. RootsInv'
    BY <1>0, <2>6 DEF IInv, RootsInv
  <2>10. closures'[k] = closures[k]
    BY <1>0, <1>1, <2>1, <2>2, EvacGrow
  <2>11. \A a \in Addr, f \in Field :
           Scanned(a, f)' <=> \/ Scanned(a, f)
                              \/ a = Current /\ f = fld /\ ~ Pending(q)
    BY <1>0, <1>1, <1>4, <1>5, <1>9, <2>10 DEF Scanned
  <2>12. ToInv'
    <3> SUFFICES ASSUME NEW a \in Addr, a[1] \in Closures', mem'[a].type # "FREE",
                        NEW f \in Field
                 PROVE  /\ mem'[a].type \in Type
                        /\ mem'[a].ptrs[f] \in
                             IF Scanned(a, f)' THEN ToRef' \cup {Null}
                             ELSE FromRef' \cup {Null}
      BY <1>2, <2>6 DEF ToInv
    <3>1. CASE a = Current /\ f = fld
      BY <3>1, <1>6, <2>4, <2>6, <2>11
    <3>2. CASE ~ (a = Current /\ f = fld)
      BY <3>2, <2>5, <2>6, <2>11
    <3> QED BY <3>1, <3>2
  <2>13. LoopInv'
    <3>1. fld' \in Nat /\ fld' > 0
      BY <1>1, <1>2, <1>9
    <3> QED BY <1>0, <2>1, <2>2, <3>1, EvacLoop
  <2> QED BY <2>6, <2>7, <2>8, <2>9, <2>12, <2>13 DEF IInv
<1> QED BY <1>8, <1>9 DEF ScavengeField

\* Finishing a block preserves the invariant.
LEMMA BlockScavengedInv ==
  ASSUME IInv, BlockScavenged
  PROVE  IInv'
<1> USE DEF rootVars
<1>0. /\ phase = "scavenge" /\ pos > free[closures[k]]
      /\ scavenged' = scavenged \cup {closures[k]}
      /\ UNCHANGED <<mem, free, closures, old_heap, free_list, heap, nextGC,
                     num_gcs, rootVars, todo>>
  BY DEF BlockScavenged
<1>1. \/ /\ k > 1 /\ closures[k - 1] \notin scavenged
         /\ k' = k - 1 /\ pos' = 1 /\ fld' = 1 /\ phase' = "scavenge"
      \/ /\ ~ (k > 1 /\ closures[k - 1] \notin scavenged)
         /\ k' = 0 /\ pos' = 0 /\ fld' = 0 /\ phase' = "blocks"
  BY <1>0 DEF BlockScavenged
<1>2. /\ Closures' = Closures /\ FromRef' = FromRef /\ ToRef' = ToRef
      /\ Head1' = Head1
      /\ BlocksDisjoint' /\ CellsInv' /\ NoDuplicates' /\ IdInv'
      /\ StaticInv' /\ MutatorInv' /\ FromInv'
  BY <1>0, <1>1, CursorStep
<1>3. /\ closures \in Seq(Block) /\ Len(closures) \in Nat
      /\ k \in 1..Len(closures) /\ k \in Nat /\ closures[k] \in Block
      /\ closures[k] \notin scavenged /\ closures[k] \in Closures
      /\ pos \in Nat /\ free \in [Block -> 0..BlockSize]
  BY <1>0 DEF IInv, TypeOK, LoopInv, Closures
<1>4. TypeOK'
  BY <1>0, <1>1, <1>3 DEF IInv, TypeOK
<1>5. RootsInv'
  BY <1>0, <1>1, <1>2 DEF IInv, RootsInv
<1>6. \A a \in Addr, f \in Field :
        mem[a].type # "FREE" => (Scanned(a, f)' <=> Scanned(a, f))
  <2> SUFFICES ASSUME NEW a \in Addr, NEW f \in Field, mem[a].type # "FREE"
               PROVE  Scanned(a, f)' <=> Scanned(a, f)
    OBVIOUS
  <2>1. a[2] \in Nat /\ a[2] > 0 /\ f \in Nat /\ f > 0 /\ a[1] \in Block
    BY AddrFacts, ConstantsAssumption DEF Field
  <2>2. a[1] = closures[k] => a[2] < pos
    BY <1>0, <1>3, <2>1 DEF IInv, CellsInv, Limit
  <2>3. Scanned(a, f) <=> a[1] \in scavenged \/ a[1] = closures[k]
    BY <1>0, <2>2 DEF Scanned
  <2>4. Scanned(a, f)' <=> a[1] \in scavenged'
    BY <1>0, <1>1, <2>1 DEF Scanned
  <2> QED BY <1>0, <2>3, <2>4
<1>7. ToInv'
  BY <1>0, <1>1, <1>2, <1>6 DEF IInv, ToInv
<1>8. scavenged' \subseteq Closures'
  BY <1>0, <1>2, <1>3 DEF IInv, LoopInv
<1>9. /\ \A m, n \in 1..Len(closures) : closures[m] = closures[n] => m = n
      /\ \A x, y \in 1..Len(closures) :
           /\ x < y /\ closures[y] \in scavenged
           /\ y < k \/ x > k
           => closures[x] \in scavenged
      /\ k < Len(closures) => Head1 \notin scavenged
      /\ k = Len(closures) /\ k > 1 => closures[k - 1] \in scavenged
  BY <1>0 DEF IInv, LoopInv, BlocksDisjoint
<1>10. ASSUME k > 1 /\ closures[k - 1] \notin scavenged
       PROVE  LoopInv'
  <2>1. k' = k - 1 /\ pos' = 1 /\ fld' = 1 /\ phase' = "scavenge"
    BY <1>1, <1>10
  <2>2. k < Len(closures) /\ Head1 \notin scavenged /\ Head1 # closures[k]
    BY <1>3, <1>9, <1>10 DEF Head1
  <2>3. k' \in 1..Len(closures) /\ closures[k'] \notin scavenged'
    BY <1>0, <1>3, <1>9, <1>10, <2>1
  <2>4. closures[k'] \in Block /\ free[closures[k']] >= 0
    BY <1>3, <2>3
  <2>5. \A x, y \in 1..Len(closures) :
          /\ x < y /\ closures[y] \in scavenged'
          /\ y < k' \/ x > k'
          => closures[x] \in scavenged'
    BY <1>0, <1>3, <1>9, <2>1
  <2>6. Head1 \notin scavenged' /\ k' < Len(closures)
    BY <1>0, <1>3, <2>1, <2>2
  <2>7. pos' > 0 /\ pos' <= free[closures[k']] + 1 /\ fld' > 0
    BY <1>3, <2>1, <2>4
  <2> QED BY <1>0, <1>2, <1>8, <2>1, <2>3, <2>5, <2>6, <2>7 DEF LoopInv
<1>11. ASSUME ~ (k > 1 /\ closures[k - 1] \notin scavenged)
       PROVE  LoopInv'
  <2>1. phase' = "blocks"
    BY <1>1, <1>11
  <2>2. \A x \in 1..Len(closures) : x < k => closures[x] \in scavenged
    BY <1>3, <1>9, <1>11
  <2>3. \A x, y \in 1..Len(closures) :
          x < y /\ closures[y] \in scavenged' => closures[x] \in scavenged'
    BY <1>0, <1>3, <1>9, <2>2
  <2> QED BY <1>0, <1>8, <2>1, <2>3 DEF LoopInv
<1> QED BY <1>2, <1>4, <1>5, <1>7, <1>10, <1>11 DEF IInv

\* When the newest block is scavenged all are, so the old heap can go.
LEMMA FinishGCInv ==
  ASSUME IInv, FinishGC
  PROVE  IInv'
<1> USE DEF rootVars, cursorVars
<1>0. /\ phase = "blocks" /\ phase' = "mutator" /\ Head1 \in scavenged
      /\ scavenged' = {} /\ old_heap' = {} /\ free_list' = free_list \cup old_heap
      /\ mem' = [a \in Addr |-> IF a[1] \in old_heap THEN FreeCell ELSE mem[a]]
      /\ free' = [b \in Block |-> IF b \in old_heap THEN 0 ELSE free[b]]
      /\ nextGC' = Max2(Len(closures), MinHeapSize) + 1
      /\ heap' = free[Head1]
      /\ UNCHANGED <<closures, num_gcs, rootVars, todo, cursorVars>>
  BY DEF FinishGC
<1>1. /\ Closures' = Closures /\ Head1' = Head1
      /\ Len(closures) \in Nat \ {0} /\ Head1 \in Block /\ Head1 \in Closures
      /\ Closures \subseteq Block /\ Closures \cap old_heap = {}
  BY <1>0, HeadFacts DEF Closures, Head1, IInv, BlocksDisjoint
<1>2. nextGC' \in Nat /\ nextGC' > 0
  BY <1>0, <1>1, ConstantsAssumption DEF Max2
<1>3. Closures \subseteq scavenged
  <2> SUFFICES ASSUME NEW n \in 1..Len(closures)
               PROVE  closures[n] \in scavenged
    BY DEF Closures
  <2>1. Len(closures) \in 1..Len(closures)
    BY <1>1
  <2>2. n = Len(closures) \/ n < Len(closures)
    BY <1>1
  <2> QED BY <1>0, <2>1, <2>2 DEF IInv, LoopInv, Head1
<1>4. FreeCell \in Cell /\ FreeCell.type = "FREE"
      /\ \A f \in Field : FreeCell.ptrs[f] = Null
  BY DEF FreeCell, Cell
<1>5. mem \in [Addr -> Cell]
  BY DEF IInv, TypeOK
<1> HIDE DEF FreeCell
<1>6. mem' \in [Addr -> Cell]
      /\ \A a \in Addr : mem'[a] = IF a[1] \in old_heap THEN FreeCell ELSE mem[a]
  BY <1>0, <1>4, <1>5
<1>7. \A a \in Addr : mem'[a].type # "FREE" =>
        /\ mem'[a] = mem[a] /\ mem[a].type \in Type /\ a[1] \in Closures
        /\ \A f \in Field : mem[a].ptrs[f] \in ToRef \cup {Null}
  <2> SUFFICES ASSUME NEW a \in Addr, mem'[a].type # "FREE"
               PROVE  /\ mem'[a] = mem[a] /\ mem[a].type \in Type
                      /\ a[1] \in Closures
                      /\ \A f \in Field : mem[a].ptrs[f] \in ToRef \cup {Null}
    OBVIOUS
  <2>1. mem'[a] = mem[a] /\ a[1] \notin old_heap /\ mem[a].type # "FREE"
    BY <1>4, <1>6
  <2>2. a[1] \in Closures
    <3>1. a[1] \in Block /\ a[2] \in Nat /\ a[2] > 0
      BY AddrFacts, ConstantsAssumption
    <3>2. free[a[1]] # 0
      BY <1>0, <2>1, <3>1 DEF IInv, CellsInv, Limit
    <3> QED BY <2>1, <3>1, <3>2 DEF IInv, BlocksDisjoint
  <2>3. \A f \in Field : Scanned(a, f)
    BY <1>3, <2>2 DEF Scanned
  <2> QED BY <1>0, <2>1, <2>2, <2>3 DEF IInv, ToInv
<1>8. \A a \in Addr : a[1] \in Closures => mem'[a] = mem[a]
  BY <1>1, <1>6
<1>9. ToRef \subseteq HeapRef'
  BY <1>1, <1>8 DEF ToRef, HeapRef
<1>10. TypeOK'
  <2>1. free' \in [Block -> 0..BlockSize] /\ heap' \in 0..BlockSize
    BY <1>0, <1>1, ConstantsAssumption DEF IInv, TypeOK
  <2> QED BY <1>0, <1>2, <1>6, <2>1 DEF IInv, TypeOK
<1>11. BlocksDisjoint'
  BY <1>0, <1>1 DEF IInv, BlocksDisjoint
<1>12. CellsInv'
  <2> SUFFICES ASSUME NEW a \in Addr
               PROVE  mem'[a].type = "FREE" <=> a[2] > Limit(a[1])'
    BY DEF CellsInv
  <2>1. a[1] \in Block /\ a[2] \in Nat /\ a[2] > 0
    BY AddrFacts, ConstantsAssumption
  <2>2. CASE a[1] \in old_heap
    <3>1. Limit(a[1])' = 0
      BY <2>1, <2>2, <1>0, <1>1 DEF Limit
    <3> QED BY <2>1, <2>2, <3>1, <1>4, <1>6
  <2>3. CASE a[1] \notin old_heap
    <3>1. Limit(a[1])' = free[a[1]] /\ Limit(a[1]) = free[a[1]]
      BY <2>1, <2>3, <1>0, <1>1 DEF Limit
    <3> QED BY <2>3, <3>1, <1>6 DEF IInv, CellsInv
  <2> QED BY <2>2, <2>3
<1>13. NoDuplicates'
  BY <1>4, <1>6 DEF IInv, NoDuplicates, Type, HNF
<1>14. IdInv'
  BY <1>7 DEF IInv, IdInv, Type, HNF
<1>15. StaticInv' /\ RootsInv' /\ FromInv' /\ ToInv' /\ LoopInv'
  BY <1>0 DEF IInv, StaticInv, RootsInv, FromInv, ToInv, LoopInv
<1>16. MutatorInv'
  <2>1. /\ \A a \in Addr : mem'[a].type # "FWD"
        /\ \A a \in Addr : mem'[a].type # "IND"
    BY <1>7 DEF Type, HNF
  <2>2. \A a \in Addr, f \in Field :
          mem'[a].type # "FREE" => mem'[a].ptrs[f] \in HeapRef' \cup {Null}
    BY <1>7, <1>9
  <2>3. /\ \A s \in Slot : root[s] \in ToRef \cup {Null}
        /\ \A c \in Caf : caf[c] \in ToRef \cup {Null}
        /\ todo = {}
    BY <1>0 DEF IInv, RootsInv
  <2> QED BY <1>0, <1>2, <1>9, <2>1, <2>2, <2>3 DEF MutatorInv
<1> QED BY <1>10, <1>11, <1>12, <1>13, <1>14, <1>15, <1>16 DEF IInv
-----------------------------------------------------------------------------

\* Every step of the program and of the collector preserves the invariant.
LEMMA NextInv ==
  ASSUME IInv, [Next]_vars
  PROVE  IInv'
<1>1. CASE UNCHANGED vars
  BY <1>1, StutterInv
<1>2. CASE Mutate
  BY <1>2, AllocInv, LoadFieldInv, InitFieldInv, SetSlotInv, FollowIndInv, UpdateInv,
     BumpAllocatorFullInv, StartGCInv DEF Mutate
<1>3. CASE Collect
  BY <1>3, EvacRootInv, StackDoneInv, EvacCafInv, StaticDoneInv, PickBlockInv,
     ScavengeFieldInv, NextClosureInv, BlockScavengedInv, FinishGCInv
     DEF Collect
<1> QED BY <1>1, <1>2, <1>3 DEF Next

\* The invariant holds in every state of every run of the program with its
\* collector (performGC, evacuate, scavengeBlock and the mutator's steps).
THEOREM Invariance == Spec => []IInv
BY InitInv, NextInv, PTL DEF Spec

\* Every variable of the heap and of the collector has its type.
THEOREM TypeCorrect == Spec => []TypeOK
<1>1. IInv => TypeOK
  BY DEF IInv
<1> QED BY <1>1, Invariance, PTL

\* No block is on two of the lists closures_, old_heap_ and free_, and blocks
\* on none of them are empty: performGC neither loses nor shares a block.
THEOREM BlockLists == Spec => []BlocksDisjoint
<1>1. IInv => BlocksDisjoint
  BY DEF IInv
<1> QED BY <1>1, Invariance, PTL

\* A closure is never duplicated: evacuate copies it once and all later
\* references find its forwarding pointer, so sharing is preserved.
THEOREM Sharing == Spec => []NoDuplicates
<1>1. IInv => NoDuplicates
  BY DEF IInv
<1> QED BY <1>1, Invariance, PTL

\* Whenever the program runs, no slot, CAF or heap closure refers to a block
\* the collector has freed, to an unused cell or to a forwarding pointer.
THEOREM NoDangling == Spec => []HeapClosed
<1>1. ASSUME IInv PROVE HeapClosed
  <2> SUFFICES ASSUME phase = "mutator"
               PROVE  HeapClosed
    BY DEF HeapClosed
  <2> DEFINE ok == {a \in Allocated(Closures) :
                      mem[a].type \in Type \cup {"IND"}} \cup Static \cup {Null}
  <2>1. HeapRef \cup {Null} \subseteq ok
    <3> SUFFICES ASSUME NEW a \in Addr, a[1] \in Closures,
                        mem[a].type \in Type \cup {"IND"}
                 PROVE  a \in Allocated(Closures)
      BY DEF HeapRef
    <3>1. a[1] \in Block /\ a[2] \in Nat
      BY AddrFacts, ConstantsAssumption
    <3>2. Limit(a[1]) \in Nat
      BY <1>1, <3>1, ConstantsAssumption DEF Limit, IInv, TypeOK
    <3>3. ~ (a[2] > Limit(a[1]))
      BY <1>1 DEF IInv, CellsInv, Type, HNF
    <3> QED BY <3>1, <3>2, <3>3 DEF Allocated
  <2>2. \A a \in Allocated(Closures) : a \in Addr /\ mem[a].type # "FREE"
    <3> SUFFICES ASSUME NEW a \in Addr, a[2] <= Limit(a[1])
                 PROVE  mem[a].type # "FREE"
      BY DEF Allocated
    <3>1. a[1] \in Block /\ a[2] \in Nat
      BY AddrFacts, ConstantsAssumption
    <3>2. Limit(a[1]) \in Nat
      BY <1>1, <3>1, ConstantsAssumption DEF Limit, IInv, TypeOK
    <3> QED BY <1>1, <3>1, <3>2 DEF IInv, CellsInv
  <2> HIDE DEF ok
  <2>3. /\ \A s \in Slot : root[s] \in ok
        /\ \A c \in Caf : caf[c] \in ok
        /\ \A a \in Allocated(Closures), f \in Field : mem[a].ptrs[f] \in ok
    BY <1>1, <2>1, <2>2 DEF IInv, MutatorInv
  <2> QED BY <2>3 DEF HeapClosed, ok
<1> QED BY <1>1, Invariance, PTL

\* scavengeBlock only ever walks over closures: never over an indirection or
\* a forwarding pointer, where it would stop the VM.
THEOREM CopiesAreClosures == Spec => []ToSpaceClosures
<1>1. ASSUME IInv PROVE ToSpaceClosures
  <2> SUFFICES ASSUME phase # "mutator", NEW a \in Allocated(Closures)
               PROVE  mem[a].type \in Type
    BY DEF ToSpaceClosures
  <2>1. a \in Addr /\ a[1] \in Closures /\ a[2] <= free[a[1]]
    BY DEF Allocated, Limit
  <2>2. a[1] \in Block /\ a[2] \in Nat /\ free[a[1]] \in Nat
    BY <1>1, <2>1, AddrFacts, ConstantsAssumption DEF IInv, TypeOK
  <2>3. mem[a].type # "FREE"
    BY <1>1, <2>1, <2>2 DEF IInv, CellsInv, Limit
  <2> QED BY <1>1, <2>1, <2>3 DEF IInv, ToInv
<1> QED BY <1>1, Invariance, PTL
=============================================================================
