------------------------------ MODULE RegAlloc ------------------------------
(***************************************************************************)
(* The register allocation of the assembler (assembler.cc, assembler.hh).  *)
(* A trace is assembled backwards: a value gets a register at its last     *)
(* use, keeps it or is moved to a spill slot, and gives it up where it is  *)
(* defined.  The model chooses the instructions of the trace as the        *)
(* assembler reaches them.  Of the machine code it keeps what the code     *)
(* emitted so far needs: which value must be in which register and spill   *)
(* slot before it runs.  The value of an IR reference is the reference     *)
(* itself.                                                                 *)
(*                                                                         *)
(* References are numbers as in the IR buffer: literals are negative,      *)
(* instructions are positive, and a smaller one costs less to evict.  The  *)
(* first instructions of a trace are loads from the stack or, in a side    *)
(* trace, the values inherited from the parent.                            *)
(***************************************************************************)
EXTENDS Integers, Sequences, FiniteSetsExt, SequencesExt

CONSTANTS
  NumRegs,       \* allocatable registers; 0 is eax, 1 is ecx, 2 is edx
  NumSpills,     \* spill slots; slot 0 is never used (SpillSet)
  NumSmallLits,  \* literals that fit an immediate operand
  NumBigLits,    \* other literals, and offsets from the base
  NumInputs,     \* instructions at the start that bring in values
  NumIns,        \* instructions of a trace
  Ops            \* the kinds of instructions between the inputs and SAVE

ASSUME RegAllocAssumption ==
  /\ NumRegs \in Nat /\ NumRegs > 2 /\ NumSpills \in Nat /\ NumInputs \in Nat
  /\ NumIns \in Nat /\ NumInputs < NumIns /\ NumInputs <= NumSpills
  /\ NumSmallLits \in Nat /\ NumBigLits \in Nat

EAX == 0
ECX == 1
EDX == 2
kGPR == 0..(NumRegs - 1)
Lits == {-n : n \in 1..(NumSmallLits + NumBigLits)}
SmallLits == {-n : n \in 1..NumSmallLits}
BigLits == Lits \ SmallLits
Ref == Lits \cup 1..NumIns
NoReg == -1

VARIABLES
  as,      \* the assembler's state, see AsmState
  curins,  \* the instruction to assemble next
  entry    \* where the parent leaves the inherited values; Root in a root trace

raVars == <<as, curins, entry>>

Reg(r) == <<"reg", r>>
Spill(s) == <<"spill", s>>
Imm(l) == <<"imm", l>>
Place == {Reg(r) : r \in kGPR} \cup {Spill(s) : s \in 1..NumSpills}

\* freeset_, cost_, spills_, the register, hint and spill slot of every
\* reference, the register that the last operation returned, and whether
\* there was a spill slot whenever one was needed; what the code emitted so
\* far relies on; and, as history that no operation reads, whether an
\* instruction lost an operand (Clash, below).
AsmState ==
  [free : SUBSET kGPR, cost : [kGPR -> Ref \cup {0}], spills : SUBSET (1..NumSpills),
   reg : [Ref -> kGPR \cup {NoReg}], hint : [Ref -> kGPR \cup {NoReg}],
   spill : [Ref -> 0..NumSpills], r : kGPR \cup {NoReg}, ok : BOOLEAN,
   need : SUBSET (Place \X Ref), wrong : BOOLEAN, clash : BOOLEAN]

canRemat(ref) == ref < 0
is32BitLiteral(ref) == ref \in SmallLits
isReg(A, ref) == A.reg[ref] # NoReg

\* The hint is returned as a bool, so that every register but eax is ecx.
getHint(r) == IF r = 0 THEN 0 ELSE 1

-----------------------------------------------------------------------------
(***************************************************************************)
(* Machine instructions.  The code grows downwards: what is emitted last   *)
(* runs first.  The effect of an instruction is kept as the condition      *)
(* under which the code from here on is right: the values that must be in  *)
(* registers and spill slots, and whether one of them was destroyed.       *)
(***************************************************************************)

\* The operands are needed where an instruction looks for them; immediates
\* are part of the instruction.
InPlaces(use) == {u \in use : u[1][1] # "imm"}

\* move, load_u64 and store_u64 of spill slots, loadi_u64, LEA of the base:
\* d gets the content of s.
Copy(A, d, s) ==
  LET moved == {n \in A.need : n[1] = d}
  IN  [A EXCEPT !.need = (@ \ moved) \cup InPlaces({<<s, n[2]>> : n \in moved}),
                !.wrong = @ \/ (s[1] = "imm" /\ \E n \in moved : n[2] # s[2])]

\* An instruction that defines the value val in register d from the
\* operands use, and destroys the registers of clobber.
Compute(A, d, val, use, clobber) ==
  [A EXCEPT !.need = {n \in @ : n[1] # Reg(d)} \cup InPlaces(use),
            !.wrong = @ \/ \E n \in A.need : \/ n[1] = Reg(d) /\ n[2] # val
                                            \/ n[1] \in clobber]

\* A store to the stack or heap, or a comparison.
Use(A, use) == [A EXCEPT !.need = @ \cup InPlaces(use)]

\* restoreSnapshot takes a value from its spill slot if it has one.
RestoreLoc(A, ref) == IF A.spill[ref] # 0 THEN Spill(A.spill[ref]) ELSE Reg(A.reg[ref])

\* Four instructions allocate an operand without excluding the register of
\* another one.  The history records when that register was taken.
Clash(A, c) == [A EXCEPT !.clash = @ \/ c]

\* A guard: a conditional jump to the exit stub of its snapshot.
Guard(A, snap) == Use(A, {<<RestoreLoc(A, snap[k]), snap[k]>> : k \in DOMAIN snap})

-----------------------------------------------------------------------------
(***************************************************************************)
(* Register allocation.                                                    *)
(***************************************************************************)

freeReg(A, r) == [A EXCEPT !.free = @ \cup {r}, !.r = r]

\* Plausible error: the register is not removed from freeset_.
TakeFree(A, ref, r) ==
  [A EXCEPT !.reg[ref] = r, !.hint[ref] = NoReg, !.cost[r] = ref, !.r = r]

\* setReg, and the register is taken with the cost of its reference.
Take(A, ref, r) ==
  [A EXCEPT !.reg[ref] = r, !.hint[ref] = NoReg, !.free = @ \ {r}, !.cost[r] = ref, !.r = r]

SetHint(A, ref, r) == [A EXCEPT !.reg[ref] = NoReg, !.hint[ref] = r]

\* spill: the slot of ref, a fresh one if it has none (SpillSet::alloc takes
\* the lowest; without any left, the program ends).
SpillSlot(A, ref) ==
  IF A.spill[ref] # 0 THEN A
  ELSE IF A.spills = {} THEN [A EXCEPT !.ok = FALSE]
  ELSE [A EXCEPT !.spill[ref] = Min(A.spills), !.spills = @ \ {Min(A.spills)}]

rematConstant(A, ref) ==
  LET r == A.reg[ref]
  IN  Copy(SetHint(freeReg(A, r), ref, NoReg), Reg(r), Imm(ref))

\* Plausible error: the value is not loaded back.
RestoreForgotten(A, ref) ==
  IF canRemat(ref) THEN rematConstant(A, ref)
  ELSE LET B == SpillSlot(A, ref) IN SetHint(freeReg(B, B.reg[ref]), ref, B.reg[ref])

\* The register of ref becomes free; before this point of the trace its
\* value is in the spill slot.
restoreReg(A, ref) ==
  IF canRemat(ref) THEN rematConstant(A, ref)
  ELSE LET B == SpillSlot(A, ref)
           r == B.reg[ref]
       IN  Copy(SetHint(freeReg(B, r), ref, r), Reg(r), Spill(B.spill[ref]))

\* MINCOST: the register whose value has the lowest reference.
evictReg(A, allow) ==
  restoreReg(A, Min({A.cost[r] : r \in allow}))

allocRef(A, ref, allow) ==
  LET pick == A.free \cap allow
      h == getHint(A.hint[ref])
      hinted == A.hint[ref] # NoReg
  IN  IF pick = {} THEN LET B == evictReg(A, allow) IN Take(B, ref, B.r)
      ELSE IF hinted /\ h \in pick THEN Take(A, ref, h)
      ELSE IF hinted /\ h \in allow /\ canRemat(A.cost[h])
           THEN Take(rematConstant(A, A.cost[h]), ref, h)
      ELSE Take(A, ref, Min(pick))

alloc1(A, ref, allow) ==
  IF isReg(A, ref) THEN [A EXCEPT !.r = A.reg[ref]] ELSE allocRef(A, ref, allow)

\* pickReg and allocScratchReg: a register that is used within one
\* instruction and not marked as taken.
allocScratchReg(A, allow) ==
  LET pick == A.free \cap allow
  IN  IF pick = {} THEN evictReg(A, allow) ELSE [A EXCEPT !.r = Max(pick)]

\* The definition of ref frees its register; a value that has a spill slot
\* is stored there (saveReg).
SetReg(A, ref) == [A EXCEPT !.reg[ref] = A.r, !.hint[ref] = NoReg]
pickDest(A, ref, allow) ==
  LET h == getHint(A.hint[ref])
  IN  IF isReg(A, ref) THEN freeReg(A, A.reg[ref])
      ELSE SetReg(IF A.hint[ref] # NoReg /\ h \in A.free \cap allow THEN [A EXCEPT !.r = h]
                  ELSE allocScratchReg(A, allow), ref)
saveReg(A, ref) == IF A.spill[ref] = 0 THEN A ELSE Copy(A, Spill(A.spill[ref]), Reg(A.r))
destReg(A, ref, allow) == saveReg(pickDest(A, ref, allow), ref)

evictSet(A, r) == IF r \in A.free THEN A ELSE restoreReg(A, A.cost[r])

evictConstant(A, r) ==
  IF r \notin A.free /\ canRemat(A.cost[r]) THEN rematConstant(A, A.cost[r]) ELSE A
evictConstants(A) ==
  LET at[n \in 0..NumRegs] == IF n = 0 THEN A ELSE evictConstant(at[n - 1], n - 1)
  IN  at[NumRegs]

\* The value of lref goes to register dest (two-address instructions).
MoveTo(A, dest) == IF A.r = dest THEN A ELSE Copy(A, Reg(dest), Reg(A.r))
allocLeft(A, dest, lref) ==
  IF ~ isReg(A, lref) /\ canRemat(lref)
  THEN rematConstant([A EXCEPT !.reg[lref] = dest], lref)
  ELSE LET H == IF A.hint[lref] = NoReg THEN [A EXCEPT !.hint[lref] = dest] ELSE A
       IN  MoveTo(IF isReg(A, lref) THEN [A EXCEPT !.r = A.reg[lref]]
                  ELSE allocRef(H, lref, kGPR), dest)

\* An operand that is in a register, or an immediate.
OperandOf(A, ref) == <<IF isReg(A, ref) THEN Reg(A.reg[ref]) ELSE Imm(ref), ref>>

-----------------------------------------------------------------------------
(***************************************************************************)
(* One operator per kind of instruction (emit): the state after the code   *)
(* for instruction n was emitted.                                          *)
(***************************************************************************)

Define(A, n, use) == Compute(A, A.r, n, use, {})
emitSLOAD(A, n) == Define(destReg(A, n, kGPR), n, {})

\* ADD, SUB, AND, ...; the right operand is a register or an immediate.
ArithTo(A, dest, n, l, r) ==
  allocLeft(Compute(A, dest, n, {<<Reg(dest), l>>, OperandOf(A, r)}, {}), dest, l)
ArithWith(A, n, l, r, allow, load) ==
  ArithTo(IF load THEN alloc1(A, r, allow \ {A.r}) ELSE A, A.r, n, l, r)
intArith(A, n, l, r) ==
  LET allow == IF isReg(A, r) THEN kGPR \ {A.reg[r]} ELSE kGPR
  IN  ArithWith(destReg(A, n, allow), n, l, r, allow, ~ isReg(A, r) /\ ~ is32BitLiteral(r))

\* IMUL with an immediate has three operands.
imulLiteral(A, n, l, k) ==
  LET Imul(B, C) == Compute(C, B.r, n, {<<Reg(C.r), l>>, <<Imm(k), k>>}, {})
      To(B) == Imul(B, alloc1(B, l, kGPR))
  IN  To(destReg(A, n, kGPR))

\* NEG, NOT and shifts by a constant.
intNegNot(A, n, l) ==
  LET To(B) == allocLeft(Define(B, n, {<<Reg(B.r), l>>}), B.r, l)
  IN  To(destReg(A, n, kGPR))

\* A shift by a variable amount, which must be in cl: a result in ecx is
\* moved there from another register, then the amount gets a register.
FromScratch(A) == Copy(A, Reg(ECX), Reg(A.r))
OutsideEcx(A) == IF A.r # ECX THEN A ELSE FromScratch(allocScratchReg(A, kGPR \ {ECX}))
ShiftAmount(A, r) ==
  IF ~ isReg(A, r) THEN allocRef(A, r, kGPR \ {ECX})
  ELSE IF A.reg[r] # ECX THEN allocScratchReg(A, {ECX}) ELSE A
\* Neither the result nor the value in ecx, which is not evicted, is
\* excluded when the amount gets a register.
ShiftClash(A, dest, right, l, r) ==
  (right = dest /\ l # r) \/ (right # ECX /\ ECX \notin A.free)
ShiftBy(A, dest, right, n, l, r) ==
  LET E == Compute(A, dest, n, {<<Reg(dest), l>>, <<Reg(ECX), r>>}, {})
  IN  allocLeft(IF right = ECX THEN E ELSE Copy(E, Reg(ECX), Reg(right)), dest, l)
bitshift(A, n, l, r) ==
  LET With(D, dest, right) ==
        ShiftBy(Clash(D, ShiftClash(D, dest, right, l, r)), dest, right, n, l, r)
      By(C, D) == With(D, C.r, IF isReg(C, r) THEN C.reg[r] ELSE D.reg[r])
      To(C) == By(C, ShiftAmount(C, r))
  IN  To(OutsideEcx(destReg(A, n, kGPR \ {ECX})))

\* IDIV: rdx:rax by a register; the quotient is in rax, the remainder in rdx.
divmod(A, n, l, r, result) ==
  LET other == IF result = EAX THEN EDX ELSE EAX
      allow == kGPR \ {EAX, EDX}
      By(E) == Compute(E, result, n, {<<Reg(EAX), l>>, <<Reg(E.r), r>>}, {Reg(other)})
      To(C) == IF C.r = result THEN C
               ELSE Copy(evictSet(C, result), Reg(C.r), Reg(result))
  IN  allocLeft(By(alloc1(To(destReg(evictSet(A, other), n, allow \cup {result})), r, allow)),
                EAX, l)

\* FLOAD of a field that FREF names.
fieldLoad(A, n, base) ==
  LET From(B, C) == Compute(C, B.r, n, {<<Reg(C.r), base>>}, {})
      To(B) == From(B, alloc1(B, base, kGPR))
  IN  To(destReg(A, n, kGPR))

insPLOAD(A, n, ptr, ofs) ==
  LET At(B, C, D) == Compute(Clash(D, D.reg[ptr] # C.r), B.r, n,
                             {<<Reg(C.r), ptr>>, <<Reg(D.r), ofs>>}, {})
      From(B, C) == At(B, C, alloc1(C, ofs, kGPR))
      To(B) == From(B, alloc1(B, ptr, kGPR))
  IN  To(destReg(A, n, kGPR))

\* snapshotAlloc: every value of the snapshot gets a register if one is
\* free, and a spill slot otherwise.
snapshotAlloc1(A, ref) ==
  IF canRemat(ref) \/ isReg(A, ref) \/ A.spill[ref] # 0 THEN A
  ELSE IF A.free # {} THEN allocRef(A, ref, kGPR)
  ELSE SpillSlot(A, ref)
snapshotAlloc(A, snap) ==
  LET at[n \in 0..Len(snap)] == IF n = 0 THEN A ELSE snapshotAlloc1(at[n - 1], snap[n])
  IN  at[Len(snap)]

\* Comparisons with an immediate and with a second register.  The guard
\* jumps after the comparison.
compareImm(A, l, k, snap) ==
  LET B == alloc1(snapshotAlloc(A, snap), l, kGPR)
  IN  Use(Guard(B, snap), {<<Reg(B.r), l>>, <<Imm(k), k>>})
\* Plausible error: the left operand's register is compared with itself.
CompareLeft(A, l, r, snap) ==
  LET B == alloc1(snapshotAlloc(A, snap), l, kGPR)
      C == alloc1(B, r, kGPR)
  IN  Use(Guard(Clash(C, C.reg[l] # B.r), snap), {<<Reg(B.r), l>>})

compare(A, l, r, snap) ==
  LET B == alloc1(snapshotAlloc(A, snap), l, kGPR)
      C == alloc1(B, r, kGPR)
  IN  Use(Guard(Clash(C, C.reg[l] # B.r), snap), {<<Reg(B.r), l>>, <<Reg(C.r), r>>})

\* The guard of an info table; what makes room for the second operand runs
\* between the comparison and the jump.
itblGuard(A, clos, itbl, snap) ==
  LET B == alloc1(snapshotAlloc(A, snap), clos, kGPR)
      C == Guard(B, snap)
      D == alloc1(C, itbl, kGPR)
  IN  IF is32BitLiteral(itbl) THEN Use(C, {<<Reg(B.r), clos>>})
      ELSE Use(Clash(D, D.reg[clos] # B.r), {<<Reg(B.r), clos>>, <<Reg(D.r), itbl>>})

\* heapCheck: the comparison uses the dedicated heap pointer only.
heapCheck(A, snap) == Guard(snapshotAlloc(A, snap), snap)

\* memstore of ref, at an address that needs the operands of base.
memstore(A, base, ref, allow) ==
  IF is32BitLiteral(ref) THEN Use(A, base \cup {<<Imm(ref), ref>>})
  ELSE LET B == alloc1(A, ref, allow) IN Use(B, base \cup {<<Reg(B.r), ref>>})

\* One after the other.
memstores(A, refs) ==
  LET at[n \in 0..Len(refs)] == IF n = 0 THEN A ELSE memstore(at[n - 1], {}, refs[n], kGPR)
  IN  at[Len(refs)]

\* SAVE: all values of the last snapshot are written to the stack.
save(A, snap) == memstores(A, snap)

\* NEW: the address, the fields from the last to the first, the info table.
insNew(A, n, fields, info) ==
  memstore(memstores(Define(destReg(A, n, kGPR), n, {}), Reverse(fields)), {}, info, kGPR)

\* UPDATE: the new value and the info table of an indirection.
insUpdate(A, old, new, ind) ==
  LET B == alloc1(A, old, kGPR)
      ptr == {<<Reg(B.r), old>>}
      allow == kGPR \ {B.r}
  IN  memstore(memstore(B, ptr, new, allow), ptr, ind, allow)

-----------------------------------------------------------------------------
(***************************************************************************)
(* assemble: from SAVE at the end of the trace back to its inputs.         *)
(***************************************************************************)

Nowhere == [reg |-> NoReg, spill |-> 0]
Root == [n \in 1..NumInputs |-> Nowhere]

\* Where a parent may leave its values: in distinct registers, in spill
\* slots, or both.
Inherited ==
  {e \in [1..NumInputs -> [reg : kGPR \cup {NoReg}, spill : 0..NumInputs]] :
     /\ \A n \in 1..NumInputs : e[n] # Nowhere /\ e[n].spill \in {0, n}
     /\ \A m, n \in 1..NumInputs : m # n /\ e[m].reg # NoReg => e[m].reg # e[n].reg}

\* setup: registers are free, literals and instructions have none.  A side
\* trace keeps the spill slots of its parent and takes its registers as
\* hints.
setup(e) ==
  [free |-> kGPR, cost |-> [r \in kGPR |-> 0],
   spills |-> 1..NumSpills \ {e[n].spill : n \in 1..NumInputs},
   reg |-> [ref \in Ref |-> NoReg],
   hint |-> [ref \in Ref |-> IF ref \in 1..NumInputs THEN e[ref].reg ELSE NoReg],
   spill |-> [ref \in Ref |-> IF ref \in 1..NumInputs THEN e[ref].spill ELSE 0],
   need |-> {}, wrong |-> FALSE, clash |-> FALSE, r |-> NoReg, ok |-> TRUE]

RAInit ==
  /\ entry \in Inherited \cup {Root}
  /\ as = setup(entry)
  /\ curins = NumIns

Before == 1..(curins - 1)

\* A is the state after the code for instruction curins.
Assemble(A) ==
  /\ as' = [A EXCEPT !.r = NoReg]
  /\ curins' = curins - 1
  /\ UNCHANGED entry

Middle(op) == as.ok /\ op \in Ops /\ NumInputs < curins /\ curins < NumIns

\* Nothing later uses instruction curins, which then need not define a value.
Unused == as.reg[curins] = NoReg /\ as.spill[curins] = 0

Snaps == {s \in SeqOf(Before, 2) : Len(s) > 0}

AsmSave ==
  /\ curins = NumIns
  /\ \E snap \in SeqOf(Before \cup Lits, 2) :
       Assemble(save(as, snap))

AsmArith ==
  /\ Middle("ADD")
  /\ \E l \in Before, r \in Before \cup Lits :
       Assemble(intArith(as, curins, l, r))

AsmMul ==
  /\ Middle("MUL")
  /\ \E l \in Before, r \in Before \cup Lits :
       Assemble(IF r \in SmallLits /\ ~ isReg(as, r) THEN imulLiteral(as, curins, l, r)
                ELSE intArith(as, curins, l, r))

AsmNeg ==
  /\ Middle("NEG")
  /\ \E l \in Before \cup Lits :
       Assemble(intNegNot(as, curins, l))

AsmDivMod ==
  /\ Middle("DIV")
  /\ \E l \in Before \cup Lits, r \in Before \cup Lits, result \in {EAX, EDX} :
       Assemble(divmod(as, curins, l, r, result))

AsmFload ==
  /\ Middle("FLOAD")
  /\ \E base \in Before :
       Assemble(fieldLoad(as, curins, base))

AsmGuard ==
  /\ Middle("GUARD") /\ Unused
  /\ \E l \in Before, k \in SmallLits, snap \in Snaps :
       Assemble(compareImm(as, l, k, snap))

AsmHeapCheck ==
  /\ Middle("HEAPCHK") /\ Unused
  /\ \E snap \in Snaps : Assemble(heapCheck(as, snap))

AsmNew ==
  /\ Middle("NEW")
  /\ \E fields \in SeqOf(Before, 2), info \in Lits :
       /\ Len(fields) = 2
       /\ Assemble(insNew(as, curins, fields, info))

AsmUpdate ==
  /\ Middle("UPDATE") /\ Unused
  /\ \E old \in Before, new \in Before, ind \in Lits :
       Assemble(insUpdate(as, old, new, ind))

AsmCompare ==
  /\ Middle("CMP") /\ Unused
  /\ \E l \in Before, r \in Before \cup BigLits, snap \in Snaps :
       Assemble(compare(as, l, r, snap))

AsmItblGuard ==
  /\ Middle("EQINFO") /\ Unused
  /\ \E clos \in Before, itbl \in Lits, snap \in Snaps :
       Assemble(itblGuard(as, clos, itbl, snap))

AsmPload ==
  /\ Middle("PLOAD")
  /\ \E p \in Before, o \in Before \cup BigLits :
       Assemble(insPLOAD(as, curins, p, o))

\* A shift by a variable amount.
AsmShift ==
  /\ Middle("SHL")
  /\ \E l \in Before, r \in Before :
       Assemble(bitshift(as, curins, l, r))

AsmInput ==
  /\ as.ok /\ entry = Root /\ curins \in 1..NumInputs
  /\ Assemble(emitSLOAD(as, curins))

\* The end of assemble: constants that are still in registers are loaded at
\* the entry, and mergeWithParent frees the registers of inherited values.
AsmFinish ==
  /\ as.ok /\ curins = (IF entry = Root THEN 0 ELSE NumInputs)
  /\ LET A == evictConstants(as)
     IN  as' = [A EXCEPT !.free = @ \cup {A.reg[n] : n \in {m \in 1..curins : isReg(A, m)}}]
  /\ curins' = -1
  /\ UNCHANGED entry

RANext ==
  \/ AsmSave \/ AsmArith \/ AsmMul \/ AsmNeg \/ AsmDivMod \/ AsmFload
  \/ AsmGuard \/ AsmHeapCheck \/ AsmNew \/ AsmUpdate
  \/ AsmCompare \/ AsmItblGuard \/ AsmPload \/ AsmShift
  \/ AsmInput \/ AsmFinish

RASpec == RAInit /\ [][RANext]_raVars

-----------------------------------------------------------------------------
(***************************************************************************)
(* What the code computes.                                                 *)
(***************************************************************************)

\* mergeWithParent brings an inherited value to its register and to its
\* spill slot, where it has them.
AtEntry(l, ref) ==
  entry # Root /\ ref \in 1..NumInputs /\ l \in {Reg(as.reg[ref]), Spill(as.spill[ref])}

\* The code finds every operand and every value of a snapshot where it looks
\* for them: no place is needed for two values, none is overwritten while it
\* is needed, no two values share a spill slot, and at the start of the trace
\* only what the parent leaves is needed.
Consistent(A) ==
  /\ ~ A.wrong
  /\ \A m, n \in A.need : m[1] = n[1] => m[2] = n[2]
  /\ \A p, q \in Ref : p # q /\ A.spill[p] # 0 => A.spill[p] # A.spill[q]
AtStart == curins = -1 => \A n \in as.need : AtEntry(n[1], n[2])

\* Every instruction has its operands in registers of their own, as a shift
\* has its amount in ecx.
CodeExact == as.ok => Consistent(as) /\ AtStart

\* Whatever the pressure on registers, the code is right for every trace in
\* which no instruction took the register of an operand for another: all
\* evictions, reloads, moves between instructions and values kept for exits
\* included.
CodeCorrect == as.ok /\ ~ as.clash => Consistent(as) /\ AtStart

\* The exception is no wider than it has to be: as soon as an instruction has
\* taken the register of an operand, a value is missing where the code looks
\* for it (compare, itblGuard, insPLOAD and bitshift in a crowded state).
ClashesCount == [][~ as.clash /\ as'.clash /\ as'.ok => ~ Consistent(as')]_raVars

\* A register is taken by exactly one value that is defined before this
\* point of the trace, and at the start of the trace all are free (the
\* assertion at the end of assemble).
RegistersExact == as.ok =>
  /\ \A r \in kGPR :
       {ref \in Lits \cup 1..curins : as.reg[ref] = r} = IF r \in as.free THEN {} ELSE {as.cost[r]}
  /\ curins = -1 => as.free = kGPR

=============================================================================
