----------------------------- MODULE OldRecord -----------------------------
(***************************************************************************)
(* The trace recorder of experiments/old-vm: IR and snapshots are built    *)
(* from the bytecodes that the interpreter is about to execute             *)
(* (Record.c, Snapshot.c), every instruction passing through the fold      *)
(* engine (OptimiseIR.c, first part).                                      *)
(*                                                                         *)
(* J is the JitState.  IR instructions have references 1, 2, ...,          *)
(* literals -1, -2, ...; 0 is no reference.  An emitter returns J with the *)
(* reference it answers at the end of J.out and its type in J.rt.          *)
(* J.written is the set of slots whose TRef has the WRITTEN flag.          *)
(***************************************************************************)
EXTENDS OldInterp, FiniteSetsExt

CONSTANTS
  InitialBase,   \* INITIAL_BASE
  MaxSlots       \* MAX_SLOTS

\* ir_mode: guards, instructions with an effect, and which operands are refs.
Guards == CompareOps \cup {"EQRET", "HEAPCHK"}
Effects == {"FRAME", "RET", "UPDATE", "SAVE"}
Loads == {"FLOAD", "SLOAD", "ILOAD", "RLOAD"}
RefOps == ArithOps \cup CompareOps \cup {"EQRET", "PHI", "UPDATE"}
Op1IsRef(o) == o \in RefOps \cup {"FREF", "FLOAD", "ILOAD", "NEW"}
Op2IsRef(o) == o \in RefOps

Ins(o, t, a, b) ==
  [o |-> o, t |-> t, op1 |-> a, op2 |-> b, phi |-> FALSE, sunk |-> FALSE]
IR(J, ref) == IF ref < 0 THEN J.lits[-ref] ELSE J.ir[ref]
nins(J) == Len(J.ir) + 1
\* J->chain[op] and the prev fields: the instructions with an opcode.
Chain(J, o) == {r \in DOMAIN J.ir : J.ir[r].o = o}
ChainHead(J, o) == Max(Chain(J, o) \cup {0})
Answer(J, ref, t) == [J EXCEPT !.out = Append(@, ref), !.rt = t]
\* The k-th answer from the end.
Out(J, k) == J.out[Len(J.out) + 1 - k]
Fresh(J) == [J EXCEPT !.out = << >>]

recordSetup(m) ==
  [ir |-> << >>, lits |-> << >>, slot |-> [s \in 0..(MaxSlots - 1) |-> 0],
   written |-> {}, baseslot |-> InitialBase + 1, minslot |-> InitialBase - 2,
   maxslot |-> m.top - m.base, snap |-> << >>, heap |-> << >>, nloop |-> 0,
   last |-> 0, depth |-> 0, startpc |-> m.pc, startbase |-> m.base, pc |-> m.pc,
   out |-> << >>, rt |-> "VOID", abort |-> FALSE]

(***************************************************************************)
(* Snapshots.                                                              *)
(***************************************************************************)
\* Only the slots that the trace has written.
snapshotSlots(J) ==
  LET ss == {s \in J.minslot..(J.baseslot + J.maxslot - 1) :
               J.slot[s] # 0 /\ s \in J.written}
  IN [k \in {s - InitialBase : s \in ss} |-> J.slot[k + InitialBase]]

snapshotStack(J) ==
  [ref |-> nins(J), ent |-> snapshotSlots(J), pc |-> J.pc,
   base |-> J.baseslot - InitialBase, minslot |-> J.minslot - InitialBase,
   nslots |-> J.baseslot + J.maxslot - J.minslot]

\* A snapshot replaces the last one if there is no instruction in between.
addSnapshot(J) ==
  LET n == Len(J.snap)
      kept == IF n > 0 /\ J.snap[n].ref = nins(J) THEN SubSeq(J.snap, 1, n - 1) ELSE J.snap
  IN [J EXCEPT !.snap = Append(kept, snapshotStack(J))]

(***************************************************************************)
(* Emitting.                                                               *)
(***************************************************************************)
appendIR(J, ins) == Answer([J EXCEPT !.ir = Append(@, ins)], nins(J), ins.t)
emitIR(J, ins) == appendIR(IF ins.o \in Guards THEN addSnapshot(J) ELSE J, ins)

emitLit(J, lit) ==
  LET same == {k \in DOMAIN J.lits : J.lits[k] = lit}
  IN IF same # {} THEN Answer(J, -Min(same), lit.t)
     ELSE Answer([J EXCEPT !.lits = Append(@, lit)], -(Len(J.lits) + 1), lit.t)
emitKWord(J, w, t) == emitLit(J, [o |-> "KWORD", t |-> t, v |-> w])
emitKBaseOffset(J, offs) == emitLit(J, [o |-> "KBASEO", t |-> "PTR", v |-> offs])

RECURSIVE followAbstractINDs(_, _)
followAbstractINDs(J, ref) ==
  IF IR(J, ref).o = "NEW" /\ J.heap[IR(J, ref).op2].ind # 0
    THEN followAbstractINDs(J, J.heap[IR(J, ref).op2].ind) ELSE ref

\* The last duplicate; there can be none before an argument.
optCSE(J, ins) ==
  LET lim == IF Op2IsRef(ins.o) THEN Max({ins.op1, ins.op2, 0}) ELSE Max({ins.op1, 0})
      dup == {r \in Chain(J, ins.o) :
                r > lim /\ J.ir[r].op1 = ins.op1 /\ J.ir[r].op2 = ins.op2}
  IN Max(dup \cup {0})

\* A field of an object that the trace itself allocates is known.
optForward(J, ins) ==
  LET f == IR(J, ins.op1)
  IN IF ins.o # "FLOAD" THEN 0
     ELSE IF IR(J, f.op1).o = "NEW" THEN J.heap[IR(J, f.op1).op2].fields[f.op2]
     ELSE optCSE(J, ins)

\* The reference that already has the value, if any.
foldDefault(J, ins) ==
  IF ins.o \in Effects \cup {"NEW", "HEAPCHK"} THEN 0
  ELSE IF ins.o \in Loads \ {"ILOAD"} THEN optForward(J, ins)
  ELSE optCSE(J, ins)

\* Heap checks are folded into one, but not across the loop boundary.
FoldedCheck(J) ==
  LET ref == ChainHead(J, "HEAPCHK")
  IN IF J.nloop # 0 /\ ref < J.nloop THEN 0 ELSE ref

\* An update of an object that the trace allocates is remembered.
noteUpdate(J, ins) ==
  IF ins.o = "UPDATE" /\ IR(J, ins.op1).o = "NEW"
    THEN [J EXCEPT !.heap[IR(J, ins.op1).op2].ind = ins.op2] ELSE J

\* m is the machine: the heap words of static closures are read from it.
optFold(J, m, ins) ==
  LET o == ins.o
      left == followAbstractINDs(J, ins.op1)
      slot == J.slot[ins.op1 + InitialBase]
      f == IR(J, ins.op1)
      chk == FoldedCheck(J)
      old == foldDefault(J, ins)
  IN CASE o \in {"EQ", "EQRET"} /\ ins.op1 = ins.op2 -> Answer(J, 0, "UNK")
       [] o = "ILOAD" /\ ins.op1 < 0 -> emitKWord(J, Word(m, IR(J, ins.op1).v), "INFO")
       [] o = "ILOAD" /\ ins.op1 > 0 /\ IR(J, left).o = "NEW" ->
            Answer(J, IR(J, left).op1, "UNK")
       [] o = "SLOAD" /\ slot # 0 -> Answer(J, slot, IR(J, slot).t)
       [] o = "HEAPCHK" /\ chk # 0 ->
            Answer([J EXCEPT !.ir[chk].op1 = @ + ins.op1], chk, "UNK")
       [] o = "FLOAD" /\ f.op1 < 0 -> emitKWord(J, Word(m, IR(J, f.op1).v + f.op2), "U32")
       [] OTHER -> IF old # 0 THEN Answer(J, old, IR(J, old).t)
                   ELSE emitIR(noteUpdate(J, ins), ins)

(***************************************************************************)
(* Slots.                                                                  *)
(***************************************************************************)
setSlot(J, s, ref) ==
  LET k == J.baseslot + s
  IN [J EXCEPT !.slot[k] = ref,
               !.written = IF ref = 0 THEN @ \ {k} ELSE @ \cup {k},
               !.maxslot = Max({@, s + 1})]

\* The slot is not marked as written.
loadedSlot(J, s) ==
  [J EXCEPT !.slot[J.baseslot + s] = Out(J, 1), !.maxslot = Max({@, s + 1})]
emitLoadSlot(J, s) ==
  loadedSlot(emitIR(J, Ins("SLOAD", "UNK", J.baseslot + s - InitialBase, 0)), s)

getSlot(J, s) ==
  LET ref == J.slot[J.baseslot + s]
  IN IF ref # 0 THEN Answer(J, ref, IR(J, ref).t) ELSE emitLoadSlot(J, s)

RECURSIVE getSlots(_, _)
getSlots(J, rs) == IF rs = << >> THEN J ELSE getSlots(getSlot(J, Head(rs)), Tail(rs))

RECURSIVE setSlots(_, _, _)
setSlots(J, from, refs) ==
  IF refs = << >> THEN J ELSE setSlots(setSlot(J, from, Head(refs)), from + 1, Tail(refs))

Zeros(n) == [k \in 1..n |-> 0]
clearSlots(J, from, upto) ==
  IF from >= upto THEN J ELSE setSlots(J, from, Zeros(upto - from))

(***************************************************************************)
(* recordIns: m is the machine before the instruction i is executed.       *)
(***************************************************************************)
Abort(J) == [J EXCEPT !.abort = TRUE]
Negate(o) ==
  CASE o = "LT" -> "GE" [] o = "GE" -> "LT" [] o = "LE" -> "GT" [] o = "GT" -> "LE"
    [] o = "EQ" -> "NE" [] o = "NE" -> "EQ"

\* An instruction on the last two answers; the last answer, or the last n, to
\* slots; the registers from a to b.
binary(J, m, o, t) == optFold(J, m, Ins(o, t, Out(J, 2), Out(J, 1)))
store(J, s) == setSlot(J, s, Out(J, 1))
storeAll(J, from, n) == setSlots(J, from, SubSeq(J.out, Len(J.out) + 1 - n, Len(J.out)))
Registers(a, b) == [n \in 1..(b - a + 1) |-> a + n - 1]

\* The guard is the comparison that holds now.
rec_compare(J, m, i) ==
  LET o == IF evalNumComp(Reg(m, i.a), Reg(m, i.d), i.op) THEN i.op ELSE Negate(i.op)
  IN binary(getSlot(getSlot(J, i.a), i.d), m, o, "CMP")

rec_arith(J, m, i) == store(binary(getSlot(getSlot(J, i.b), i.c), m, i.op, "I32"), i.a)
rec_MOV(J, i) == store(getSlot(J, i.d), i.a)
rec_LOADSLF(J, i) == store(getSlot(J, -1), i.a)
rec_LOADK(J, i) == store(emitKWord(J, i.lit, i.t), i.a)

loadedResult(J) == [J EXCEPT !.last = Out(J, 1)]
rec_MOV_RES(J, i) ==
  IF J.last # 0 THEN setSlot(J, i.a, J.last)
  ELSE store(loadedResult(emitIR(J, Ins("RLOAD", "UNK", 0, 0))), i.a)

emitFRef(J, m, offs) == optFold(J, m, Ins("FREF", "PTR", Out(J, 1), offs))
emitFLoad(J, m) == optFold(J, m, Ins("FLOAD", "UNK", Out(J, 1), 0))
rec_LOADF(J, m, i, reg, offs) ==
  store(emitFLoad(emitFRef(getSlot(J, reg), m, offs), m), i.a)

\* On the answers with the numbers x and y.
emitILoad(J, m, x) == optFold(J, m, Ins("ILOAD", "INFO", J.out[x], 0))
emitEQ(J, m, x, y) == optFold(J, m, Ins("EQ", "CMP", J.out[x], J.out[y]))

\* The closure in a register has the info table it has now: the closure is
\* loaded before its literal by an EVAL, after it by a CALLT.
guardEval(J, m, i) ==
  emitEQ(emitILoad(emitKWord(getSlot(J, i.a), Word(m, Reg(m, i.a)), "INFO"), m, 1), m, 3, 2)
guardFunction(J, m, i) ==
  emitEQ(emitILoad(getSlot(emitKWord(J, Word(m, Reg(m, i.a)), "INFO"), i.a), m, 2), m, 3, 1)

\* The slots of the caller that are not live out are forgotten.
RECURSIVE clearDead(_, _, _, _)
clearDead(J, s, t, live) ==
  IF s >= t THEN J
  ELSE clearDead(IF s \in live THEN J ELSE setSlot(J, s, 0), s + 1, t, live)

\* The frame starts `size' slots higher; FRAME tells the unroller.
pushFrame(J, size, frame) ==
  emitIR([J EXCEPT !.baseslot = @ + size, !.maxslot = frame],
         Ins("FRAME", "VOID", size, frame))

evalLits(J, m, t, b) ==
  emitKWord(emitKBaseOffset(emitKWord(emitKWord(emitKBaseOffset(J, b), m.pc + 1, "PC"),
                                      UpdClosure, "CLOS"), b + t + 3), UpdReturn, "PC")
evalSlots(J, t) ==
  setSlots(J, t, <<Out(J, 5), Out(J, 4), Out(J, 3), J.out[1], 0, Out(J, 2), Out(J, 1),
                   J.out[1]>>)
deeper(J, frames) == [J EXCEPT !.depth = @ + frames]

\* The thunk is the first answer.
recordBuildEvalFrame(J, m, i, info) ==
  LET t == m.top - m.base
      built == evalSlots(evalLits(J, m, t, m.base - J.startbase), t)
  IN deeper(clearSlots(pushFrame(clearDead(built, 0, t, i.live), t + 8, info.framesize),
                       0, info.framesize), 2)

\* Too many nested stack frames.  The code measures from the trace's base.
TooDeep(J, top) == top - J.startbase >= MaxSlots

evaluated(J) == [J EXCEPT !.last = J.out[1]]
rec_EVAL(J, m, i) ==
  LET node == Reg(m, i.a)
      info == InfoOf(m, node)
  IN IF info.type = "IND" THEN Abort(J)
     ELSE IF closure_HNF(m, node) THEN evaluated(guardEval(J, m, i))
     ELSE IF TooDeep(J, m.top + 8 + info.framesize) THEN Abort(J)
     ELSE recordBuildEvalFrame(guardEval(J, m, i), m, i, info)

\* The frame that applies the result, and the head of the one on top of it; the
\* function is the second answer.
apFrame(J, offs, extra, top) ==
  setSlot(store(emitKWord(store(emitKBaseOffset(
                              store(emitKWord(J, ApContClosure(extra), "CLOS"), -1),
                            offs), top),
                          ApContReturn(extra), "PC"), top + 1),
          top + 2, J.out[2])
\* The extra arguments are the answers from the fifth on.
keepExtra(J, extra) == setSlot(setSlots(J, 0, SubSeq(J.out, 5, 4 + extra)), extra, 0)

\* With too many arguments, the immediate ones are copied up.  The code copies
\* all of them, and clears the slots above.
rec_overapplication(J, m, i, info) ==
  LET extra == i.n - info.arity
      top == extra + 1
      args == getSlots(guardFunction(J, m, i), Registers(info.arity, i.n - 1))
      copied == storeAll(getSlots(apFrame(args, m.base - J.startbase, extra, top),
                                  Registers(0, i.n - 1)), top + 3, i.n)
  IN IF TooDeep(J, m.base + top + 3 + info.framesize) THEN Abort(J)
     ELSE deeper(clearSlots(pushFrame(keepExtra(copied, extra), top + 3, info.framesize),
                            i.n, info.framesize), 1)

tailCall(J, info) == [setSlot(J, -1, J.out[2]) EXCEPT !.maxslot = info.framesize]
rec_CALLT(J, m, i) ==
  LET info == InfoOf(m, Reg(m, i.a))
  IN IF info.type # "FUN" \/ info.arity > i.n THEN Abort(J)
     ELSE IF info.arity < i.n THEN rec_overapplication(J, m, i, info)
     ELSE IF TooDeep(J, m.base + info.framesize) THEN Abort(J)
     ELSE emitIR(clearSlots(tailCall(guardFunction(J, m, i), info), i.n, info.framesize),
                 Ins("FRAME", "VOID", 0, info.framesize))

\* The function is the first answer.
callFrame(J, m, t) ==
  setSlot(store(emitKWord(store(emitKBaseOffset(J, m.base - J.startbase), t),
                          m.pc + 1, "PC"), t + 1),
          t + 2, J.out[1])
rec_CALL(J, m, i) ==
  LET info == InfoOf(m, Reg(m, i.a))
      t == m.top - m.base
      args == getSlots(callFrame(getSlot(J, i.a), m, t), i.args)
      n == Len(i.args)
  IN IF info.type # "FUN" \/ info.arity # n \/ TooDeep(J, m.top + 3 + info.framesize)
       THEN Abort(J)
     ELSE deeper(clearSlots(pushFrame(storeAll(args, t + 3, n), t + 3, info.framesize),
                            n, info.framesize), 1)

rec_UPDATE(J, m, i) == binary(getSlot(getSlot(J, i.a), i.d), m, "UPDATE", "VOID")

\* A return forgets its frame; the result waits in last_result.
guardReturn(J, m, i) ==
  binary(emitKWord(getSlot(getSlot(clearDead(J, 0, J.maxslot, {i.a}), i.a), -2),
                   Reg(m, -2), "PC"), m, "EQRET", "CMP")
popFrame(J, diff) ==
  LET base == J.baseslot - diff
  IN [setSlots(J, -3, <<0, 0, 0>>) EXCEPT
        !.last = J.out[1], !.depth = @ - 1, !.baseslot = base, !.maxslot = diff - 3,
        !.minslot = Min({@, base - 3})]
rec_RET(J, m, i) ==
  LET diff == m.base - (Reg(m, -3) - StackStart)
  IN IF J.depth = 0 THEN Abort(J)
     ELSE emitIR(popFrame(guardReturn(J, m, i), diff), Ins("RET", "VOID", diff, 0))

newHeapInfo(J, fields) ==
  [J EXCEPT !.heap = Append(@, [fields |-> fields, ind |-> 0, offs |-> 0])]

\* r(B) holds the info table that is expected: the first answer.
guardInfoReg(J, m, i) ==
  emitEQ(getSlot(emitKWord(J, Reg(m, i.b), "INFO"), i.b), m, 2, 1)
emitNEW(J, m, i) == store(optFold(J, m, Ins("NEW", "CLOS", J.out[1], Len(J.heap))), i.a)
emitHEAPCHK(J, m, n) == optFold(J, m, Ins("HEAPCHK", "CMP", n, 0))
withFields(J, n) == newHeapInfo(J, SubSeq(J.out, Len(J.out) + 1 - n, Len(J.out)))

rec_ALLOC(J, m, i) ==
  LET n == Len(i.args)
      fields == getSlots(guardInfoReg(J, m, i), i.args)
  IN emitNEW(emitHEAPCHK(withFields(fields, n), m, n + 1), m, i)

\* ALLOC1 checks the heap before it reads the field.
rec_ALLOC1(J, m, i) ==
  emitNEW(withFields(getSlot(emitHEAPCHK(guardInfoReg(J, m, i), m, 2), i.args[1]), 1), m, i)

\* The nice thing is, it does not matter which case is selected.
rec_CASE(J, m, i) ==
  emitEQ(emitKWord(emitILoad(getSlot(J, i.a), m, 1), Word(m, Reg(m, i.a)), "INFO"), m, 2, 3)

recordIns(J0, m) ==
  LET i == prog.code[m.pc]
      J == [Fresh(J0) EXCEPT !.pc = m.pc]
  IN CASE i.op \in CompareOps -> rec_compare(J, m, i)
       [] i.op \in ArithOps -> rec_arith(J, m, i)
       [] i.op = "FUNC" -> J
       [] i.op = "MOV" -> rec_MOV(J, i)
       [] i.op = "LOADSLF" -> rec_LOADSLF(J, i)
       [] i.op = "LOADK" -> rec_LOADK(J, i)
       [] i.op = "MOV_RES" -> rec_MOV_RES(J, i)
       [] i.op = "LOADF" -> rec_LOADF(J, m, i, i.b, i.c)
       [] i.op = "LOADFV" -> rec_LOADF(J, m, i, -1, i.d)
       [] i.op = "EVAL" -> rec_EVAL(J, m, i)
       [] i.op = "CALLT" -> rec_CALLT(J, m, i)
       [] i.op = "CALL" -> rec_CALL(J, m, i)
       [] i.op = "UPDATE" -> rec_UPDATE(J, m, i)
       [] i.op \in {"RET1", "IRET"} -> rec_RET(J, m, i)
       [] i.op = "ALLOC" -> rec_ALLOC(J, m, i)
       [] i.op = "ALLOC1" -> rec_ALLOC1(J, m, i)
       [] i.op = "CASE" -> rec_CASE(J, m, i)
       [] i.op = "STOP" -> Abort(J)

=============================================================================
