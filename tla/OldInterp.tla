----------------------------- MODULE OldInterp -----------------------------
(***************************************************************************)
(* The bytecode interpreter of experiments/old-vm (InterpThreaded.c) on    *)
(* one thread: the instructions its trace recorder understands.            *)
(*                                                                         *)
(* A word is an integer whose range tells what it is: a pointer into the   *)
(* heap is HeapStart + i, one into the stack StackStart + i; info tables   *)
(* and code addresses are numbers below.  An instruction takes one code    *)
(* address, whatever the number of words it occupies: the liveness mask of *)
(* an EVAL and the targets of a branch are fields of it.                   *)
(***************************************************************************)
EXTENDS Integers, Sequences, SequencesExt

\* The loaded program: code (address |-> instruction), infos (info table |->
\* [type, size, tag, code, framesize, arity]) and the machine it starts in.
VARIABLE prog

HeapStart == 100000
StackStart == 90000

\* What the runtime itself provides (MiscClosures.c): the indirection's info
\* table, the closure and code of an update frame, those of the frame that
\* applies a result to the n arguments saved in it, and the partial
\* application's info table.
IndInfo == 60
PapInfo == 64
UpdClosure == HeapStart + 1
UpdReturn == 101
ApContClosure(n) == HeapStart + 1 + n
ApContReturn(n) == 103 + 2 * n

\* The machine: pc, base, top, the stack, the heap up to hp, and the result of
\* the last return.  base and top are stack indices.
Reg(m, r) == m.stk[m.base + r]
SetReg(m, r, w) == [m EXCEPT !.stk[m.base + r] = w]
Goto(m, p) == [m EXCEPT !.pc = p]
NextIns(m) == Goto(m, m.pc + 1)
Regs(m, rs) == [k \in DOMAIN rs |-> Reg(m, rs[k])]

IsPtr(w) == w > HeapStart
Word(m, p) == m.mem[p - HeapStart]
SetWord(m, p, w) == [m EXCEPT !.mem[p - HeapStart] = w]
InfoOf(m, p) == prog.infos[Word(m, p)]
closure_HNF(m, p) == InfoOf(m, p).type \in {"CONSTR", "FUN", "PAP", "AP_CONT"}

\* Bump the heap pointer; the object starts where it pointed.
hpOf(m) == HeapStart + Len(m.mem) + 1
allocClosure(m, words) == [m EXCEPT !.mem = @ \o words]

evalNumComp(x, y, op) ==
  CASE op = "LT" -> x < y [] op = "GE" -> x >= y [] op = "LE" -> x <= y
    [] op = "GT" -> x > y [] op = "EQ" -> x = y [] op = "NE" -> x # y

evalArith(x, y, op) ==
  CASE op = "ADD" -> x + y [] op = "SUB" -> x - y [] op = "MUL" -> x * y

op_arith(m, i) == NextIns(SetReg(m, i.a, evalArith(Reg(m, i.b), Reg(m, i.c), i.op)))

\* A comparison is followed by the jump it takes when it holds.
op_compare(m, i) ==
  IF evalNumComp(Reg(m, i.a), Reg(m, i.d), i.op) THEN Goto(m, i.to) ELSE NextIns(m)

op_MOV(m, i) == NextIns(SetReg(m, i.a, Reg(m, i.d)))
op_LOADK(m, i) == NextIns(SetReg(m, i.a, i.lit))
op_LOADSLF(m, i) == NextIns(SetReg(m, i.a, Reg(m, -1)))
op_LOADF(m, i) == NextIns(SetReg(m, i.a, Word(m, Reg(m, i.b) + i.c)))
op_LOADFV(m, i) == NextIns(SetReg(m, i.a, Word(m, Reg(m, -1) + i.d)))
op_MOV_RES(m, i) == NextIns(SetReg(m, i.a, m.res))

\* ALLOC1 and ALLOC: the info table is in a register, like the fields.
op_ALLOC(m, i) ==
  NextIns(SetReg(allocClosure(m, <<Reg(m, i.b)>> \o Regs(m, i.args)), i.a, hpOf(m)))

\* Fall through to the default when the tag has no target.
op_CASE(m, i) ==
  LET tag == InfoOf(m, Reg(m, i.a)).tag
  IN IF tag <= Len(i.targets) THEN Goto(m, i.targets[tag]) ELSE NextIns(m)

RECURSIVE followInd(_, _)
followInd(m, p) == IF InfoOf(m, p).type = "IND" THEN followInd(m, Word(m, p + 1)) ELSE p

\* Write the words ws to the stack from index k up.
Poke(m, k, ws) ==
  [m EXCEPT !.stk = [s \in DOMAIN @ |->
                       IF s \in k..(k + Len(ws) - 1) THEN ws[s - k + 1] ELSE @[s]]]
EnterCode(m, base, info) ==
  [m EXCEPT !.base = base, !.top = base + info.framesize, !.pc = info.code]

\* An update frame for the thunk t at stack index `at', above the frame at
\* `link', and the frame of the thunk's own code on top of it.
enterThunk(m, link, ret, t, mark, at) ==
  EnterCode(Poke(m, at, <<StackStart + link, ret, UpdClosure, t, mark, StackStart + at + 3,
                          UpdReturn, t>>),
            at + 8, InfoOf(m, t))

op_EVAL(m, i) ==
  LET t == followInd(m, Reg(m, i.a))
  IN IF closure_HNF(m, t) THEN [NextIns(m) EXCEPT !.res = t]
     ELSE enterThunk(m, m.base, m.pc + 1, t, 1234, m.top)

op_UPDATE(m, i) ==
  LET old == Reg(m, i.a)
  IN NextIns(SetWord(SetWord(m, old, IndInfo), old + 1, Reg(m, i.d)))

returnWith(m, w) ==
  [m EXCEPT !.res = w, !.top = m.base - 3, !.pc = Reg(m, -2), !.base = Reg(m, -3) - StackStart]
do_return(m, i) == returnWith(m, Reg(m, i.a))

\* A function value is a FUN, or a partial application: the number of its
\* arguments, the function and the arguments.
IsPap(m, p) == InfoOf(m, p).type = "PAP"
funOf(m, p) == IF IsPap(m, p) THEN Word(m, p + 2) ELSE p
papArgs(m, p) ==
  IF IsPap(m, p) THEN [k \in 1..Word(m, p + 1) |-> Word(m, p + 2 + k)] ELSE << >>

\* Too few arguments: return a partial application.
callt_partial(m, f, args) ==
  returnWith(allocClosure(m, <<PapInfo, Len(args), f>> \o args), hpOf(m))
\* Too many: the frame becomes one that applies the result to the rest.  Both
\* copies start at register 0, even if the function brings arguments along.
callt_over(m, f, pap, extra) ==
  LET arity == InfoOf(m, f).arity
      top == m.base + extra + 1
      imm == [k \in 1..arity |-> Reg(m, k - 1)]
      rest == [k \in 1..extra |-> Reg(m, arity + k - 1)]
  IN EnterCode(Poke(Poke(m, m.base - 1, <<ApContClosure(extra)>> \o rest),
                    top, <<StackStart + m.base, ApContReturn(extra), f>> \o pap \o imm),
               top + 3, InfoOf(m, f))
\* A thunk is evaluated first, above a frame that applies its value.
callt_thunk(m, n, t) ==
  enterThunk(SetReg(m, -1, ApContClosure(n)), m.base, ApContReturn(n), t, 0, m.base + n)

\* A tail call; the arguments of the call are in registers 0 to n - 1.
op_CALLT(m, i) ==
  LET node == followInd(m, Reg(m, i.a))
      f == funOf(m, node)
      info == InfoOf(m, f)
      args == papArgs(m, node) \o [k \in 1..i.n |-> Reg(m, k - 1)]
  IN IF info.type = "THUNK" THEN callt_thunk(m, i.n, node)
     ELSE IF Len(args) < info.arity THEN callt_partial(m, f, args)
     ELSE IF Len(args) > info.arity
            THEN callt_over(m, f, papArgs(m, node), Len(args) - info.arity)
     ELSE EnterCode(Poke(m, m.base - 1, <<f>> \o args), m.base, info)

\* The frame, above the caller's, that applies a result to rest.
applyFrame(m, rest) ==
  Poke(m, m.top, <<StackStart + m.base, m.pc + 1, ApContClosure(Len(rest))>> \o rest)
call_thunk(m, args, t) ==
  enterThunk(applyFrame(m, args), m.top + 3, ApContReturn(Len(args)), t, 0,
             m.top + 4 + Len(args))
call_enter(m, top, link, ret, f, args) ==
  EnterCode(Poke(m, top, <<StackStart + link, ret, f>> \o args), top + 3, InfoOf(m, f))

\* A call with its arguments in any registers, at least as many as the
\* function takes (a CALL with fewer is not modelled).
op_CALL(m, i) ==
  LET node == Reg(m, i.a)
      f == funOf(m, node)
      args == Regs(m, i.args)
      full == papArgs(m, node) \o args
      extra == Len(full) - InfoOf(m, f).arity
  IN IF InfoOf(m, f).type = "THUNK" THEN call_thunk(m, args, node)
     ELSE IF extra = 0 THEN call_enter(m, m.top, m.base, m.pc + 1, f, full)
     ELSE call_enter(applyFrame(m, SubSeq(args, InfoOf(m, f).arity + 1, Len(args))),
                     m.top + 4 + extra, m.top + 3, ApContReturn(extra), f, full)

ArithOps == {"ADD", "SUB", "MUL"}
CompareOps == {"LT", "GE", "LE", "GT", "EQ", "NE"}

\* One bytecode.  FUNC does nothing, and neither does a JFUNC in VERIFY mode.
engineStep(m) ==
  LET i == prog.code[m.pc]
  IN CASE i.op \in ArithOps -> op_arith(m, i)
       [] i.op \in CompareOps -> op_compare(m, i)
       [] i.op = "FUNC" -> NextIns(m)
       [] i.op = "MOV" -> op_MOV(m, i)
       [] i.op = "LOADK" -> op_LOADK(m, i)
       [] i.op = "LOADSLF" -> op_LOADSLF(m, i)
       [] i.op = "LOADF" -> op_LOADF(m, i)
       [] i.op = "LOADFV" -> op_LOADFV(m, i)
       [] i.op = "MOV_RES" -> op_MOV_RES(m, i)
       [] i.op \in {"ALLOC", "ALLOC1"} -> op_ALLOC(m, i)
       [] i.op = "CASE" -> op_CASE(m, i)
       [] i.op = "EVAL" -> op_EVAL(m, i)
       [] i.op = "UPDATE" -> op_UPDATE(m, i)
       [] i.op \in {"RET1", "IRET"} -> do_return(m, i)
       [] i.op = "CALLT" -> op_CALLT(m, i)
       [] i.op = "CALL" -> op_CALL(m, i)

\* The next instruction reads through a word that is no pointer.
Dereferences == {"CASE", "EVAL", "CALL", "CALLT", "UPDATE"}
Faults(m) ==
  LET i == prog.code[m.pc]
  IN \/ i.op = "LOADF" /\ ~IsPtr(Reg(m, i.b))
     \/ i.op \in Dereferences /\ ~IsPtr(Reg(m, i.a))

Stopped(m) == prog.code[m.pc].op = "STOP"

\* What a word denotes: pointers are followed, through indirections, to a
\* depth; everything else is itself.
RECURSIVE Unfold(_, _, _)
Unfold(m, w, depth) ==
  IF ~IsPtr(w) THEN [info |-> 0, val |-> w, fields |-> << >>]
  ELSE LET p == followInd(m, w)
       IN [info |-> Word(m, p), val |-> 0,
           fields |-> IF depth = 0 THEN << >>
                      ELSE [k \in 1..(IF IsPap(m, p) THEN Word(m, p + 1) + 2 ELSE InfoOf(m, p).size)
                              |-> Unfold(m, Word(m, p + k), depth - 1)]]

=============================================================================
