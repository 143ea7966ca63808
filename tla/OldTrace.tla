------------------------------ MODULE OldTrace ------------------------------
(***************************************************************************)
(* The tracing virtual machine of experiments/old-vm: the interpreter runs *)
(* a program, at a hot branch its instructions are recorded, at the end of *)
(* the loop the trace is optimised and entered (irEngine, InterpIR.c), and *)
(* where a guard fails the interpreter continues from the snapshot.        *)
(*                                                                         *)
(* `ref' is the same thread without traces, as the self check of the trace *)
(* interpreter runs it (runInterpreter): while a trace is executing it is  *)
(* driven to the code address of the snapshot of each guard, where the two *)
(* states must agree.                                                      *)
(***************************************************************************)
EXTENDS OldOptimise

CONSTANTS
  Programs,      \* the programs
  UnfoldDepth,   \* how deep structures are compared
  Fragments      \* bound on the number of traces

VARIABLES
  m,         \* the thread, its stack and the heap
  vm,        \* "interpret", "record", "trace", "stopped", "crashed"
  jit,       \* the JitState while recording
  frags,     \* start address |-> fragment
  tr,        \* the state of the trace interpreter
  ref        \* the same thread without traces

oldVars == <<prog, m, vm, jit, frags, tr, ref>>

NoJit == [abort |-> TRUE]
NoTrace == [pc |-> 0, f |-> 0, vals |-> << >>, base |-> 0, checked |-> FALSE]

Result(x) == Unfold(x, x.res, UnfoldDepth)

\* Run the interpreter, one step at least, until it reaches an address.  It
\* stops at a program's end at the latest.
RECURSIVE runInterpreter(_, _)
runInterpreter(x, pcto) ==
  LET y == engineStep(x)
  IN IF y.pc = pcto \/ Stopped(y) THEN y ELSE runInterpreter(y, pcto)

OldInit ==
  /\ prog \in Programs /\ m = prog.start
  /\ vm = "interpret" /\ jit = NoJit /\ frags = << >> /\ tr = NoTrace
  /\ ref = m

(***************************************************************************)
(* The interpreter and the recorder.                                       *)
(***************************************************************************)
AtJFunc == m.pc \in DOMAIN frags

\* A read through a null pointer.
Crash ==
  /\ vm' = "crashed"
  /\ UNCHANGED <<m, jit, frags, tr, ref>>
InterpreterCrash ==
  /\ vm \in {"interpret", "record"} /\ ~AtJFunc /\ Faults(m)
  /\ Crash

\* Leave the loop in the interpreter: the next state is after one bytecode.
Interpret ==
  /\ vm = "interpret" /\ ~Stopped(m) /\ ~AtJFunc /\ ~Faults(m)
  /\ m' = engineStep(m) /\ ref' = engineStep(ref)
  /\ UNCHANGED <<vm, jit, frags, tr>>

Stop ==
  /\ vm = "interpret" /\ Stopped(m)
  /\ vm' = "stopped"
  /\ UNCHANGED <<m, jit, frags, tr, ref>>

\* interpreterBranch: a call that jumps backwards has become hot; the counters
\* decide when, here it may be any time.
IsBranch(x) == prog.code[x.pc].op \in {"CALL", "CALLT", "EVAL"}
HotBranch ==
  /\ vm = "interpret" /\ ~Stopped(m) /\ ~AtJFunc /\ ~Faults(m) /\ IsBranch(m)
  /\ LET n == engineStep(m)
     IN /\ n.pc < m.pc /\ n.pc \notin DOMAIN frags
        /\ Cardinality(DOMAIN frags) < Fragments
        /\ m' = n
        /\ jit' = recordSetup(n)
  /\ vm' = "record" /\ ref' = engineStep(ref)
  /\ UNCHANGED <<frags, tr>>

\* A return may become hot too; recording starts before it is executed, and is
\* given up at once because a function trace may not leave its first frame.
HotReturn ==
  /\ vm = "interpret" /\ ~Stopped(m) /\ ~AtJFunc /\ prog.code[m.pc].op = "RET1"
  /\ Cardinality(DOMAIN frags) < Fragments
  /\ vm' = "record" /\ jit' = recordSetup(m)
  /\ UNCHANGED <<m, frags, tr, ref>>

\* Record the instruction, then execute it.  Recording is given up at the
\* start of another trace and at what the recorder cannot handle.
Record ==
  /\ vm = "record"
  /\ ~(m.pc = jit.startpc /\ jit.ir # << >>)
  /\ ~AtJFunc /\ ~Faults(m)
  /\ LET J == recordIns(jit, m)
     IN /\ ~J.abort
        /\ jit' = J
        /\ m' = engineStep(m) /\ ref' = engineStep(ref)
  /\ UNCHANGED <<vm, frags, tr>>

AbortRecording ==
  /\ vm = "record"
  /\ ~(m.pc = jit.startpc /\ jit.ir # << >>)
  /\ AtJFunc \/ (~Faults(m) /\ recordIns(jit, m).abort)
  /\ vm' = "interpret" /\ jit' = NoJit
  /\ UNCHANGED <<m, frags, tr, ref>>

(***************************************************************************)
(* The trace interpreter.  base is the index of slot 0 of the snapshots,   *)
(* one below the base of the frame.                                        *)
(***************************************************************************)
LitValue(lit, base) == IF lit.o = "KBASEO" THEN StackStart + base + lit.v ELSE lit.v

EnterState(x, J) ==
  [pc |-> 1, f |-> J.startpc, base |-> x.base - 1, checked |-> FALSE,
   vals |-> [r \in (-Len(J.lits))..Len(J.ir) |->
               IF r < 0 THEN LitValue(J.lits[-r], x.base) ELSE 0]]

\* The start becomes a JFUNC, in the table of fragments.
registerCurrentFragment(J) == (J.startpc :> J) @@ frags

\* Back at the start: the trace is finished and entered at once.
FinishRecording ==
  /\ vm = "record"
  /\ m.pc = jit.startpc /\ jit.ir # << >>
  /\ LET J == finishRecording([jit EXCEPT !.pc = m.pc], m)
     IN /\ frags' = registerCurrentFragment(J)
        /\ tr' = EnterState(m, J)
  /\ vm' = "trace" /\ jit' = NoJit
  /\ UNCHANGED <<m, ref>>

\* JFUNC.
EnterTrace ==
  /\ vm = "interpret" /\ AtJFunc
  /\ tr' = EnterState(m, frags[m.pc])
  /\ vm' = "trace"
  /\ UNCHANGED <<m, jit, frags, ref>>

F == frags[tr.f]
Cur == F.ir[tr.pc]
Val(r) == tr.vals[r]

\* After the last instruction the loop starts over, or the whole trace does.
Following(pc) == IF pc < Len(F.ir) THEN pc + 1 ELSE F.nloop + 1
Advance(vals) == tr' = [tr EXCEPT !.vals = vals, !.pc = Following(@), !.checked = FALSE]
Yield(w) == Advance([tr.vals EXCEPT ![tr.pc] = w])

SnapAt(pc) == F.snap[CHOOSE k \in DOMAIN F.snap : F.snap[k].ref = pc]

\* Sunken objects are allocated when the trace is left.
RECURSIVE restoreValue(_, _)
RECURSIVE restoreFields(_, _, _)
restoreValue(x, r) ==
  IF ~IsSunken(F, r) THEN [mach |-> x, w |-> Val(r)]
  ELSE LET fs == FieldsOf(F, r)
           \* the object comes first; then the objects its fields denote
           y == allocClosure(x, <<Val(F.ir[r].op1)>> \o Zeros(Len(fs)))
       IN [mach |-> restoreFields(y, hpOf(x), fs), w |-> hpOf(x)]
restoreFields(x, at, fs) ==
  IF fs = << >> THEN x
  ELSE LET v == restoreValue(x, Head(fs))
       IN restoreFields(SetWord(v.mach, at + 1, v.w), at + 1, Tail(fs))

RECURSIVE restoreSlots(_, _, _)
restoreSlots(x, sn, slots) ==
  IF slots = {} THEN x
  ELSE LET s == Min(slots)
           r == sn.ent[s]
           v == IF IR(F, r).o = "KBASEO"
                  THEN [mach |-> x, w |-> StackStart + tr.base + 1 + IR(F, r).v]
                  ELSE restoreValue(x, r)
       IN restoreSlots([v.mach EXCEPT !.stk[tr.base + s] = v.w], sn, slots \ {s})

restoreStack(sn) ==
  [restoreSlots(m, sn, DOMAIN sn.ent) EXCEPT
     !.pc = sn.pc, !.base = tr.base + sn.base, !.top = tr.base + sn.minslot + sn.nslots]

guard_failed ==
  /\ m' = restoreStack(SnapAt(tr.pc))
  /\ vm' = "interpret"
  /\ tr' = NoTrace

\* The self check leaves out the first guards at the start of the trace.
Verified(sn) == ~(sn.pc = F.startpc /\ (F.nloop = 0 \/ tr.pc < F.nloop))

\* Before a guard is decided: the untraced thread goes where the snapshot is.
SelfCheck ==
  /\ vm = "trace" /\ Cur.o \in Guards \ {"HEAPCHK"} /\ ~tr.checked
  /\ LET sn == SnapAt(tr.pc)
     IN ref' = IF Verified(sn) THEN runInterpreter(ref, sn.pc) ELSE ref
  /\ tr' = [tr EXCEPT !.checked = TRUE]
  /\ UNCHANGED <<m, vm, jit, frags>>

GuardHolds ==
  IF Cur.o = "EQRET" THEN Val(Cur.op1) = Val(Cur.op2)
  ELSE evalNumComp(Val(Cur.op1), Val(Cur.op2), Cur.o)

TraceGuard ==
  /\ vm = "trace" /\ Cur.o \in Guards \ {"HEAPCHK"} /\ tr.checked
  /\ IF GuardHolds THEN Advance(tr.vals) /\ UNCHANGED <<m, vm>> ELSE guard_failed
  /\ UNCHANGED <<jit, frags, ref>>

\* Enough room, after taking new blocks if need be.
TraceHeapCheck ==
  /\ vm = "trace" /\ Cur.o = "HEAPCHK"
  /\ m' = [m EXCEPT !.mem = @ \o Zeros(Cur.op1)]
  /\ Advance(tr.vals)
  /\ UNCHANGED <<vm, jit, frags, ref>>

\* A collection is due: leave it to the interpreter.
TraceHeapFull ==
  /\ vm = "trace" /\ Cur.o = "HEAPCHK"
  /\ guard_failed
  /\ LET sn == SnapAt(tr.pc)
     IN ref' = IF Verified(sn) THEN runInterpreter(ref, sn.pc) ELSE ref
  /\ UNCHANGED <<jit, frags>>

\* The address of a sunken object is 0.
Memory == {"FLOAD", "ILOAD", "UPDATE"}
TraceFaults == Cur.o \in Memory /\ ~IsPtr(Val(Cur.op1))
TraceCrash ==
  /\ vm = "trace" /\ TraceFaults
  /\ Crash

Skipped == {"NOP", "FRAME", "RET", "LOOP"}
TraceValue ==
  /\ vm = "trace" /\ Cur.o \in ArithOps \cup Loads \cup Skipped \cup {"FREF"}
  /\ ~TraceFaults
  /\ CASE Cur.o \in Skipped -> Advance(tr.vals)
       [] Cur.o \in ArithOps -> Yield(evalArith(Val(Cur.op1), Val(Cur.op2), Cur.o))
       [] Cur.o = "FREF" -> Yield(Val(Cur.op1) + Cur.op2)
       [] Cur.o = "SLOAD" -> Yield(m.stk[tr.base + Cur.op1])
       [] Cur.o \in {"FLOAD", "ILOAD"} -> Yield(Word(m, Val(Cur.op1)))
  /\ UNCHANGED <<m, vm, jit, frags, ref>>

\* An object lies at its offset below the heap pointer; a sunken one is not
\* there, and has the address 0.
TraceNew ==
  /\ vm = "trace" /\ Cur.o = "NEW"
  /\ LET h == F.heap[Cur.op2]
         at == hpOf(m) + h.offs - 1
         ws == <<Val(Cur.op1)>> \o [k \in DOMAIN h.fields |-> Val(h.fields[k])]
     IN IF Cur.sunk THEN Yield(0) /\ UNCHANGED m
        ELSE /\ Yield(at)
             /\ m' = [m EXCEPT !.mem = [a \in DOMAIN @ |->
                        LET k == a + HeapStart - at + 1
                        IN IF k \in DOMAIN ws THEN ws[k] ELSE @[a]]]
  /\ UNCHANGED <<vm, jit, frags, ref>>

TraceUpdate ==
  /\ vm = "trace" /\ Cur.o = "UPDATE" /\ ~TraceFaults
  /\ m' = SetWord(SetWord(m, Val(Cur.op1), IndInfo), Val(Cur.op1) + 1, Val(Cur.op2))
  /\ Advance(tr.vals)
  /\ UNCHANGED <<vm, jit, frags, ref>>

\* All PHI nodes at once.
TracePhi ==
  /\ vm = "trace" /\ Cur.o = "PHI"
  /\ LET ps == Chain(F, "PHI")
         from(r) == CHOOSE p \in ps : F.ir[p].op1 = r
         vals == [r \in DOMAIN tr.vals |->
                    IF \E p \in ps : F.ir[p].op1 = r THEN Val(F.ir[from(r)].op2) ELSE Val(r)]
     IN tr' = [tr EXCEPT !.vals = vals, !.pc = F.nloop + 1]
  /\ UNCHANGED <<m, vm, jit, frags, ref>>

SlotValue(r) ==
  IF IR(F, r).o = "KBASEO" THEN StackStart + tr.base + 1 + IR(F, r).v ELSE Val(r)

\* Mutant of savedStack: the loop over the entries ends one too early.
savedButLast(sn) ==
  [s \in DOMAIN m.stk |->
     IF s - tr.base \in DOMAIN sn.ent \ {Max(DOMAIN sn.ent)}
       THEN SlotValue(sn.ent[s - tr.base]) ELSE m.stk[s]]

savedStack(sn) ==
  [s \in DOMAIN m.stk |->
     IF s - tr.base \in DOMAIN sn.ent THEN SlotValue(sn.ent[s - tr.base]) ELSE m.stk[s]]

\* A trace that ends on another frame writes its slots and moves the base.
TraceSave ==
  /\ vm = "trace" /\ Cur.o = "SAVE"
  /\ LET sn == F.snap[Cur.op1]
     IN /\ m' = [m EXCEPT !.stk = savedStack(sn), !.base = tr.base + sn.base,
                          !.top = tr.base + 1 + sn.nslots - sn.minslot]
        /\ tr' = [tr EXCEPT !.base = @ + sn.base - 1, !.pc = Following(@)]
        /\ ref' = runInterpreter(ref, sn.pc)
  /\ UNCHANGED <<vm, jit, frags>>

OldNext ==
  /\ UNCHANGED prog
  /\ \/ Interpret \/ Stop \/ HotBranch \/ HotReturn \/ Record \/ AbortRecording
     \/ FinishRecording \/ EnterTrace \/ SelfCheck \/ TraceGuard \/ TraceHeapCheck
     \/ TraceHeapFull \/ TraceValue \/ TraceNew \/ TraceUpdate \/ TracePhi \/ TraceSave
     \/ InterpreterCrash \/ TraceCrash

OldSpec == OldInit /\ [][OldNext]_oldVars

(***************************************************************************)
(* Properties.                                                             *)
(***************************************************************************)

\* The state at the snapshot sn of the trace, rebuilt, agrees with the
\* interpreter's: same frame, and every slot of the snapshot denotes the same.
Agrees(sn, x) ==
  \A y \in {restoreStack(sn)} :
    /\ x.base = y.base
    /\ \A s \in DOMAIN sn.ent :
         Unfold(x, x.stk[tr.base + s], UnfoldDepth) = Unfold(y, y.stk[tr.base + s], UnfoldDepth)

\* A PHI node of an object that is sunken and of a value that is not: step 4
\* of heapSCCs compares two objects only, and the copy of the sunken object's
\* address is 0.
HalfSunken(J) ==
  {p \in Chain(J, "PHI") : IsSunken(J, J.ir[p].op1) # IsSunken(J, J.ir[p].op2)}
NoHalfSunken == \A f \in DOMAIN frags : HalfSunken(frags[f]) = {}

\* The self check of InterpIR.c (verifyStack), with sunken objects rebuilt, at
\* every guard of a running trace, whether it holds or fails: unrolling, dead
\* code elimination and allocation sinking leave what the snapshot needs, as
\* long as no trace has a PHI node that is half sunken.
OldTraceExact == NoHalfSunken => (tr.checked => Agrees(SnapAt(tr.pc), ref))

\* A program gives the same result with traces as without them (irEngine
\* against engine), and does not read through a null pointer.
SameResult ==
  /\ vm # "crashed"
  /\ vm = "stopped" => Stopped(ref) /\ Result(m) = Result(ref)

\* The same, for programs of which no trace has a PHI node that heapSCCs
\* leaves half sunken.
OldResultExact == NoHalfSunken => SameResult

=============================================================================
