------------------------------ MODULE TraceJit ------------------------------
(***************************************************************************)
(* How execution moves between the interpreter, the trace recorder and the *)
(* compiled fragments (vm/capability.cc interpBranch, record, JFUNC;       *)
(* vm/jit.cc; the prologue, the tail and the patching of fragments in      *)
(* vm/assembler.cc).                                                       *)
(*                                                                         *)
(* The program is a set of bytecode addresses with an arbitrary control    *)
(* flow.  Branches (CALL, CALLT, EVAL, RET) lead to functions and return   *)
(* points; these have no guards (FUNC, and MOV_RES, which the compiler     *)
(* puts after every call), the instructions in between have.               *)
(*                                                                         *)
(* Fragments are numbered from 1, and 0 is no fragment: at an exit, the    *)
(* exit stub.  The registers, spill slots and the slots of snapshots are   *)
(* left out.                                                               *)
(***************************************************************************)
EXTENDS Naturals, Sequences

CONSTANTS
  Func,           \* addresses of FUNC
  IFunc,          \* addresses of IFUNC, the code of AP closures
  Ret,            \* return points
  Check,          \* instructions with a guard, branches included
  Alloc,          \* instructions with a heap check
  UpdRet,         \* stg_UPD_return_pc
  Hash,           \* hotCountHash
  HotThreshold,   \* HOT_THRESHOLD
  HotSideExit,    \* HOT_SIDE_EXIT_THRESHOLD
  MaxTargets,     \* branch targets of a trace (100)
  MaxSnaps,       \* bound on the snapshots of a fragment
  MaxFragments    \* bound on the number of fragments

Target == Func \cup IFunc \cup Ret
Inner == Check \cup Alloc
Pc == Target \cup Inner

ASSUME TraceJitAssumption ==
  /\ Pc \subseteq Nat
  /\ Target \cap Inner = {} /\ Check \cap Alloc = {}
  /\ Func \cap IFunc = {} /\ (Func \cup IFunc) \cap Ret = {}
  /\ UpdRet \in Ret
  /\ HotThreshold \in 1..(2^16 - 1)
  /\ {HotSideExit, MaxTargets} \subseteq Nat \ {0}
  /\ {MaxSnaps, MaxFragments} \subseteq Nat
  /\ DOMAIN Hash = Pc

VARIABLES
  mode,         \* "interp" or "trace": who executes
  pc,           \* T->pc_, the bytecode that is or was interpreted
  running,      \* the fragment whose machine code is executed
  F_id,         \* the trace id in the frame of asmEnter
  jfunc,        \* the operand of the JFUNC at an address, 0: not patched
  counters,     \* counters_
  fragments,    \* fragments_
  fragmentMap,  \* fragmentMap_, 0: no entry
  state,        \* Capability: "INTERP" or "RECORD"
  rec           \* the recorder: Jit's fields, its IR buffer and its BTB

vars == <<mode, pc, running, F_id, jfunc, counters, fragments, fragmentMap,
          state, rec>>

\* resetRecorderState.  It clears the flags only; the other fields are dead
\* until initRecording sets them, and are cleared here as well.
Idle ==
  [cap |-> FALSE, startPc |-> 0, type |-> "root", parent |-> 0, exit |-> 0,
   isReturn |-> FALSE, btb |-> << >>, snaps |-> << >>,
   lastInsWasBranch |-> FALSE, shouldAbort |-> FALSE]

Init ==
  /\ mode = "interp"
  /\ pc \in Func
  /\ running = 0
  /\ F_id = 0
  /\ jfunc = [p \in Pc |-> 0]
  /\ counters = [h \in {Hash[p] : p \in Pc} |-> HotThreshold]
  /\ fragments = << >>
  /\ fragmentMap = [p \in Pc |-> 0]
  /\ state = "INTERP"
  /\ rec = Idle

-----------------------------------------------------------------------------
(***************************************************************************)
(* Machine code.                                                           *)
(***************************************************************************)

\* Assembler::assemble: a fragment with a parent begins with emitSetTraceId.
SideOnly(f) == f.type = "side"
SetsTraceId(f) == f.type # "root"

\* Jump to the entry of fragment g with the trace id id.
JumpTo(g, id) ==
  /\ mode' = "trace"
  /\ running' = g
  /\ F_id' = IF SetsTraceId(fragments[g]) THEN g ELSE id

\* asmEnter.
Enter(g) == JumpTo(g, g)

-----------------------------------------------------------------------------
(***************************************************************************)
(* Starting a recording.                                                   *)
(***************************************************************************)

\* initRecording, with the branch target buffer that begins at the entry.
InitRecording(p) == [Idle EXCEPT !.cap = TRUE, !.startPc = p, !.btb = <<p>>]

BeginRecording(p, isReturn) ==
  [InitRecording(p) EXCEPT !.isReturn = isReturn]

Fallthrough(p, isReturn, f, e) ==
  [BeginRecording(p, isReturn) EXCEPT
     !.type = "fallthrough", !.parent = f, !.exit = e]

WrongExit(p, f, e) ==
  [InitRecording(p) EXCEPT !.type = "side", !.parent = f,
     !.exit = (e % Len(fragments[f].snaps)) + 1]
BeginSideTrace(p, f, e) ==
  [InitRecording(p) EXCEPT !.type = "side", !.parent = f, !.exit = e]

\* Without room for another fragment the recording is as good as aborted.
NoSetState(r) ==
  IF Len(fragments) < MaxFragments
  THEN rec' = r /\ UNCHANGED state
  ELSE UNCHANGED <<rec, state>>
StartRecording(r) ==
  IF Len(fragments) < MaxFragments
  THEN rec' = r /\ state' = "RECORD"
  ELSE UNCHANGED <<rec, state>>

-----------------------------------------------------------------------------
(***************************************************************************)
(* The interpreter.                                                        *)
(***************************************************************************)

IsFunc(p) == p \in Func /\ jfunc[p] = 0
isStartOfTrace(src, dst, isReturn) == dst < src /\ (IsFunc(dst) \/ isReturn)

Ticked(p) == (counters[Hash[p]] + (2^16 - 1)) % 2^16
IsHot(p) == Ticked(p) = 0
Tick(p) ==
  counters' = [counters EXCEPT
                 ![Hash[p]] = IF IsHot(p) THEN HotThreshold ELSE Ticked(p)]

Interpreting == mode = "interp" /\ state = "INTERP"

\* An instruction other than a branch.
Execute(q) ==
  /\ Interpreting
  /\ jfunc[pc] = 0
  /\ pc' = q
  /\ UNCHANGED <<mode, running, F_id, jfunc, counters, fragments,
                 fragmentMap, state, rec>>

\* A branch, with interpBranch: enter the fragment at the target, or start
\* to record, or go on.
EnterTraceAt(q) ==
  /\ fragmentMap[q] # 0
  /\ Enter(fragmentMap[q])
  /\ UNCHANGED <<counters, state, rec>>

RecordOrGoOn(q, isReturn) ==
  /\ fragmentMap[q] = 0
  /\ Tick(q)
  /\ IF IsHot(q) /\ q # UpdRet
     THEN StartRecording(BeginRecording(q, isReturn))
     ELSE UNCHANGED <<state, rec>>
  /\ UNCHANGED <<mode, running, F_id>>

Branch(q) ==
  /\ Interpreting
  /\ pc \in Check
  /\ pc' = q
  /\ IF isStartOfTrace(pc, q, q \in Ret)
     THEN EnterTraceAt(q) \/ RecordOrGoOn(q, q \in Ret)
     ELSE UNCHANGED <<mode, running, F_id, counters, state, rec>>
  /\ UNCHANGED <<jfunc, fragments, fragmentMap>>

\* JFUNC.
EnterJfunc ==
  /\ Interpreting
  /\ jfunc[pc] # 0
  /\ Enter(fragmentMap[pc])
  /\ UNCHANGED <<pc, jfunc, counters, fragments, fragmentMap, state, rec>>

-----------------------------------------------------------------------------
(***************************************************************************)
(* The recorder.  recordIns sees every instruction before it is executed.  *)
(***************************************************************************)

Recording == mode = "interp" /\ state = "RECORD"

\* The indexes isTrueLoop can return: it filters false loops by comparing
\* call stacks, which are left out, so it may also find none.
LoopEntries ==
  IF rec.lastInsWasBranch /\ pc # UpdRet
  THEN {i \in DOMAIN rec.btb : rec.btb[i] = pc} ELSE {}

BtbFull == rec.lastInsWasBranch /\ Len(rec.btb) = MaxTargets

\* recordIns gets past the search for loops with the buffer b.
NoLoop(b) ==
  /\ ~ rec.shouldAbort
  /\ \/ ~ rec.lastInsWasBranch /\ b = rec.btb
     \/ rec.lastInsWasBranch /\ ~ BtbFull /\ b = Append(rec.btb, pc)
     \/ pc \in IFunc /\ (\E i \in LoopEntries : i > 1) /\ b = rec.btb

Snap(op) == [pc |-> pc, op |-> op, exitCounter |-> HotSideExit,
             to |-> 0, setsId |-> FALSE]

\* The snapshots after an instruction; folding may remove its guard.
Snapped ==
  {rec.snaps} \cup
  {Append(rec.snaps, Snap(IF pc \in Check THEN "guard" ELSE "heapchk")) :
     i \in {j \in {1} : pc \in Inner /\ Len(rec.snaps) < MaxSnaps}}

\* recordIns of the instruction at pc returns false.
RecordIns(isBranch, abort) ==
  /\ Recording
  /\ jfunc[pc] = 0
  /\ \E b \in {rec.btb, Append(rec.btb, pc)}, s \in Snapped :
       /\ NoLoop(b)
       /\ rec' = [rec EXCEPT !.btb = b, !.snaps = s,
                             !.lastInsWasBranch = isBranch,
                             !.shouldAbort = abort]

RecordExecute(q) ==
  /\ RecordIns(FALSE, FALSE)
  /\ pc' = q
  /\ UNCHANGED <<mode, running, F_id, jfunc, counters, fragments,
                 fragmentMap, state>>

\* interpBranch does nothing while recording.  A partial application that
\* overflows the heap also requests an abort, and returns.
RecordBranch(q, overflow) ==
  /\ pc \in Check
  /\ overflow => q \in Ret
  /\ RecordIns(TRUE, overflow)
  /\ pc' = q
  /\ UNCHANGED <<mode, running, F_id, jfunc, counters, fragments,
                 fragmentMap, state>>

\* heapOverflow: the instruction will be dispatched again, and requestAbort.
HeapOverflow ==
  /\ pc \in Alloc
  /\ RecordIns(FALSE, TRUE)
  /\ UNCHANGED <<mode, pc, running, F_id, jfunc, counters, fragments,
                 fragmentMap, state>>

\* abort_recording: on request, too many branch targets, an instruction the
\* recorder does not know, a guard known to fail, or no room for a frame.
RecordAbort ==
  /\ Recording
  /\ rec.shouldAbort \/ BtbFull \/ pc \in Inner
  /\ rec' = Idle
  /\ state' = "INTERP"
  /\ UNCHANGED <<mode, pc, running, F_id, jfunc, counters, fragments,
                 fragmentMap>>

\* The counters after resetDominatedCounters: those of backward branches.
Dominated == {rec.btb[i] : i \in {j \in 2..Len(rec.btb) :
                                    rec.btb[j] < rec.btb[j - 1]}}
ResetDominated ==
  [h \in DOMAIN counters |-> IF h \in {Hash[p] : p \in Dominated}
                             THEN HotThreshold ELSE counters[h]]

\* Jit::saveFragment, for a trace that ends with SAVE.
NewFragment(tail, link) ==
  [startPc |-> rec.startPc, type |-> rec.type, isReturn |-> rec.isReturn,
   tail |-> tail, link |-> link, snaps |-> Append(rec.snaps, Snap("save"))]

\* Exit e of fragment f jumps to g from now on (patchGuard).
PatchGuard(frags, f, e, g, sets) ==
  [frags EXCEPT ![f].snaps[e] = [@ EXCEPT !.to = g, !.setsId = sets]]

\* The address that becomes a JFUNC.
WithReturns == rec.type # "side"
WritesJfunc == rec.type # "side" /\ ~ rec.isReturn

\* finishRecording.
Finish(tail, link) ==
  LET g == Len(fragments) + 1
      saved == Append(fragments, NewFragment(tail, link))
  IN /\ fragments' = IF rec.parent = 0 THEN saved
                     ELSE PatchGuard(saved, rec.parent, rec.exit, g, FALSE)
     /\ fragmentMap' = IF rec.type = "side" THEN fragmentMap
                       ELSE [fragmentMap EXCEPT ![rec.startPc] = g]
     /\ jfunc' = IF WritesJfunc THEN [jfunc EXCEPT ![rec.startPc] = g]
                 ELSE jfunc
     /\ counters' = ResetDominated
     /\ rec' = Idle
     /\ state' = "INTERP"
     /\ UNCHANGED <<mode, pc, running, F_id>>

\* Loop to the entry of the trace.
RecordLoop ==
  /\ Recording
  /\ ~ rec.shouldAbort
  /\ 1 \in LoopEntries
  /\ Finish("loop", 0)

\* An inner loop ends the trace; it falls back to the interpreter.
RecordInner ==
  /\ Recording
  /\ ~ rec.shouldAbort
  /\ pc \notin IFunc
  /\ \E i \in LoopEntries : i > 1
  /\ Finish("exit", 0)

\* JFUNC: the trace continues in the existing fragment.
RecordLink ==
  /\ Recording
  /\ jfunc[pc] # 0
  /\ \E b \in {rec.btb, Append(rec.btb, pc)} : NoLoop(b)
  /\ Finish("link", fragmentMap[pc])

-----------------------------------------------------------------------------
(***************************************************************************)
(* Execution of a fragment.                                                *)
(***************************************************************************)

\* Fragment::restoreSnapshot, for the fragment that the trace id names.
Restore(f, e) ==
  LET sn == fragments[f].snaps[e]
      hot == sn.op # "heapchk" /\ sn.exitCounter = 1
      falls == sn.op = "save" /\ fragments[f].tail = "exit"
      counted == [fragments EXCEPT ![f].snaps[e].exitCounter =
                    IF hot THEN HotSideExit
                    ELSE IF sn.op = "heapchk" THEN @ ELSE @ - 1]
  IN /\ mode' = "interp"
     /\ pc' = sn.pc
     /\ running' = 0 /\ F_id' = 0
     /\ IF hot /\ falls /\ jfunc[sn.pc] # 0
        THEN /\ fragments' = PatchGuard(counted, f, e, fragmentMap[sn.pc],
                                        TRUE)
             /\ UNCHANGED <<state, rec>>
        ELSE /\ fragments' = counted
             /\ IF hot
                THEN StartRecording(
                       IF falls
                       THEN Fallthrough(sn.pc, sn.pc \notin Func \cup IFunc,
                                        f, e)
                       ELSE BeginSideTrace(sn.pc, f, e))
                ELSE UNCHANGED <<state, rec>>
     /\ UNCHANGED <<jfunc, counters, fragmentMap>>

\* Leave the running fragment at its exit e: to the fragment that was linked
\* there, directly or over the bridge of patchFallthrough, which sets the
\* trace id, or to the exit stub.
LeaveUnpatched(e) == Restore(F_id, e)
Leave(e) ==
  LET sn == fragments[running].snaps[e] IN
  IF sn.to # 0
  THEN /\ JumpTo(sn.to, IF sn.setsId THEN sn.to ELSE F_id)
       /\ UNCHANGED <<pc, jfunc, counters, fragments, fragmentMap, state,
                      rec>>
  ELSE Restore(F_id, e)

\* A guard or a heap check fails.  (A heap check for which another block is
\* enough goes on.)
GuardFails(e) ==
  /\ mode = "trace"
  /\ e < Len(fragments[running].snaps)
  /\ Leave(e)

\* The end of the fragment.
FragmentEnd ==
  /\ mode = "trace"
  /\ LET f == fragments[running] IN
     CASE f.tail = "exit" -> Leave(Len(f.snaps))
       [] f.tail = "link" ->
            /\ JumpTo(f.link, f.link)
            /\ UNCHANGED <<pc, jfunc, counters, fragments, fragmentMap,
                           state, rec>>
       [] f.tail = "loop" -> UNCHANGED vars

Next ==
  \/ \E q \in Inner : Execute(q)
  \/ \E q \in Target : Branch(q)
  \/ EnterJfunc
  \/ \E q \in Inner : RecordExecute(q)
  \/ \E q \in Target, overflow \in BOOLEAN : RecordBranch(q, overflow)
  \/ HeapOverflow
  \/ RecordAbort
  \/ RecordLoop
  \/ RecordInner
  \/ RecordLink
  \/ \E e \in 1..MaxSnaps : GuardFails(e)
  \/ FragmentEnd

Spec == Init /\ [][Next]_vars

-----------------------------------------------------------------------------
(***************************************************************************)
(* Properties.                                                             *)
(***************************************************************************)

Fragment == 1..Len(fragments)
Exits(f) == DOMAIN fragments[f].snaps

TypeOK ==
  /\ mode \in {"interp", "trace"} /\ pc \in Pc
  /\ running \in 0..Len(fragments) /\ F_id \in 0..Len(fragments)
  /\ mode = "trace" <=> running # 0
  /\ jfunc \in [Pc -> 0..Len(fragments)]
  /\ fragmentMap \in [Pc -> 0..Len(fragments)]
  /\ \A h \in DOMAIN counters : counters[h] \in 1..HotThreshold
  /\ \A f \in Fragment : \A e \in Exits(f) :
       fragments[f].snaps[e].exitCounter \in 1..HotSideExit
  /\ Len(rec.btb) <= MaxTargets

\* An exit is decoded with the snapshots of the fragment that was left: the
\* trace id always names the running fragment, whichever way it was reached
\* (JFUNC, a return, a patched guard, a bridge, a link).
TraceIdExact == mode = "trace" => F_id = running

\* Machine code continues where the bytecode would: an exit is only linked
\* to a fragment for the address of its snapshot, and so are the jumps at
\* the end of a fragment.
LinksAtPc ==
  \A f \in Fragment :
    LET fr == fragments[f]
        last == fr.snaps[Len(fr.snaps)].pc
    IN /\ \A e \in Exits(f) : fr.snaps[e].to # 0 =>
            fragments[fr.snaps[e].to].startPc = fr.snaps[e].pc
       /\ fr.tail = "link" => fragments[fr.link].startPc = last
       /\ fr.tail = "loop" => fr.startPc = last

\* The patched bytecode and the fragment map agree (the assertions of JFUNC,
\* recordIns and restoreSnapshot), and every function with a fragment of its
\* own is patched.
JfuncExact ==
  \A p \in Pc :
    /\ fragmentMap[p] # 0 => fragments[fragmentMap[p]].startPc = p
    /\ jfunc[p] # 0 => p \in Func /\ jfunc[p] = fragmentMap[p]
    /\ p \in Func /\ fragmentMap[p] # 0 => jfunc[p] # 0

\* The capability and the recorder agree on whether a trace is recorded, and
\* no fragment runs meanwhile: beginRecording and beginSideTrace find the
\* recorder free.
OneRecording ==
  /\ rec.cap <=> state = "RECORD"
  /\ mode = "trace" => ~ rec.cap

\* An exit that was linked stays linked, to the same fragment.
LinksStay ==
  \A f \in Fragment : \A e \in Exits(f) :
    fragments[f].snaps[e].to # 0 =>
      fragments'[f].snaps[e].to = fragments[f].snaps[e].to
PatchedOnce == [][LinksStay]_vars
=============================================================================
