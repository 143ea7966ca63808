---------------------------- MODULE TraceRecord -----------------------------
(***************************************************************************)
(* The trace recorder beside the interpreter (vm/jit.cc recordIns,         *)
(* recordGenericApply2, replaySnapshot; vm/ir.cc AbstractStack).           *)
(*                                                                         *)
(* Recording writes nothing to the real stack of the trace that will run:  *)
(* the trace finds the stack memory as it was at its entry (Mem), and the  *)
(* abstract stack says what it would have written.  At every guard a       *)
(* snapshot of the abstract stack is taken; when the guard fails,          *)
(* restoreSnapshot writes it to the stack and the interpreter goes on as   *)
(* if it had executed everything up to that instruction itself.            *)
(*                                                                         *)
(* Values are symbolic: a tag and what the value was made from, so two     *)
(* values agree only if they were computed alike.  A slot that was only    *)
(* loaded (SLOAD) is as good as one the trace does not have.  Guards that  *)
(* the optimiser drops are kept, but for those on literals.                *)
(***************************************************************************)
EXTENDS LoopFilter, SequencesExt

CONSTANTS
  KInitialBase,   \* kInitialBase (250)
  KSlots,         \* kSlots (500)
  EntryLimit,     \* Snapshot::entries_ has 8 bits (256)
  FunFrame,       \* frame size of functions and thunks
  BottomFrame,    \* frame size of its caller
  MaxFrame,       \* the largest frame size of a trace's first function
  Dests,          \* the registers that instructions write
  MaxSteps        \* bound on recorded instructions

ASSUME RecordAssumption ==
  /\ KInitialBase \in Nat /\ KSlots \in Nat /\ 3 <= KInitialBase /\ KInitialBase < KSlots
  /\ EntryLimit \in Nat \ {0} /\ FunFrame \in Nat /\ FunFrame >= 2 /\ BottomFrame \in Nat
  /\ MaxFrame \in Nat /\ MaxFrame >= FunFrame

VARIABLES
  rec,      \* the abstract stack, the call stack, and this instruction's snapshots
  st,       \* the interpreter's stack, base and top
  before,   \* st before the last instruction
  mode,     \* "recording", "finished", "aborted", or "exited" by exit(1)
  side,     \* the trace is a side trace
  floor,    \* the lowest frame the trace has been in
  steps     \* recorded instructions

recVars == <<rec, st, before, mode, side, floor, steps>>

FRAME_SIZE == 3
UPD_frame_size == 2

\* The stack: a bottom frame, which never returns, and the frame the trace
\* starts in.
BottomBase == 3
EntryBase == BottomBase + BottomFrame + 3
Addr == 0..(EntryBase + KSlots)
Mem == [a \in Addr |-> IF a = EntryBase - FRAME_SIZE THEN <<"addr", BottomBase>>
                       ELSE <<"mem", a>>]

\* No return address: a tail call.
NULL == <<"null">>

\* An indirection and what it leads to stand for one value.
Unind(v) == IF v[1] = "ind" THEN v[2] ELSE v
Built(tag, v) == <<tag, Unind(v)>>

-----------------------------------------------------------------------------
(* AbstractStack and snapshots. *)

Index(r, a) == KInitialBase + (a - r.orig)

\* A clear extends the range as well.
Touch(r, a) == [r EXCEPT !.low = Min({@, a}), !.high = Max({@, a})]
setSlot(r, n, v) ==
  [Touch(r, r.base + n) EXCEPT !.slots = (r.base + n :> v) @@ @]
clearSlots(r, start, end) ==
  LET gone == (r.base + start)..(r.base + end - 1)
      r1 == [r EXCEPT !.slots = Restrict(@, DOMAIN @ \ gone)]
  IN  IF gone = {} THEN r ELSE Touch(Touch(r1, Min(gone)), Max(gone))

slot(r, n) ==
  IF r.base + n \in DOMAIN r.slots THEN r.slots[r.base + n] ELSE Mem[r.base + n]

BaseOffset(r, a) == <<"baseo", a - r.orig>>
Evaluated(v, orig) == IF v[1] = "baseo" THEN <<"addr", orig + v[2]>> ELSE v

AbstractReset(base, top) ==
  [slots |-> << >>, base |-> base, top |-> top, low |-> base, high |-> top,
   orig |-> base, cs |-> EmptyCalls, snaps |-> << >>, hpchk |-> FALSE, ok |-> TRUE]

\* A frame out of range: the caller gives up, but for FUNC.
frame(r, base, top) ==
  [r EXCEPT !.base = base, !.top = top,
            !.low = Min({@, base}), !.high = Max({@, top - 1}),
            !.ok = @ /\ Index(r, base) >= 3 /\ Index(r, top) < KSlots - 4]

\* The written slots from low to high, of which entries_ can count so many.
SnapshotBelowTop(r) ==
  [slots |-> Restrict(r.slots, {a \in DOMAIN r.slots : a < r.top}),
   relbase |-> r.base - r.orig, framesize |-> r.top - r.base]
snapshot(r) ==
  LET written == {a \in DOMAIN r.slots : r.low <= a /\ a <= r.high}
      entries == Cardinality(written) % EntryLimit
      first == {a \in written : Cardinality({b \in written : b < a}) < entries}
  IN  [slots |-> Restrict(r.slots, first),
       relbase |-> r.base - r.orig, framesize |-> r.top - r.base]

Guard(r) == [r EXCEPT !.snaps = Append(@, snapshot(r))]

\* A guard on a return address; one of a frame pushed on the trace is known.
GuardReturn(r) == IF slot(r, -2)[1] = "pc" THEN r ELSE Guard(r)

\* Later heap checks are merged into the first.
emitHeapCheck(r) == IF r.hpchk THEN r ELSE [Guard(r) EXCEPT !.hpchk = TRUE]

\* Jit::pushFrame
PushFrame(r, ret, node, framesize) ==
  LET base == r.top + FRAME_SIZE
      r1 == setSlot(setSlot(setSlot([r EXCEPT !.cs = pushFrame(@, ret)],
                       r.top - r.base, BaseOffset(r, r.base)),
                     r.top - r.base + 1, ret),
                   r.top - r.base + 2, node)
  IN  frame(r1, base, base + framesize)

\* restoreSnapshot, for a trace that was entered with this base.
Restored(sn, orig) ==
  [stk |-> [a \in Addr |-> IF a \in DOMAIN sn.slots THEN Evaluated(sn.slots[a], orig)
                           ELSE Mem[a]],
   base |-> orig + sn.relbase, top |-> orig + sn.relbase + sn.framesize]

\* replaySnapshot: slots are relative to the new base, and so are offsets
\* from the parent's.
ReplayNoRebase(sn, orig, r) ==
  [r EXCEPT !.slots = [a \in DOMAIN sn.slots |-> sn.slots[a]],
            !.low = Min({@} \cup DOMAIN sn.slots), !.high = Max({@} \cup DOMAIN sn.slots)]
replaySnapshot(sn, orig, r) ==
  LET Replayed(v) == IF v[1] = "baseo" THEN BaseOffset(r, orig + v[2]) ELSE v IN
  [r EXCEPT !.slots = [a \in DOMAIN sn.slots |-> Replayed(sn.slots[a])],
            !.low = Min({@} \cup DOMAIN sn.slots), !.high = Max({@} \cup DOMAIN sn.slots)]

-----------------------------------------------------------------------------
(* The interpreter's stack has the slots that the program may still read:  *)
(* not a register that nothing has set, nor what a return leaves above the *)
(* top, but for the results.                                               *)

Reg(s, n) == s.stk[s.base + n]
SetReg(s, n, v) == [s EXCEPT !.stk = (s.base + n :> v) @@ @]
Defined(s) == {n \in 0..(s.top - s.base - 1) : s.base + n \in DOMAIN s.stk}

\* The registers from 0 on are vs, and the frame has this size.
Below(s, top) == Restrict(s.stk, {a \in DOMAIN s.stk : a < top})
From(base, vs) == [a \in base..(base + Len(vs) - 1) |-> vs[a - base + 1]]
Frame(s, vs, framesize) ==
  [s EXCEPT !.stk = From(s.base, vs) @@ Below(s, s.base), !.top = s.base + framesize]

IPush(s, ret, node, vs, framesize) ==
  LET base == s.top + FRAME_SIZE IN
  Frame([s EXCEPT !.stk = From(s.top, <<<<"addr", s.base>>, ret, node>>) @@ Below(s, s.top),
                  !.base = base], vs, framesize)

\* do_return, with the results vs.
IReturn(s, vs) ==
  [stk |-> From(s.base, vs) @@ Below(s, s.base - FRAME_SIZE),
   base |-> s.stk[s.base - 3][2], top |-> s.base - FRAME_SIZE]

UpdPc == <<"pc", "UPD">>
UpdClosure == <<"clos", "UPD">>
ApCont(n) == <<"clos", <<"AP", n>>>>
ApPc(n) == <<"pc", <<"AP", n>>>>
apContFrameSize(n) == n + 1

\* What a call of f finds, after indirections: a function, a partial
\* application of a function to pap arguments, or a thunk.
Kinds == [t : {"FUN"}, arity : 1..2, pap : {0}] \cup
         [t : {"PAP"}, arity : {2, 3}, pap : {1}] \cup
         [t : {"THUNK"}, arity : {0}, pap : {0}]

PapArgs(f, n) == [i \in 1..n |-> <<"fld", Unind(f), i>>]
FunctionOf(f, kind) == IF kind.t = "PAP" THEN <<"fld", Unind(f), 0>> ELSE f
NewPap(f, args) == <<"pap", Unind(f), [i \in DOMAIN args |-> Unind(args[i])]>>

\* generic_apply in a frame that has f at -1 and the arguments.
IApply(s, f, args, kind) ==
  LET all == PapArgs(f, kind.pap) \o args
      fun == FunctionOf(f, kind)
      apk == Frame(SetReg(s, -1, ApCont(Len(args))), args, apContFrameSize(Len(args)))
      rest == SubSeq(all, kind.arity + 1, Len(all))
      apr == Frame(SetReg(s, -1, ApCont(Len(rest))), rest, apContFrameSize(Len(rest)))
  IN  CASE kind.t = "THUNK" ->
             IPush(IPush(apk, ApPc(Len(args)), UpdClosure, <<f>>, UPD_frame_size),
                   UpdPc, f, << >>, FunFrame)
        [] kind.t # "THUNK" /\ kind.arity = Len(all) ->
             Frame(SetReg(s, -1, fun), all, FunFrame)
        [] kind.t # "THUNK" /\ kind.arity < Len(all) ->
             IPush(apr, ApPc(Len(rest)), fun, SubSeq(all, 1, kind.arity), FunFrame)
        [] kind.t # "THUNK" /\ kind.arity > Len(all) ->
             IReturn(s, <<NewPap(fun, all)>>)

-----------------------------------------------------------------------------
(* Recording calls. *)

SetSlots(r, vs) == FoldLeft(LAMBDA q, i : setSlot(q, i - 1, vs[i]), r, [i \in 1..Len(vs) |-> i])

\* A continuation frame for CALL, or the current frame turned into one.
ContinuationFrame(r, ret, vs) ==
  LET size == apContFrameSize(Len(vs))
      r1 == IF ret # NULL THEN PushFrame(r, ret, ApCont(Len(vs)), size)
            ELSE setSlot(frame(r, r.base, r.base + size), -1, ApCont(Len(vs)))
  IN  clearSlots(SetSlots(r1, vs), Len(vs), size)

\* The thunk case of recordGenericApply2.
ApplyThunk(r, f, args, ret) ==
  LET upd == PushFrame(ContinuationFrame(Guard(r), ret, args), ApPc(Len(args)),
                       UpdClosure, UPD_frame_size)
  IN  PushFrame(clearSlots(setSlot(upd, 0, f), 1, 2), UpdPc, f, FunFrame)

ApplyExact(r, fun, all, ret) ==
  LET r1 == IF ret # NULL THEN PushFrame(r, ret, fun, FunFrame)
            ELSE frame(setSlot(r, -1, fun), r.base, r.base + FunFrame)
  IN  clearSlots(SetSlots(r1, all), Len(all), FunFrame)

ApplyOver(r, fun, all, arity, ret) ==
  LET rest == SubSeq(all, arity + 1, Len(all))
      r1 == PushFrame(ContinuationFrame(r, ret, rest), ApPc(Len(rest)), fun, FunFrame)
  IN  clearSlots(SetSlots(r1, SubSeq(all, 1, arity)), arity, FunFrame)

\* Partial application: the guard on the return address of a tail call and
\* the heap check come before the frame is cleaned up.
ReturnFrame(r, s) == frame(r, s.stk[s.base - 3][2], s.base - FRAME_SIZE)
ApplyPartial(r, fun, all, ret, s) ==
  LET r1 == emitHeapCheck(IF ret # NULL THEN r ELSE GuardReturn(r))
      r2 == setSlot(clearSlots(r1, -3, r.top - r.base), 0, NewPap(fun, all))
  IN  IF ret # NULL THEN setSlot(r1, r.top - r.base + FRAME_SIZE, NewPap(fun, all))
      ELSE ReturnFrame([r2 EXCEPT !.cs = returnTo(@, Reg(s, -2))], s)

recordGenericApply2(r, f, args, kind, ret, s) ==
  LET all == PapArgs(f, kind.pap) \o args
      fun == FunctionOf(f, kind)
      shape == IF kind.t = "PAP" THEN Guard(Guard(r)) ELSE r
  IN  CASE kind.t = "THUNK" -> ApplyThunk(r, f, args, ret)
        [] kind.t # "THUNK" /\ kind.arity = Len(all) -> ApplyExact(Guard(shape), fun, all, ret)
        [] kind.t # "THUNK" /\ kind.arity < Len(all) ->
             ApplyOver(Guard(shape), fun, all, kind.arity, ret)
        [] kind.t # "THUNK" /\ kind.arity > Len(all) ->
             ApplyPartial(Guard(shape), fun, all, ret, s)

followIndirection(r, a) == setSlot(Guard(r), a, <<"ind", Unind(slot(r, a))>>)
MaybeFollow(r, a, ind) == IF ind THEN followIndirection(r, a) ELSE r

-----------------------------------------------------------------------------

\* At the start of a function, or where a call returns to.
RecInit ==
  /\ \E size \in {FunFrame, MaxFrame} :
       /\ rec = AbstractReset(EntryBase, EntryBase + size)
       /\ \E live \in {{0, 1}, {0, size + FRAME_SIZE}} :
            st = [stk |-> Restrict(Mem, {a \in Addr : a < EntryBase \/ a - EntryBase \in live}),
                  base |-> EntryBase, top |-> EntryBase + size]
  /\ before = st
  /\ mode = "recording" /\ side = FALSE /\ floor = EntryBase /\ steps = 0

\* recordIns, and then the interpreter does the instruction.
Record(r, s) ==
  /\ mode = "recording" /\ steps < MaxSteps
  /\ rec' = r
  /\ st' = s
  /\ before' = st
  /\ mode' = IF r.ok THEN "recording" ELSE "aborted"
  /\ steps' = steps + 1
  /\ floor' = Min({floor, s.base})
  /\ UNCHANGED side

Now == [rec EXCEPT !.snaps = << >>]

\* An instruction that computes a register from others.
Sets(r, a, v, w) == Record(setSlot(r, a, v), SetReg(st, a, w))

FUNC ==
  /\ steps = 0 /\ ~side
  /\ Record([frame(Now, st.base, st.top) EXCEPT !.ok = TRUE], st)

LOADK(a) == Sets(Now, a, <<"lit", a>>, <<"lit", a>>)

\* ISLT and the other conditions, CASE and CASE_S: only a guard.
Condition == Record(Guard(Now), st)

\* ARITH_OP_RRR, ARITH_OP_RR, PTROFSC
Arithmetic(a, b, c) ==
  Sets(Now, a, <<"op", Unind(slot(rec, b)), Unind(slot(rec, c))>>,
               <<"op", Unind(Reg(st, b)), Unind(Reg(st, c))>>)

\* MOV, and LOADSLF with b = -1.
Move(a, b) == Sets(Now, a, slot(rec, b), Reg(st, b))

\* LOADF, and LOADFV with b = -1.
LoadFrom(a, b) == Sets(Now, a, Built("load", slot(rec, b)), Built("load", Reg(st, b)))

GETTAG(a, b) == Sets(Guard(Now), a, <<"lit", "tag">>, <<"lit", "tag">>)

\* ALLOC1, ALLOC, ALLOCAP
Allocate(a, b) ==
  Sets(emitHeapCheck(Now), a, Built("new", slot(rec, b)), Built("new", Reg(st, b)))

\* The stack keeps its values: an update is to the heap.
UPDATE == Record(Guard(Now), st)
UPDATECaf == Record([Now EXCEPT !.ok = FALSE], st)

EVALValue(a, ind) ==
  LET r == Guard(MaybeFollow(Now, a, ind)) IN
  Record(setSlot(r, st.top - st.base + FRAME_SIZE, slot(r, a)),
         [st EXCEPT !.stk = (st.top + FRAME_SIZE :> Reg(st, a)) @@ @])

EVALThunk(a, ind, ret) ==
  LET r == Guard(MaybeFollow(Now, a, ind))
      upd == PushFrame(r, ret, UpdClosure, UPD_frame_size)
      thunk == PushFrame(clearSlots(setSlot(upd, 0, slot(r, a)), 1, 2), UpdPc, slot(r, a), FunFrame)
  IN  Record(clearSlots(thunk, 0, FunFrame),
             IPush(IPush(st, ret, UpdClosure, <<Reg(st, a)>>, UPD_frame_size),
                   UpdPc, Reg(st, a), << >>, FunFrame))

ArgValues(args) == [i \in DOMAIN args |-> Reg(st, args[i])]
ArgSlots(r, args) == [i \in DOMAIN args |-> slot(r, args[i])]

\* A partial application that is applied to too many arguments.
Exits(kind, args) == kind.t = "PAP" /\ kind.arity < kind.pap + Len(args)

CALL(a, args, kind, ind, ret) ==
  LET r == MaybeFollow(Now, a, ind) IN
  /\ ~Exits(kind, args)
  /\ Record(recordGenericApply2(r, slot(r, a), ArgSlots(r, args), kind, ret, st),
            IApply(IPush(st, ret, Reg(st, a), ArgValues(args), Len(args)),
                   Reg(st, a), ArgValues(args), kind))

\* The arguments of a tail call are in the registers from 0 on.
CALLT(a, n, kind, ind) ==
  LET r == MaybeFollow(Now, a, ind)
      args == [i \in 1..n |-> i - 1]
  IN  /\ ~Exits(kind, args)
      /\ kind.arity > kind.pap + n => st.base # BottomBase
      /\ Record(recordGenericApply2(r, slot(r, a), ArgSlots(r, args), kind, NULL, st),
                IApply(Frame(SetReg(st, -1, Reg(st, a)), ArgValues(args), n),
                       Reg(st, a), ArgValues(args), kind))

CallExits(args, kind) ==
  /\ mode = "recording" /\ steps < MaxSteps
  /\ Exits(kind, args)
  /\ mode' = "exited"
  /\ steps' = steps + 1
  /\ UNCHANGED <<rec, st, before, side, floor>>

\* RET1 and IRET.
RET1(a) ==
  LET r == [GuardReturn(Now) EXCEPT !.cs = returnTo(@, Reg(st, -2))] IN
  /\ st.base # BottomBase
  /\ Record(ReturnFrame(setSlot(clearSlots(r, -3, r.top - r.base), 0, slot(r, a)), st),
            IReturn(st, <<Reg(st, a)>>))

RETN(n) ==
  LET r == [GuardReturn(Now) EXCEPT !.cs = returnTo(@, Reg(st, -2))] IN
  /\ st.base # BottomBase
  /\ Record(ReturnFrame(clearSlots(clearSlots(r, -3, 0), n, r.top - r.base), st),
            IReturn(st, [i \in 1..n |-> Reg(st, i - 1)]))

MOV_RES(a, d) ==
  LET n == rec.top - rec.base + FRAME_SIZE + d
      m == st.top - st.base + FRAME_SIZE + d
  IN  /\ st.base + m \in DOMAIN st.stk
      /\ Record(setSlot(clearSlots(Now, n, n + 1), a, slot(rec, n)),
                SetReg([st EXCEPT !.stk = Restrict(@, DOMAIN @ \ {st.base + m})], a, Reg(st, m)))

\* JFUNC, and a loop: the trace ends with SAVE.
Save ==
  /\ mode = "recording" /\ steps > 0
  /\ rec' = Guard(Now)
  /\ before' = st
  /\ mode' = "finished"
  /\ UNCHANGED <<st, side, floor, steps>>

\* beginSideTrace, at a guard of the last instruction that fails: the
\* interpreter does that instruction again, and another way.
BeginSideTrace(i) ==
  LET sn == rec.snaps[i]
      back == Restored(sn, rec.orig)
  IN  /\ mode = "recording" /\ ~side
      /\ rec' = replaySnapshot(sn, rec.orig, AbstractReset(back.base, back.top))
      /\ st' = before
      /\ side' = TRUE /\ floor' = back.base
      /\ UNCHANGED <<before, mode, steps>>

RetPc == <<"pc", steps>>

\* Operands: the last register that is set, and for calls also the first.
Sources == {n \in Defined(st) : \A m \in Defined(st) : m <= n}
CallArgs == {<<Min(Defined(st))>>, <<Max(Defined(st)), Min(Defined(st))>>}
InPlace(n) == 0..(n - 1) \subseteq Defined(st)

RecNext ==
  \/ FUNC \/ Condition \/ UPDATE \/ UPDATECaf \/ Save
  \/ \E a \in Dests :
       \/ LOADK(a)
       \/ \E b \in Sources : Arithmetic(a, b, b) \/ GETTAG(a, b) \/ Allocate(a, b)
       \/ \E b \in Sources \cup {-1} : Move(a, b) \/ LoadFrom(a, b)
       \/ \E d \in 0..1 : MOV_RES(a, d)
  \/ \E a \in Sources, ind \in BOOLEAN :
       \/ EVALValue(a, ind) \/ EVALThunk(a, ind, RetPc)
       \/ \E kind \in Kinds :
            /\ ind => kind.arity = 1
            /\ \/ \E args \in CallArgs : CALL(a, args, kind, ind, RetPc) \/ CallExits(args, kind)
               \/ \E n \in 1..2 : InPlace(n) /\ CALLT(a, n, kind, ind)
  \/ \E a \in Sources : RET1(a)
  \/ \E n \in 1..2 : InPlace(n) /\ RETN(n)
  \/ \E i \in DOMAIN rec.snaps : BeginSideTrace(i)

RecSpec == RecInit /\ [][RecNext]_recVars

-----------------------------------------------------------------------------

Agrees(v, w) == Unind(v) = Unind(w)

RecTypeOK ==
  /\ mode \in {"recording", "finished", "aborted", "exited"}
  /\ side \in BOOLEAN /\ steps \in 0..MaxSteps
  /\ DOMAIN rec.slots \subseteq rec.low..rec.high
  /\ mode = "recording" => rec.base = st.base /\ rec.top = st.top

\* The abstract stack, over the memory the trace starts with, is the stack
\* of the interpreter in everything the program may still read.
StackAgrees ==
  mode = "recording" =>
    \A a \in DOMAIN st.stk :
      Agrees(st.stk[a], IF a \in DOMAIN rec.slots THEN Evaluated(rec.slots[a], rec.orig) ELSE Mem[a])

\* Wherever a guard fails, restoring its snapshot gives the base, the top
\* and the stack that the interpreter had before the instruction, even if
\* the instruction had changed some of the stack before the guard ("all the
\* guards must occur before any state changes", recordGenericApply2).
SnapshotExact ==
  mode \in {"recording", "finished"} =>
    \A i \in DOMAIN rec.snaps :
      LET back == Restored(rec.snaps[i], rec.orig) IN
      /\ back.base = before.base /\ back.top = before.top
      /\ \A a \in DOMAIN before.stk : Agrees(before.stk[a], back.stk[a])

\* The frames on the interpreter's stack, from the top.
FrameBase(s) ==
  LET base[d \in 0..Len(rec.cs.nodes)] ==
        IF d = 0 THEN s.base ELSE s.stk[base[d - 1] - 3][2]
  IN  base

\* The call stack that loops are compared by has the return addresses of
\* all frames above the lowest one the trace has been in, although calls
\* push up to three frames at once and a partial application pushes none.
CallStackAgrees ==
  mode = "recording" =>
    LET known == Known(rec.cs, rec.cs.curr) IN
    /\ \A d \in DOMAIN known : known[d] = st.stk[FrameBase(st)[d - 1] - 2]
    /\ FrameBase(st)[Len(known)] = floor

\* The recorder and the interpreter stay in step: same base and top, same
\* stack, same frames.
RecorderAgrees == RecTypeOK /\ StackAgrees /\ CallStackAgrees

=============================================================================
