------------------------------- MODULE IRFold -------------------------------
(***************************************************************************)
(* The optimising IR buffer (vm/ir.cc emit, optCSE, emitNEW,               *)
(* setHeapOffsets; vm/ir_fold.cc; the buffer and heap classes of           *)
(* vm/ir.hh).                                                              *)
(*                                                                         *)
(* The recorder asks for instructions.  Each request is folded, shared     *)
(* with an earlier instruction, or emitted.  The same requests with the    *)
(* optimisations off (disableOptimisation) make the raw program, and res   *)
(* maps its references to those of the optimised one.  The recorder runs   *)
(* beside the interpreter, so all guards it asks for hold in some state of *)
(* the program; the trace may then start in any other.                     *)
(*                                                                         *)
(* A reference is the code's minus REF_BIAS: instructions are positive,    *)
(* literals negative, 0 is no reference.  All arithmetic the recorder asks *)
(* for has type I64, so the type tests of the rules are left out, as is    *)
(* PHIBARRIER: nothing sets IRT_ISPHI.                                     *)
(***************************************************************************)
EXTENDS IRLiterals, SequencesExt

CONSTANTS
  IntSlots,     \* how many stack slots hold integers
  IntValues,    \* the integers they may hold
  IntLits,      \* the integer literals of the program
  MaxArith,     \* bound on the requests of a trace of integer operations
  MaxHeapOps,   \* bound on those of a trace of heap operations
  MaxRetries    \* the fold rules are retried at most this often

VARIABLES
  buf,     \* the buffer: literal cells, instructions, heap entries, snapshots
  raw,     \* the buffer with the optimisations off
  res,     \* of each instruction of raw: what the optimised request returned
  known,   \* the references of raw that are values: guarded, or just made
  todo,    \* how many more requests the recorder makes
  phase    \* "int" or "heap" while recording, then "assembled",
           \* "failing" after FAILFOLD, "looping" when the rules did not stop

foldVars == <<buf, raw, res, known, todo, phase>>

WordSize == HalfWord * HalfWord

\* Info tables and the address of a static closure.
IndInfo == 1
ThunkInfo == 2
ConsInfo == 3
StaticClosure == 5

Ins(op, a, b) == [op |-> op, a |-> a, b |-> b]
IsLit(r) == r < 0
Opcode(b, r) == IF r > 0 THEN b.irs[r].op ELSE "LIT"
KValue(b, r) == literalValue(b.lits, r, 0)
REF_IND == -1

\* IRT_GUARD is set.
Guards == {"LT", "GE", "EQ", "NE", "EQINFO", "NEINFO", "HEAPCHK", "SAVE"}

\* Modes A, L and S: no CSE.
NoCSE == {"SLOAD", "FLOAD", "NEW", "UPDATE", "HEAPCHK", "SAVE"}

Refs(b, op) == {r \in DOMAIN b.irs : b.irs[r].op = op}
Newest(S) == CHOOSE r \in S : \A q \in S : q <= r

\* IRBuffer::snapshot: lastHeapEntry_.
LastEntry(b) == IF Refs(b, "NEW") = {} THEN 0 ELSE b.irs[Newest(Refs(b, "NEW"))].b

emit(b, ins) ==
  [b EXCEPT !.irs = Append(@, ins),
            !.snaps = IF ins.op \in Guards
                      THEN Append(@, [ref |-> Len(b.irs) + 1, last |-> LastEntry(b)])
                      ELSE @]

\* emitNEW and setField: a heap entry that is not an indirection.
emitNEW(b, itbl, fields) ==
  [emit(b, Ins("NEW", itbl, Len(b.ents) + 1)) EXCEPT
     !.ents = Append(@, [fields |-> fields, fwd |-> 0, hpofs |-> 0, over |-> 0])]

-----------------------------------------------------------------------------
(* The fold rules.  A fold state has the buffer, the instruction, and what *)
(* the last rule said of it.                                               *)

FoldState(b, ins) == [b |-> b, ins |-> ins, k |-> "next", ref |-> 0, lit |-> 0]
NEXTFOLD(f) == [f EXCEPT !.k = "next"]
RETRYFOLD(f, ins) == [f EXCEPT !.k = "retry", !.ins = ins]
KLITFOLD(f, w) == [f EXCEPT !.k = "lit", !.lit = w]
REFFOLD(f, r) == [f EXCEPT !.k = "ref", !.ref = r]
GUARDFOLD(f, holds) == [f EXCEPT !.k = IF holds THEN "drop" ELSE "fail"]

\* A rule that needs a literal: Q is the instruction with its reference.
RetryWithLit(f, w, Q(_)) ==
  LET l == literal(f.b.lits, "I64", w) IN
  RETRYFOLD([f EXCEPT !.b.lits = l.lits], Q(l.ref))

Left(f) == f.b.irs[f.ins.a]
Right(f) == f.b.irs[f.ins.b]
LeftIs(f, op) == Opcode(f.b, f.ins.a) = op
RightIs(f, op) == Opcode(f.b, f.ins.b) = op
RightK(f) == KValue(f.b, f.ins.b)

kfold_intop(k1, k2, op) ==
  CASE op = "ADD" -> (k1 + k2) % WordSize
    [] op = "SUB" -> (k1 - k2) % WordSize

kfold_arith(f) ==
  IF LeftIs(f, "LIT") /\ RightIs(f, "LIT")
  THEN KLITFOLD(f, kfold_intop(KValue(f.b, f.ins.a), RightK(f), f.ins.op))
  ELSE NEXTFOLD(f)

simplify_intadd_k(f) ==
  IF RightIs(f, "LIT") /\ RightK(f) = 0 THEN REFFOLD(f, f.ins.a) ELSE NEXTFOLD(f)

comm_swap(f) ==
  IF f.ins.a < f.ins.b THEN RETRYFOLD(f, Ins(f.ins.op, f.ins.b, f.ins.a)) ELSE NEXTFOLD(f)

\* (x + k1) + k2 ==> x + (k1 + k2)
reassoc_int_arith(f) ==
  IF LeftIs(f, "ADD") /\ RightIs(f, "LIT") /\ IsLit(Left(f).b)
  THEN LET k1 == KValue(f.b, Left(f).b)
           k == kfold_intop(k1, RightK(f), f.ins.op)
       IN  IF k = k1 THEN REFFOLD(f, f.ins.a)
           ELSE RetryWithLit(f, k, LAMBDA r : Ins(f.ins.op, Left(f).a, r))
  ELSE NEXTFOLD(f)

\* i - 0 ==> i,  i - k ==> i + (-k)
simplify_sub_k(f) ==
  IF RightIs(f, "LIT")
  THEN IF RightK(f) = 0 THEN REFFOLD(f, f.ins.a)
       ELSE RetryWithLit(f, (-RightK(f)) % WordSize, LAMBDA r : Ins("ADD", f.ins.a, r))
  ELSE NEXTFOLD(f)

\* 0 - i ==> -i.  The second operand keeps its value.
simplify_intsub_kleft(f) ==
  IF LeftIs(f, "LIT") /\ KValue(f.b, f.ins.a) = 0
  THEN RETRYFOLD(f, Ins("NEG", f.ins.b, f.ins.b)) ELSE NEXTFOLD(f)

\* i - i ==> 0
simplify_intsub(f) == IF f.ins.a = f.ins.b THEN KLITFOLD(f, 0) ELSE NEXTFOLD(f)

\* (i + j) - i ==> j,  (i + j) - j ==> i
simplify_intsubadd_leftcancel(f) ==
  IF LeftIs(f, "ADD") /\ f.ins.b = Left(f).a THEN REFFOLD(f, Left(f).b)
  ELSE IF LeftIs(f, "ADD") /\ f.ins.b = Left(f).b THEN REFFOLD(f, Left(f).a)
  ELSE NEXTFOLD(f)

\* (i - j) - i ==> 0 - j
simplify_intsubsub_leftcancel(f) ==
  IF LeftIs(f, "SUB") /\ Left(f).a = f.ins.b
  THEN RetryWithLit(f, 0, LAMBDA r : Ins("SUB", r, Left(f).b)) ELSE NEXTFOLD(f)

\* i - (i - j) ==> j
simplify_intsubsub_rightcancel(f) ==
  IF RightIs(f, "SUB") /\ f.ins.a = Right(f).a THEN REFFOLD(f, Right(f).b) ELSE NEXTFOLD(f)

\* i - (i + j) ==> 0 - j,  i - (j + i) ==> 0 - j
simplify_intsubadd_rightcancel(f) ==
  IF RightIs(f, "ADD") /\ f.ins.a = Right(f).a
  THEN RetryWithLit(f, 0, LAMBDA r : Ins("SUB", r, Right(f).b))
  ELSE IF RightIs(f, "ADD") /\ f.ins.a = Right(f).b
  THEN RetryWithLit(f, 0, LAMBDA r : Ins("SUB", r, Right(f).a))
  ELSE NEXTFOLD(f)

\* (x + y) - (x + z) ==> y - z, for either order of each sum.
simplify_intsubaddadd_cancel(f) ==
  LET l == Left(f)
      r == Right(f)
      Cancel(x, y) == RETRYFOLD(f, Ins("SUB", x, y))
  IN  IF ~(LeftIs(f, "ADD") /\ RightIs(f, "ADD")) THEN NEXTFOLD(f)
      ELSE IF l.a = r.a THEN Cancel(l.b, r.b)
      ELSE IF l.a = r.b THEN Cancel(l.b, r.a)
      ELSE IF l.b = r.a THEN Cancel(l.a, r.b)
      ELSE IF l.b = r.b THEN Cancel(l.a, r.a)
      ELSE NEXTFOLD(f)

\* heapchk N, heapchk M ==> heapchk (N + M), at the place of the first.
HeapcheckDropped(f) ==
  IF Refs(f.b, "HEAPCHK") = {} THEN NEXTFOLD(f) ELSE [f EXCEPT !.k = "drop"]
foldHeapcheck(f) ==
  LET chks == Refs(f.b, "HEAPCHK") IN
  IF chks = {} THEN NEXTFOLD(f)
  ELSE [f EXCEPT !.k = "drop", !.b.irs[Newest(chks)].a = @ + f.ins.a]

\* The info table of a static closure is known.
kfold_eqinfo(f) ==
  IF LeftIs(f, "LIT") /\ RightIs(f, "LIT")
  THEN GUARDFOLD(f, (f.ins.op = "EQINFO") <=> (ConsInfo = RightK(f)))
  ELSE NEXTFOLD(f)

kfold_cmp(f) ==
  IF LeftIs(f, "LIT") /\ RightIs(f, "LIT")
  THEN GUARDFOLD(f, (f.ins.op = "EQ") <=> (KValue(f.b, f.ins.a) = RightK(f)))
  ELSE NEXTFOLD(f)

\* A field of an object made on the trace, or what it was updated with.
ForwardStale(f) ==
  LET x == Left(f).a IN
  IF Opcode(f.b, x) = "NEW"
  THEN REFFOLD(f, f.b.ents[f.b.irs[x].b].fields[Left(f).b])
  ELSE NEXTFOLD(f)
load_fwd(f) ==
  LET x == Left(f).a IN
  IF Opcode(f.b, x) = "NEW"
  THEN LET e == f.b.ents[f.b.irs[x].b] IN
       REFFOLD(f, IF e.fwd # 0 THEN e.fwd ELSE e.fields[Left(f).b])
  ELSE NEXTFOLD(f)

\* UPDATE of an object made on the trace: noted, and still emitted.
kfold_update_new(f) ==
  IF LeftIs(f, "NEW")
  THEN NEXTFOLD([f EXCEPT !.b.ents[Left(f).b].fwd = f.ins.b])
  ELSE NEXTFOLD(f)

\* info(NEW k1 [...]) == k2 ==> k1 == k2
kfold_eqinfo_new(f) ==
  IF LeftIs(f, "NEW") /\ RightIs(f, "LIT")
  THEN RETRYFOLD(f, Ins(IF f.ins.op = "EQINFO" THEN "EQ" ELSE "NE",
                        IF f.b.ents[Left(f).b].fwd # 0 THEN REF_IND ELSE Left(f).a,
                        f.ins.b))
  ELSE NEXTFOLD(f)

\* PATTERN: the first rule that applies.
Or(f, g) == IF f.k # "next" THEN f ELSE g

\* One pass over the rules for the opcode.
FoldOnce(f) ==
  CASE f.ins.op = "ADD" ->
         Or(kfold_arith(f), Or(reassoc_int_arith(f),
           Or(simplify_intadd_k(f), comm_swap(f))))
    [] f.ins.op = "SUB" ->
         Or(kfold_arith(f), Or(simplify_sub_k(f), Or(simplify_intsub_kleft(f),
           Or(simplify_intsub(f), Or(simplify_intsubadd_leftcancel(f),
             Or(simplify_intsubsub_leftcancel(f), Or(simplify_intsubsub_rightcancel(f),
               Or(simplify_intsubadd_rightcancel(f), simplify_intsubaddadd_cancel(f)))))))))
    [] f.ins.op = "UPDATE" -> kfold_update_new(f)
    [] f.ins.op \in {"EQINFO", "NEINFO"} -> Or(kfold_eqinfo(f), kfold_eqinfo_new(f))
    [] f.ins.op = "HEAPCHK" -> foldHeapcheck(f)
    [] f.ins.op \in {"EQ", "NE"} -> kfold_cmp(f)
    [] f.ins.op = "FLOAD" -> load_fwd(f)
    [] OTHER -> NEXTFOLD(f)

FoldAgain(f) == IF f.k = "retry" THEN FoldOnce(f) ELSE f
doFold(f) ==
  LET again[n \in 0..MaxRetries] == IF n = 0 THEN FoldOnce(f) ELSE FoldAgain(again[n - 1])
  IN  again[MaxRetries]

\* A buffer, and the reference a request returns.
Result(b, ref) == [b |-> b, ref |-> ref]
Emitted(b, ins) == Result(emit(b, ins), Len(b.irs) + 1)

\* An earlier instruction with the same operands, newer than both.  The
\* second operand of FREF is a number.
Same(b, ins) ==
  {r \in Refs(b, ins.op) : /\ b.irs[r] = ins
                           /\ r > ins.a /\ (ins.op # "FREF" => r > ins.b)}
optCSE(b, ins) ==
  IF Same(b, ins) # {} THEN Result(b, Newest(Same(b, ins))) ELSE Emitted(b, ins)

\* What a request returns, with k = "fail" when it throws and "retry" when
\* the rules did not stop.
WithLit(b, l) == Result([b EXCEPT !.lits = l.lits], l.ref)
Answer(f) ==
  CASE f.k = "ref" -> Result(f.b, f.ref)
    [] f.k = "lit" -> WithLit(f.b, literal(f.b.lits, "I64", f.lit))
    [] f.k = "next" -> IF f.ins.op \in NoCSE THEN Emitted(f.b, f.ins)
                       ELSE optCSE(f.b, f.ins)
    [] OTHER -> Result(f.b, 0)
Answered(f) == Answer(f) @@ [k |-> f.k]
optFold(b, ins) == Answered(doFold(FoldState(b, ins)))

\* setHeapOffsets: how far behind Hp an allocation is, and how many words
\* its heap check reserved for later ones.
Size(e) == Len(e.fields) + 1
NewRef(b, n) == CHOOSE r \in Refs(b, "NEW") : b.irs[r].b = n
Later(b, n) ==
  {m \in (n + 1)..Len(b.ents) :
     \A c \in Refs(b, "HEAPCHK") : ~(NewRef(b, n) < c /\ c < NewRef(b, m))}
Words(b, ns) == MapThenSumSet(LAMBDA m : Size(b.ents[m]), ns)
setHeapOffsets(b) ==
  [b EXCEPT !.ents = [n \in DOMAIN @ |->
     LET over == Words(b, Later(b, n)) IN
     [@[n] EXCEPT !.over = over, !.hpofs = -(over + Size(b.ents[n]))]]]

\* Snapshot::overallocated
overallocated(b, sn) == IF sn.last = 0 THEN 0 ELSE b.ents[sn.last].over

-----------------------------------------------------------------------------
(* Running a trace.  An environment gives the values of the stack slots    *)
(* and the heap the trace finds; what an object is made of is its info     *)
(* table and its fields.                                                   *)

Object(info, field) == [info |-> info, fields |-> <<field>>]
NewAddress(n) == 100 + n

IntEnvs == [slot : [1..IntSlots -> IntValues], heap : {<< >>}]

\* Two closures on the stack, which may be one, and each of which has the
\* other for its field; an indirection leads to a value.
HeapEnvs ==
  {e \in [slot : {<<8, 8>>, <<8, 9>>},
          heap : {(StaticClosure :> Object(ConsInfo, 8)) @@
                  (8 :> Object(i, 9)) @@ (9 :> Object(j, 8)) :
                    i, j \in {IndInfo, ThunkInfo, ConsInfo}}] :
     \A x \in {8, 9} : e.heap[x].info = IndInfo =>
                        e.heap[e.heap[x].fields[1]].info = ConsInfo}

Envs == IF Len(raw.irs) > 0 /\ raw.irs[1].b = 1 THEN IntEnvs ELSE HeapEnvs

At(b, s, r) == IF IsLit(r) THEN KValue(b, r) ELSE s.v[r]
Signed(w) == IF w < WordSize \div 2 THEN w ELSE w - WordSize

Holding(b, s, ins) ==
  LET x == At(b, s, ins.a)
      y == At(b, s, ins.b)
  IN  CASE ins.op = "LT" -> Signed(x) < Signed(y)
        [] ins.op = "GE" -> Signed(x) >= Signed(y)
        [] ins.op = "EQ" -> x = y
        [] ins.op = "NE" -> x # y
        [] ins.op = "EQINFO" -> s.heap[x].info = y
        [] OTHER -> TRUE

ValueOf(b, s, e, ins) ==
  CASE ins.op = "SLOAD" -> e.slot[ins.a]
    [] ins.op \in {"ADD", "SUB"} -> kfold_intop(At(b, s, ins.a), At(b, s, ins.b), ins.op)
    [] ins.op = "NEG" -> (-At(b, s, ins.a)) % WordSize
    [] ins.op = "FREF" -> <<At(b, s, ins.a), ins.b>>
    [] ins.op = "FLOAD" -> LET r == At(b, s, ins.a) IN s.heap[r[1]].fields[r[2]]
    [] ins.op = "NEW" -> NewAddress(ins.b)
    [] OTHER -> 0

HeapAfter(b, s, ins) ==
  CASE ins.op = "NEW" ->
         NewAddress(ins.b) :> [info |-> At(b, s, ins.a),
                               fields |-> [i \in DOMAIN b.ents[ins.b].fields |->
                                             At(b, s, b.ents[ins.b].fields[i])]] @@ s.heap
    [] ins.op = "UPDATE" ->
         [s.heap EXCEPT ![At(b, s, ins.a)] = Object(IndInfo, At(b, s, ins.b))]
    [] OTHER -> s.heap

\* The values of the instructions, the heap, and the guard that failed.
Run(b, e) ==
  LET after[n \in 0..Len(b.irs)] ==
        IF n = 0 THEN [v |-> << >>, heap |-> e.heap, exit |-> 0]
        ELSE LET s == after[n - 1]
                 ins == b.irs[n]
             IN  IF s.exit # 0 THEN s
                 ELSE IF ~Holding(b, s, ins) THEN [s EXCEPT !.exit = n]
                 ELSE [v |-> Append(s.v, ValueOf(b, s, e, ins)),
                       heap |-> HeapAfter(b, s, ins), exit |-> 0]
  IN  after[Len(b.irs)]

-----------------------------------------------------------------------------
(* The requests. *)

\* Program literals, which are interned before the first request.
ProgramLits ==
  FoldLeft(LAMBDA ls, l : literal(ls, l[1], l[2]).lits, << >>,
           <<<<"INFO", IndInfo>>, <<"INFO", ThunkInfo>>, <<"INFO", ConsInfo>>,
             <<"CLOS", StaticClosure>>>> \o
           [i \in 1..Len(IntLits) |-> <<"I64", IntLits[i]>>])
LitRef(t, w) == literal(ProgramLits, t, w).ref

\* IRBuffer::reset, and SLOADs for the slots.  Their second operand tells
\* integers and closures apart here.
Empty == [lits |-> ProgramLits, irs |-> << >>, ents |-> << >>, snaps |-> << >>]
Loaded(n, t) == [Empty EXCEPT !.irs = [i \in 1..n |-> Ins("SLOAD", i, t)]]

FoldInit ==
  /\ \/ phase = "int" /\ buf = Loaded(IntSlots, 1) /\ todo = MaxArith
     \/ phase = "heap" /\ buf = Loaded(2, 2) /\ todo = MaxHeapOps
  /\ raw = buf
  /\ res = [r \in DOMAIN raw.irs |-> r]
  /\ known = {LitRef("CLOS", StaticClosure)}

\* The operands of an instruction of raw, as the optimised buffer has them.
Mapped(s, r) == IF r > 0 THEN s.res[r] ELSE r
MapIns(s, ins) ==
  CASE ins.op \in {"HEAPCHK", "SAVE"} -> ins
    [] ins.op \in {"FREF", "FLOAD"} -> [ins EXCEPT !.a = Mapped(s, @)]
    [] OTHER -> [ins EXCEPT !.a = Mapped(s, @), !.b = Mapped(s, @)]

\* The two buffers after one more request.
Both == [buf |-> buf, raw |-> raw, res |-> res, k |-> "next"]
After(s, ins, o) ==
  [buf |-> o.b, raw |-> emit(s.raw, ins), res |-> Append(s.res, o.ref),
   k |-> IF s.k \in {"fail", "retry"} THEN s.k ELSE o.k]
Ask(s, ins) ==
  After(s, ins, IF ins.op = "SAVE" THEN [b |-> emit(s.buf, ins), ref |-> 0, k |-> "next"]
                ELSE optFold(s.buf, MapIns(s, ins)))
AskNEW(s, itbl, field) ==
  [s EXCEPT !.buf = emitNEW(@, itbl, <<Mapped(s, field)>>),
            !.raw = emitNEW(@, itbl, <<field>>),
            !.res = Append(@, Len(s.buf.irs) + 1)]

\* The request was made while the program ran: some state passes all guards.
Feasible(b) == ~ \A e \in Envs : Run(b, e).exit # 0

Made(s) ==
  /\ todo' = todo - 1
  /\ buf' = s.buf /\ raw' = s.raw /\ res' = s.res
  /\ phase' = CASE s.k = "fail" -> "failing" [] s.k = "retry" -> "looping" [] OTHER -> phase

IntRefs == {r \in DOMAIN raw.irs : raw.irs[r].op \in {"SLOAD", "ADD", "SUB", "NEG"}}
             \cup {LitRef("I64", IntLits[i]) : i \in DOMAIN IntLits}
ClosRefs == {r \in DOMAIN raw.irs : raw.irs[r].op \in {"SLOAD", "FLOAD", "NEW"}}
              \cup {LitRef("CLOS", StaticClosure)}

\* Results that no instruction uses.  Only traces that come to use all their
\* results but the last are of interest, and each request uses two at most.
Unused(b) ==
  {r \in DOMAIN b.irs : /\ b.irs[r].op \in {"ADD", "SUB", "NEG"}
                         /\ \A q \in DOMAIN b.irs : r \notin {b.irs[q].a, b.irs[q].b}}

\* ADDRR, SUBRR, NEG
Arith(op, x, y) ==
  /\ phase = "int" /\ todo > 0
  /\ \E s \in {Ask(Both, Ins(op, x, y))} :
       /\ Made(s)
       /\ Cardinality(Unused(s.raw)) <= todo
       /\ UNCHANGED known

\* The guard of a comparison, and of a return, as the last request.
Compare(op, x, y) ==
  /\ phase = "int" /\ todo = 1
  /\ \E s \in {Ask(Both, Ins(op, x, y))} :
       /\ Feasible(s.raw)
       /\ Made(s)
       /\ Unused(s.raw) = {}
       /\ UNCHANGED known

\* EVAL and CASE: the info table the closure has.
Inspect(x, info) ==
  /\ phase = "heap" /\ todo > 0
  /\ \E s \in {Ask(Both, Ins("EQINFO", x, LitRef("INFO", info)))} :
       /\ Feasible(s.raw)
       /\ Made(s)
       /\ known' = IF info = ConsInfo THEN known \cup {x} ELSE known

\* followIndirection
Follow(x) ==
  /\ phase = "heap" /\ todo > 0
  /\ \E s \in {Ask(Both, Ins("EQINFO", x, LitRef("INFO", IndInfo)))} :
       /\ Feasible(s.raw)
       /\ Made(Ask(Ask(s, Ins("FREF", x, 1)), Ins("FLOAD", Len(raw.irs) + 2, 0)))
       /\ known' = known \cup {Len(raw.irs) + 3}

\* LOADF
LoadField(x) ==
  /\ phase = "heap" /\ todo > 0 /\ x \in known
  /\ Made(Ask(Ask(Both, Ins("FREF", x, 1)), Ins("FLOAD", Len(raw.irs) + 1, 0)))
  /\ UNCHANGED known

\* UPDATE of a thunk with a value.
Update(x, y) ==
  /\ phase = "heap" /\ y \in known /\ todo > 0
  /\ \E s \in {Ask(Both, Ins("EQINFO", x, LitRef("INFO", ThunkInfo)))} :
       /\ Feasible(s.raw)
       /\ Made(Ask(s, Ins("UPDATE", x, y)))
       /\ UNCHANGED known

\* ALLOC1
Alloc(info, x) ==
  /\ phase = "heap" /\ todo > 0
  /\ \E s \in {Ask(Both, Ins("HEAPCHK", 2, 0))} :
       /\ Made(AskNEW(s, LitRef("INFO", info), x))
       /\ known' = IF info = ConsInfo THEN known \cup {Len(raw.irs) + 2} ELSE known

\* The last instruction of a trace; then the assembler sets the offsets.
Finish ==
  /\ phase \in {"int", "heap"} /\ todo = 0
  /\ \E s \in {Ask(Both, Ins("SAVE", 0, 0))} :
       /\ buf' = setHeapOffsets(s.buf)
       /\ raw' = setHeapOffsets(s.raw)
       /\ res' = s.res
       /\ phase' = "assembled"
       /\ UNCHANGED <<known, todo>>

FoldNext ==
  \/ \E op \in {"ADD", "SUB"}, x, y \in IntRefs : Arith(op, x, y)
  \/ \E x \in IntRefs : Arith("NEG", x, 0)
  \/ \E op \in {"EQ", "NE", "LT", "GE"}, x, y \in IntRefs : Compare(op, x, y)
  \/ \E x \in ClosRefs, info \in {ThunkInfo, ConsInfo} : Inspect(x, info)
  \/ \E x \in ClosRefs : Follow(x) \/ LoadField(x)
  \/ \E x, y \in ClosRefs : Update(x, y)
  \/ \E x \in ClosRefs, info \in {ThunkInfo, ConsInfo} : Alloc(info, x)
  \/ Finish

FoldSpec == FoldInit /\ [][FoldNext]_foldVars

-----------------------------------------------------------------------------

FoldTypeOK ==
  /\ phase \in {"int", "heap", "assembled", "failing", "looping"}
  /\ todo \in 0..(MaxArith + MaxHeapOps)
  /\ Len(res) = Len(raw.irs)
  /\ \A r \in DOMAIN res : res[r] \in (-Len(buf.lits))..Len(buf.irs)
  /\ known \subseteq DOMAIN raw.irs \cup {LitRef("CLOS", StaticClosure)}

\* A thunk that the trace entered was updated through another reference to
\* it before its own update: its evaluation would have needed its own value.
\* The guard of its own update is shared with the one that entered it, and
\* does not see this.
Reenters(r) ==
  /\ r.exit # 0 /\ raw.irs[r.exit] = Ins("EQINFO", raw.irs[r.exit].a, LitRef("INFO", ThunkInfo))
  /\ \E g \in 1..(r.exit - 1) : raw.irs[g].op = "EQINFO" /\ res[g] = res[r.exit]

\* The optimised trace does what the requests say, from every state it may
\* be entered in: it leaves at the guard that one of them failed at or runs
\* to its end, and there it has the same values in all references and the
\* same heap.  (optFold, optCSE and all rules of ir_fold.cc.)
FoldSound ==
  phase = "assembled" =>
    \A e \in Envs :
      LET r == Run(raw, e)
          o == Run(buf, e)
      IN  Reenters(r) \/
          /\ o.exit = IF r.exit = 0 THEN 0 ELSE res[r.exit]
          /\ \A i \in DOMAIN r.v :
               raw.irs[i].op \notin Guards \cup {"UPDATE"} => At(buf, o, res[i]) = r.v[i]
          /\ o.heap = r.heap

\* The optimiser never claims that a guard fails which the interpreter just
\* passed (FAILFOLD, IROPTERR_FAILING_GUARD): what it knows of literals and
\* of objects made on the trace agrees with the program.
NoFailingGuard == phase # "failing"

\* What the optimiser emits is what was asked for, guards included, and no
\* sequence of rules rewrites a request for ever (the loop in doFold that
\* reports "Optimiser looping").
FoldCorrect == FoldTypeOK /\ NoFailingGuard /\ FoldSound /\ phase # "looping"

\* The entries that the heap check at c reserves for.
ReservedAt(b, c) ==
  {n \in DOMAIN b.ents :
     /\ c < NewRef(b, n)
     /\ \A d \in Refs(b, "HEAPCHK") : ~(c < d /\ d < NewRef(b, n))}

\* With heap checks merged or not, each reserves exactly what is allocated
\* before the next one, and the objects fill it without overlap in the order
\* of allocation (the assertions of setHeapOffsets; entry.hpofs_).
ReservedExact ==
  phase = "assembled" =>
    \A b \in {buf, raw} : \A c \in Refs(b, "HEAPCHK") :
      /\ b.irs[c].a = Words(b, ReservedAt(b, c))
      /\ \A n \in ReservedAt(b, c) :
           b.ents[n].hpofs + Size(b.ents[n]) =
             IF n + 1 \in ReservedAt(b, c) THEN b.ents[n + 1].hpofs ELSE 0

\* At every guard but the heap check itself, a side trace gives back what
\* the merged check reserved for allocations after the guard, no more and no
\* less (Snapshot::overallocated, which beginSideTrace passes on).
OverallocatedExact ==
  phase = "assembled" =>
    \A i \in DOMAIN buf.snaps :
      LET g == buf.snaps[i].ref IN
      buf.irs[g].op # "HEAPCHK" =>
        overallocated(buf, buf.snaps[i]) =
          Words(buf, {n \in DOMAIN buf.ents : /\ g < NewRef(buf, n)
                                              /\ \E c \in Refs(buf, "HEAPCHK") :
                                                   c < g /\ n \in ReservedAt(buf, c)})

\* Merged heap checks reserve, and side exits give back, exactly the words
\* that are allocated after them (foldHeapcheck, setHeapOffsets,
\* overallocated).
HeapExact == ReservedExact /\ OverallocatedExact

=============================================================================
