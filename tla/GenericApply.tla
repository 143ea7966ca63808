---------------------------- MODULE GenericApply ----------------------------
(***************************************************************************)
(* The calling convention of the interpreter on its stack of words         *)
(* (vm/capability.cc: CALL, CALLT, EVAL, the returns and generic_apply;    *)
(* vm/miscclosures.cc: the code of update and application frames).         *)
(*                                                                         *)
(* A frame is the saved base, the return pc and the node below base, and   *)
(* registers from base to top.  A word of the stack is one of              *)
(*   <<"base", b>>  <<"pc", p>>                   saved base, return pc    *)
(*   <<"fun", f>>   <<"thunk", t>>  <<"int">>     constants of the program *)
(*   <<"pap", f, args, mask>>                     a partial application    *)
(*   <<"apk", n, mask>>  <<"upd">>  <<"stop">>    nodes of special frames  *)
(* A return pc is named for the code it leads into: the rest of a function *)
(* body, of the code of an application or update frame, or STOP.           *)
(*                                                                         *)
(* Bit i-1 of a pointer mask is the element i of a set.  The element Lost  *)
(* is history, on which no step depends: the mask comes from a join of     *)
(* more arguments than a mask has bits.  PAPs are called and returned but  *)
(* not passed as arguments, so that values stay finite; a function body is *)
(* any sequence of well-typed calls, as in EvalApply.                      *)
(***************************************************************************)
EXTENDS Naturals, Sequences, SequencesExt

CONSTANTS
  Fun,        \* functions
  Thunk,      \* thunks and CAFs
  Arity,      \* code->arity of each function
  FrameSize,  \* code->framesize of each function and thunk
  ArgList,    \* the arguments that calls pass
  MaskBits,   \* width of a pointer mask
  StackSize,  \* stackSize_, in words
  Guard,      \* words after the stack that no step may write
  Main        \* the thunk that is evaluated

ASSUME GenericApplyAssumption ==
  /\ Main \in Thunk
  /\ << >> \notin ArgList
  /\ ArgList \subseteq
       Seq(({"fun"} \X Fun) \cup ({"thunk"} \X Thunk) \cup {<<"int">>})
  /\ Arity \in [Fun -> Nat \ {0}]
  /\ FrameSize \in [Fun \cup Thunk -> Nat]
  /\ \A f \in Fun : FrameSize[f] >= Arity[f]
  /\ MaskBits \in Nat \ {0} /\ \A as \in ArgList : Len(as) <= MaskBits
  /\ {StackSize, Guard} \subseteq Nat
  /\ StackSize > 3

FRAME_SIZE == 3
UPD_SIZE == 2
Unboxed == <<"int">>
Const == {<<"fun", f>> : f \in Fun} \cup {<<"thunk", t>> : t \in Thunk}
           \cup {<<"int">>}
IsHNF(v) == v[1] \in {"fun", "pap"}

VARIABLES
  mode,   \* what the interpreter executes next
  stack,  \* the words of the stack
  base,   \* base
  top,    \* T->top_
  given,  \* given_args
  mask,   \* pointer_mask
  value   \* payload(0) of each thunk once it is an indirection

applyVars == <<mode, stack, base, top, given, mask, value>>

Node == stack[base - 1]
Reg(i) == stack[base + i]
Words(b, n) == [i \in 1..n |-> stack[b + i - 1]]
NArgs(v) == IF v[1] = "fun" THEN Arity[v[2]] ELSE 0
Locals == Words(base, NArgs(Node))
Operand == Range(Locals) \cup Const

\* The loop over indirections of CALL, CALLT and EVAL.
Deref(v) == IF v[1] = "thunk" /\ value[v[2]] # Unboxed THEN value[v[2]] ELSE v

\* The stack after a list of writes, <<address, words>>; later ones win.
Write(st, a, ws) ==
  [i \in DOMAIN st |-> IF i \in a..(a + Len(ws) - 1) THEN ws[i - a + 1]
                       ELSE st[i]]

\* The three words below the base of a frame (pushFrame).
Link(b, pc, n) == << <<"base", b>>, <<"pc", pc>>, n >>

\* stackOverflow, with its headroom for a result above the top frame.
stackOverflow(t, increment) == StackSize < t + increment + (FRAME_SIZE + 1)

Pointers(as) == {i \in DOMAIN as : as[i] # Unboxed}

\* Thread::initialize and Capability::eval.
ApplyInit ==
  /\ mode = "start"
  /\ stack = [i \in 0..(StackSize + Guard - 1) |->
                CASE i = 0 -> <<"base", 0>>
                  [] i = 1 -> <<"pc", "none">>
                  [] i = 2 -> <<"stop">>
                  [] i = 3 -> <<"thunk", Main>>
                  [] OTHER -> Unboxed]
  /\ base = 3
  /\ top = 4
  /\ given = 0
  /\ mask = {}
  /\ value = [t \in Thunk |-> Unboxed]

Overflow ==
  /\ mode' = "overflow"
  /\ UNCHANGED <<stack, base, top, given, mask, value>>

\* The step A, which needs so many words above t.
Checked(t, increment, A) == IF stackOverflow(t, increment) THEN Overflow ELSE A

\* top_ of a frame at b for the function or thunk v.
FrameTop(b, v) == b + FrameSize[v[2]]

\* Jump to the code of a function or thunk whose frame begins at b.  The
\* locals of generic_apply are dead from here on.
Branch(b, v) ==
  /\ mode' = "body"
  /\ base' = b
  /\ top' = FrameTop(b, v)
  /\ given' = 0 /\ mask' = {}
  /\ UNCHANGED value

\* goto generic_apply with n arguments at b, of which those in m are
\* pointers.
GenericApply(b, n, m) ==
  /\ mode' = "apply"
  /\ base' = b
  /\ given' = n
  /\ mask' = m
  /\ UNCHANGED value

-----------------------------------------------------------------------------
(***************************************************************************)
(* The instructions of a function body.                                    *)
(***************************************************************************)

\* CALL: push a frame for the function and copy the arguments into it.
Call(v, as) ==
  /\ mode = "body"
  /\ NArgs(Node) > 0
  /\ Checked(top, FRAME_SIZE + Len(as),
       /\ stack' = Write(stack, top, Link(base, "case", Deref(v)) \o as)
       /\ top' = top + FRAME_SIZE + Len(as)
       /\ GenericApply(top + FRAME_SIZE, Len(as), Pointers(as)))

\* The moves into place of the arguments, then CALLT.  T->top_ stays.
CallT(v, as) ==
  /\ mode = "body"
  /\ Len(as) <= FrameSize[Node[2]]
  /\ Checked(base, Len(as),
       /\ stack' = Write(stack, base - 1, <<Deref(v)>> \o as)
       /\ GenericApply(base, Len(as), Pointers(as))
       /\ UNCHANGED top)

\* The frames EVAL and the application of a thunk push above t: an update
\* frame that returns to pc in the frame at b, and the frame of the thunk.
EvalFrames(t, b, pc, th) ==
  Link(b, pc, <<"upd">>) \o <<th, Unboxed>>
    \o Link(t + FRAME_SIZE, "upd", th)
EvalBase(t) == t + FRAME_SIZE + UPD_SIZE + FRAME_SIZE

\* EVAL of a value leaves it where a function returns its result, above the
\* top frame; MOV_RES moves it to register r.
EvalHNF(v, r) ==
  /\ mode = "body"
  /\ IsHNF(Deref(v))
  /\ stack' = Write(Write(stack, top + FRAME_SIZE, <<Deref(v)>>),
                    base + r - 1, <<Deref(v)>>)
  /\ UNCHANGED <<mode, base, top, given, mask, value>>

\* EVAL of a thunk.
EvalThunk(th, pc) ==
  Checked(top, FRAME_SIZE + (FRAME_SIZE + UPD_SIZE) + FrameSize[th[2]],
    /\ stack' = Write(stack, top, EvalFrames(top, base, pc, th))
    /\ Branch(EvalBase(top), th))

Eval(v) ==
  /\ mode = "body"
  /\ NArgs(Node) > 0
  /\ Deref(v)[1] = "thunk"
  /\ EvalThunk(v, "case")

\* RET1.
Ret(v) ==
  /\ mode = "body"
  /\ IsHNF(v)
  /\ stack' = Write(stack, base, <<v>>)
  /\ mode' = "ret"
  /\ UNCHANGED <<base, top, given, mask, value>>

\* The code of stg_STOP evaluates the closure in its frame.
Start ==
  /\ mode = "start"
  /\ EvalThunk(Reg(0), "stop")

-----------------------------------------------------------------------------
(***************************************************************************)
(* generic_apply.                                                          *)
(***************************************************************************)

\* Masks are unsigned integers of MaskBits bits.  A shift by as many bits or
\* more is undefined; the processor takes the count modulo MaskBits.
Lost == 0
Bits(m) == m \ {Lost}
ShiftLeft(m, n) == {i + (n % MaskBits) : i \in Bits(m)} \cap (1..MaskBits)
ShiftRight(m, n) == {i - (n % MaskBits) : i \in {j \in m : j > (n % MaskBits)}}
LostIn(m) == m \cap {Lost}
TooWide(n) == IF n > MaskBits THEN {Lost} ELSE {}

\* case PAP: move the arguments up, put those of the PAP below them, retry.
PapMask(m, pap) ==
  ShiftLeft(m, Len(pap[3])) \cup pap[4]
    \cup LostIn(m) \cup TooWide(Len(pap[3]) + given)
ApplyPap ==
  /\ mode = "apply"
  /\ Node[1] = "pap"
  /\ LET size == Len(Node[3]) + given IN
     Checked(base, size,
       /\ stack' = Write(stack, base - 1, << <<"fun", Node[2]>> >>
                           \o Node[3] \o Words(base, given))
       /\ top' = base + size
       /\ GenericApply(base, size, PapMask(mask, Node)))

\* case THUNK, CAF: the frame keeps the arguments and becomes an application
\* frame; above it the thunk is evaluated.
apContFrameSize(n) == n + 1
ApplyThunk ==
  /\ mode = "apply"
  /\ Node[1] = "thunk"
  /\ LET n == apContFrameSize(given)
         apk == Write(stack, base - 1, << <<"apk", given, mask>> >>)
     IN Checked(base, n + FRAME_SIZE + (FRAME_SIZE + UPD_SIZE) + FRAME_SIZE
                        + FrameSize[Node[2]],
          /\ stack' = Write(apk, base + n,
                            EvalFrames(base + n, base, "apk", Node))
          /\ Branch(EvalBase(base + n), Node))

\* case FUN, arity < given_args: the surplus arguments go to an application
\* frame below the frame of the function.
Unshifted(m, arity) == m
OverMask(m, arity) == ShiftRight(m, arity) \cup LostIn(m)
ApplyOver ==
  /\ mode = "apply"
  /\ Node[1] = "fun"
  /\ Arity[Node[2]] < given
  /\ LET arity == Arity[Node[2]]
         extra == given - arity
         size == apContFrameSize(extra) + FRAME_SIZE
         moved == Write(stack, base + size - FRAME_SIZE,
                        Link(base, "apk", Node) \o Words(base, given))
         surplus == [i \in 1..extra |-> moved[base + size + arity + i - 1]]
     IN Checked(base, size + given,
          /\ stack' = Write(moved, base - 1,
                            << <<"apk", extra, OverMask(mask, arity)>> >>
                              \o surplus)
          /\ Branch(base + size, Node))

\* case FUN, given_args = arity.
ApplyExact ==
  /\ mode = "apply"
  /\ Node[1] = "fun"
  /\ Arity[Node[2]] = given
  /\ Branch(base, Node)
  /\ UNCHANGED stack

\* case FUN, given_args < arity: return a partial application.
ApplyPartial ==
  /\ mode = "apply"
  /\ Node[1] = "fun"
  /\ given < Arity[Node[2]]
  /\ stack' = Write(stack, base,
                    << <<"pap", Node[2], Words(base, given), mask>> >>)
  /\ mode' = "ret"
  /\ given' = 0 /\ mask' = {}
  /\ UNCHANGED <<base, top, value>>

-----------------------------------------------------------------------------
(***************************************************************************)
(* do_return, and the code it returns to.                                  *)
(***************************************************************************)

ReturnPc == stack[base - 2][2]
SavedBase == stack[base - 3][2]

DoReturn(pc) ==
  /\ mode = "ret"
  /\ ReturnPc = pc
  /\ top' = base - FRAME_SIZE
  /\ base' = SavedBase

\* Where a returned value is: result 0 of MOV_RES.
Result == stack[top' + FRAME_SIZE]

\* A function body goes on; MOV_RES puts the result in register r.
ReturnCase ==
  /\ DoReturn("case")
  /\ \E r \in 1..NArgs(stack[SavedBase - 1]) :
       stack' = Write(stack, base' + r - 1, <<Result>>)
  /\ mode' = "body"
  /\ given' = 0 /\ mask' = {}
  /\ UNCHANGED value

\* The code of an application frame: MOV_RES n; CALLT n.
ReturnApk ==
  /\ DoReturn("apk")
  /\ LET apk == stack[SavedBase - 1]
         moved == Write(stack, base' + apk[2], <<Result>>)
         f == Deref(moved[base' + apk[2]])
     IN IF stackOverflow(base', apk[2])
        THEN mode' = "overflow" /\ stack' = moved
             /\ UNCHANGED <<given, mask, value>>
        ELSE /\ stack' = Write(moved, base' - 1, <<f>>)
             /\ mode' = "apply"
             /\ given' = apk[2]
             /\ mask' = apk[3]
             /\ UNCHANGED value

\* The registers of an update frame at b after MOV_RES 1 and IRET 1 of v.
ThunkReturned(b, v) == <<stack[b], v>>
UpdRegs(b, v) == <<v, v>>

\* The code of an update frame: MOV_RES 1; UPDATE 0, 1; IRET 1.
ReturnUpd ==
  /\ DoReturn("upd")
  /\ value' = [value EXCEPT ![stack[base'][2]] = Result]
  /\ stack' = Write(stack, base', UpdRegs(base', Result))
  /\ UNCHANGED <<mode, given, mask>>

\* STOP.
ReturnStop ==
  /\ DoReturn("stop")
  /\ mode' = "stop"
  /\ UNCHANGED <<stack, given, mask, value>>

Instruction ==
  /\ mode = "body"
  /\ \/ \E v \in Operand, as \in ArgList :
          v # Unboxed /\ (Call(v, as) \/ CallT(v, as))
     \/ \E v \in Range(Locals) :
          Eval(v) \/ \E r \in 1..NArgs(Node) : EvalHNF(v, r)
     \/ \E v \in Operand : Ret(v)

ApplyNext ==
  \/ Start
  \/ Instruction
  \/ ApplyPap
  \/ ApplyThunk
  \/ ApplyOver
  \/ ApplyExact
  \/ ApplyPartial
  \/ ReturnCase
  \/ ReturnApk
  \/ ReturnUpd
  \/ ReturnStop

ApplySpec == ApplyInit /\ [][ApplyNext]_applyVars

-----------------------------------------------------------------------------
(***************************************************************************)
(* Properties.                                                             *)
(***************************************************************************)

\* A frame that was called has the pc it returns to and, in its caller, a
\* frame below it.
IsCalled(st, b, no) == st[b - 2][2] \notin no /\ st[b - 3][2] \in 3..(b - 1)
CallerOf(st, b) == st[b - 3][2]

\* The bases of the frame at b and of its callers.
Chain(st) ==
  LET chain[b \in 3..StackSize] ==
        IF IsCalled(st, b, {"none"}) THEN Append(chain[CallerOf(st, b)], b)
        ELSE <<b>>
  IN chain

Frames == Range(Chain(stack)[base])

\* The pointer masks the collector relies on are exact: those of the
\* arguments of a pending application ("bit(i-1) of ptr_mask describes
\* pointerhood of a_i"), of every application frame and of every PAP; only
\* those that come from a join of more than MaskBits arguments are not.
MaskExact(m, as) == Lost \notin m => m = Pointers(as)
MasksExact ==
  /\ mode = "apply" => MaskExact(mask, Words(base, given))
  /\ mode # "overflow" =>
       \A b \in Frames : stack[b - 1][1] = "apk" =>
         MaskExact(stack[b - 1][3], Words(b, stack[b - 1][2]))
  /\ \A i \in DOMAIN stack : stack[i][1] = "pap" => MaskExact(stack[i][4], stack[i][3])

\* The place where EVAL simulates a return is on the stack: "we need to make
\* sure this stack space is valid even if we did not just return from a
\* function".
HeadroomValid == mode = "body" => top + FRAME_SIZE < StackSize

-----------------------------------------------------------------------------
(***************************************************************************)
(* The machine the stack implements.                                       *)
(***************************************************************************)

AbsValue(w) == IF w[1] = "pap" THEN <<"pap", w[2], w[3]>> ELSE w
AbsWords(st, b, n) == [i \in 1..n |-> AbsValue(st[b + i - 1])]

\* The frame at b as a continuation that is resumed at pc.
AbsFrame(st, b, pc) ==
  LET n == st[b - 1] IN
  CASE pc = "case" -> [k |-> pc, node |-> n, args |-> AbsWords(st, b, NArgs(n))]
    [] pc = "apk"  -> [k |-> pc, node |-> Unboxed, args |-> AbsWords(st, b, n[2])]
    [] pc = "upd"  -> [k |-> pc, node |-> st[b], args |-> << >>]

\* The continuation of the frame at b: its callers up to the frame of
\* stg_STOP.
Kont(st) ==
  LET kont[b \in 3..StackSize] ==
        IF IsCalled(st, b, {"none", "stop"})
        THEN Append(kont[CallerOf(st, b)], AbsFrame(st, CallerOf(st, b), st[b - 2][2]))
        ELSE << >>
  IN kont

absMode == IF mode = "start" THEN "apply" ELSE mode
absNode ==
  CASE mode = "start" -> <<"thunk", Main>>
    [] mode \in {"body", "apply"} -> AbsValue(Node)
    [] OTHER -> Unboxed
absLocals ==
  CASE mode \in {"start", "overflow"} -> << >>
    [] mode = "body" -> AbsWords(stack, base, NArgs(Node))
    [] mode = "apply" -> AbsWords(stack, base, given)
    [] mode = "ret" -> AbsWords(stack, base, 1)
    [] mode = "stop" -> AbsWords(stack, top + FRAME_SIZE, 1)
absKont == IF mode = "overflow" THEN << >> ELSE Kont(stack)[base]
absValue == [t \in Thunk |-> AbsValue(value[t])]

Machine == INSTANCE EvalApply WITH
  mode <- absMode, node <- absNode, locals <- absLocals, kont <- absKont,
  value <- absValue

\* The interpreter's stack implements the eval/apply machine: partial,
\* exact and over-application, evaluation, update and return never lose,
\* duplicate or reorder an argument, a frame or a result.
ImplementsEvalApply == Machine!Spec
=============================================================================
