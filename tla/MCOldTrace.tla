----------------------------- MODULE MCOldTrace -----------------------------
(***************************************************************************)
(* Small programs for the virtual machine of experiments/old-vm: loops     *)
(* over a counter in register 0 that carry objects in registers 1 and 2.   *)
(***************************************************************************)
EXTENDS OldTrace

At(start, seq) == [a \in start..(start + Len(seq) - 1) |-> seq[a - start + 1]]
Op(o) == [op |-> o]
AD(o, a, d) == [op |-> o, a |-> a, d |-> d]
ABC(o, a, b, c) == [op |-> o, a |-> a, b |-> b, c |-> c]
LoadK(a, w, t) == [op |-> "LOADK", a |-> a, lit |-> w, t |-> t]
New(a, b, args) ==
  [op |-> IF Len(args) = 1 THEN "ALLOC1" ELSE "ALLOC", a |-> a, b |-> b, args |-> args]
Eval(a, live) == [op |-> "EVAL", a |-> a, live |-> live]
Call(a, args) == [op |-> "CALL", a |-> a, args |-> args]
CallT(a, n) == [op |-> "CALLT", a |-> a, n |-> n]
If(o, a, d, to) == [op |-> o, a |-> a, d |-> d, to |-> to]

LoopAt == 200

\* Info tables: data, what the runtime has, a thunk, functions, the loop.
PairI == 50
BoxI == 51
FunInfo(code, frame, arity) ==
  [type |-> "FUN", size |-> 0, tag |-> 0, code |-> code, framesize |-> frame, arity |-> arity]
ThunkInfo(code, frame) == [FunInfo(code, frame, 0) EXCEPT !.type = "THUNK", !.size = 1]
DataInfo(type, size, tag) ==
  [type |-> type, size |-> size, tag |-> tag, code |-> 0, framesize |-> 0, arity |-> 0]
MCInfos ==
  (PairI :> DataInfo("CONSTR", 2, 1)) @@ (BoxI :> DataInfo("CONSTR", 1, 2))
  @@ (60 :> DataInfo("IND", 1, 0)) @@ (61 :> DataInfo("UPDATE_FRAME", 0, 0))
  @@ (62 :> DataInfo("AP_CONT", 0, 0)) @@ (63 :> DataInfo("AP_CONT", 0, 0))
  @@ (64 :> DataInfo("PAP", 0, 0)) @@ (70 :> ThunkInfo(10, 3))
  @@ (71 :> FunInfo(20, 3, 1)) @@ (72 :> FunInfo(30, 2, 1)) @@ (73 :> FunInfo(LoopAt, 7, 3))
  @@ (74 :> FunInfo(40, 3, 2)) @@ (75 :> FunInfo(50, 3, 1)) @@ (76 :> FunInfo(60, 3, 2))
  @@ (77 :> ThunkInfo(70, 2))

\* Static closures: the runtime's, a knot, the functions and the loop, and a
\* list of thunks in which one occurs twice.
Knot == HeapStart + 4
IncC == HeapStart + 7
IdC == HeapStart + 8
LoopC == HeapStart + 9
ThunkList == HeapStart + 16
FirstC == HeapStart + 31
PartialC == HeapStart + 32
ApplyC == HeapStart + 33
LazyPartial == HeapStart + 34
Static ==
  <<61, 62, 63, PairI, 7, Knot, 71, 72, 73, 70, 20, 70, 30, 70, 40,
    PairI, HeapStart + 10, HeapStart + 19, PairI, HeapStart + 12, HeapStart + 22,
    PairI, HeapStart + 14, HeapStart + 25, PairI, HeapStart + 10, HeapStart + 28,
    PairI, Knot, ThunkList, 74, 75, 76, 77, 0>>

\* The code of the runtime, of a thunk that makes a box, of the successor of a
\* box, of the identity, of first x y = x, of partial x = first x, of
\* apply f x = f x, of a thunk for partial, and the end of every loop.
LibraryCode ==
  At(101, <<AD("MOV_RES", 1, 0), AD("UPDATE", 0, 1), AD("IRET", 1, 0)>>)
  @@ At(105, <<AD("MOV_RES", 1, 0), CallT(1, 1)>>)
  @@ At(107, <<AD("MOV_RES", 2, 0), CallT(2, 2)>>)
  @@ At(110, <<Op("STOP")>>)
  @@ At(10, <<Op("FUNC"), AD("LOADFV", 0, 1), LoadK(1, BoxI, "INFO"), New(0, 1, <<0>>),
              AD("RET1", 0, 0)>>)
  @@ At(20, <<Op("FUNC"), ABC("LOADF", 1, 0, 1), LoadK(2, 1, "I32"), ABC("ADD", 1, 1, 2),
              LoadK(2, BoxI, "INFO"), New(0, 2, <<1>>), AD("RET1", 0, 0)>>)
  @@ At(30, <<Op("FUNC"), AD("RET1", 0, 0)>>)
  @@ At(40, <<Op("FUNC"), AD("RET1", 0, 0)>>)
  @@ At(50, <<Op("FUNC"), LoadK(2, FirstC, "CLOS"), CallT(2, 1)>>)
  @@ At(60, <<Op("FUNC"), AD("MOV", 2, 0), AD("MOV", 0, 1), CallT(2, 1)>>)
  @@ At(70, <<Op("FUNC"), LoadK(0, PartialC, "CLOS"), AD("RET1", 0, 0)>>)
  @@ At(90, <<LoadK(3, PairI, "INFO"), New(1, 3, <<1, 2>>), AD("RET1", 1, 0)>>)

\* Every function starts by leaving when the counter is 0; a loop calls itself.
Prelude(exit) ==
  <<Op("FUNC"), LoadK(3, 0, "I32"), If("LE", 0, 3, exit), LoadK(3, 1, "I32"),
    ABC("SUB", 0, 0, 3)>>
Again == <<AD("LOADSLF", 4, 0), CallT(4, 3)>>
Loop(body) == Prelude(90) \o body \o Again

\* What a body is made of: registers 1 and 2 hold pairs.
NewPair(a, x, y) == <<LoadK(5, PairI, "INFO"), New(a, 5, <<x, y>>)>>
Steps == <<
  NewPair(1, 0, 1), NewPair(1, 0, 2), NewPair(2, 0, 1), NewPair(2, 0, 2),
  <<ABC("LOADF", 1, 1, 2)>>,
  <<ABC("LOADF", 2, 1, 2)>>,
  <<ABC("LOADF", 1, 2, 2)>>,
  <<AD("MOV", 5, 1), AD("MOV", 1, 2), AD("MOV", 2, 5)>>,
  <<AD("MOV", 1, 2)>>,
  <<ABC("LOADF", 6, 1, 1), ABC("LOADF", 3, 2, 1), ABC("ADD", 6, 6, 3)>> \o NewPair(1, 6, 2)
>>
\* Call a function; force a thunk, and keep its value or a pair of it; choose by
\* the constructor; call itself first; apply the result to one more argument;
\* call partial applications, thunks for functions, and with one argument more.
Special == <<
  Loop(<<LoadK(5, IncC, "CLOS"), Call(5, <<1>>), AD("MOV_RES", 1, 0)>>),
  Loop(<<ABC("LOADF", 5, 2, 1), Eval(5, {0, 2}), AD("MOV_RES", 1, 0),
         ABC("LOADF", 2, 2, 2)>>),
  Loop(<<ABC("LOADF", 6, 2, 1), Eval(6, {0, 1, 2}), AD("MOV_RES", 6, 0)>>
       \o NewPair(1, 6, 1) \o <<ABC("LOADF", 2, 2, 2)>>),
  Prelude(90) \o <<[op |-> "CASE", a |-> 1, targets |-> <<LoopAt + 7, LoopAt + 11>>], Op("STOP"),
                   LoadK(5, BoxI, "INFO"), New(1, 5, <<0>>)>> \o Again
              \o <<AD("MOV", 1, 2)>> \o Again,
  Prelude(90) \o <<AD("LOADSLF", 4, 0), Call(4, <<0, 1, 2>>), AD("MOV_RES", 1, 0)>>
              \o NewPair(1, 0, 1) \o <<AD("RET1", 1, 0)>>,
  Prelude(LoopAt + 8) \o <<LoadK(3, IdC, "CLOS"), AD("LOADSLF", 4, 0), CallT(4, 4),
                      LoadK(1, IdC, "CLOS"), AD("RET1", 1, 0)>>,
  Loop(<<LoadK(5, PartialC, "CLOS"), Call(5, <<1>>), AD("MOV_RES", 6, 0),
         Call(6, <<0>>), AD("MOV_RES", 3, 0), LoadK(5, ApplyC, "CLOS"),
         Call(5, <<6, 0>>), AD("MOV_RES", 2, 0)>> \o NewPair(1, 2, 3)),
  Loop(<<LoadK(5, 77, "INFO"), New(5, 5, <<0>>), Call(5, <<1, 0>>), AD("MOV_RES", 1, 0),
         LoadK(3, LazyPartial, "CLOS"), LoadK(5, ApplyC, "CLOS"), Call(5, <<3, 1>>),
         AD("MOV_RES", 2, 0)>>),
  Loop(<<LoadK(5, PartialC, "CLOS"), Call(5, <<1, 2>>), AD("MOV_RES", 2, 0)>>)
>>

Program(loop, r2) ==
  [code |-> LibraryCode @@ At(LoopAt, loop), infos |-> MCInfos,
   start |-> [pc |-> LoopAt, base |-> 4, top |-> 11, mem |-> Static, res |-> 0,
              stk |-> <<StackStart + 1, 110, LoopC, 5, Knot, r2>> \o Zeros(74)]]
MCPrograms ==
  {Program(Special[k], ThunkList) : k \in DOMAIN Special}
  \cup {Program(Loop(s \o t \o u), Knot) : s, t, u \in Range(Steps)}

\* r2 := Pair(n, r1); r1 := r1.field2; r1 := Pair(n, r1).
MCPhiProgram ==
  {Program(Loop(NewPair(2, 0, 1) \o <<ABC("LOADF", 1, 1, 2)>> \o NewPair(1, 0, 1)), Knot)}

=============================================================================
