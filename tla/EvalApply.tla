----------------------------- MODULE EvalApply ------------------------------
(***************************************************************************)
(* What the calling convention of the interpreter promises: an eval/apply  *)
(* machine with an explicit continuation.  A call may supply fewer         *)
(* arguments than the function takes, as many, or more, and the function   *)
(* may be a thunk that has to be evaluated first.  GenericApply implements *)
(* this machine with frames on a stack of words.                           *)
(*                                                                         *)
(* A value is <<"fun", f>>, <<"thunk", t>>, <<"pap", f, args>> or <<"int">>.*)
(* Only the calling convention matters here, so a function body is any     *)
(* sequence of well-typed calls, evaluations and returns: what it calls is *)
(* not an integer, and it returns a function.                              *)
(***************************************************************************)
EXTENDS Naturals, Sequences, SequencesExt

CONSTANTS
  Fun,        \* functions
  Thunk,      \* thunks
  Arity,      \* the arity of each function
  ArgList,    \* the arguments that calls pass
  Main        \* the thunk that is evaluated

Unboxed == <<"int">>
Const == {<<"fun", f>> : f \in Fun} \cup {<<"thunk", t>> : t \in Thunk}
           \cup {Unboxed}
IsHNF(v) == v[1] \in {"fun", "pap"}

VARIABLES
  mode,    \* "body", "apply", "ret", "stop" or "overflow"
  node,    \* the function applied or executing
  locals,  \* its arguments, or the value that is returned
  kont,    \* the continuation, innermost frame last
  value    \* the value of each thunk, Unboxed before it has one

vars == <<mode, node, locals, kont, value>>

Deref(v) == IF v[1] = "thunk" /\ value[v[2]] # Unboxed THEN value[v[2]] ELSE v

\* What a body can use: its registers and the constants of its code.
Operand == Range(locals) \cup Const

Init ==
  /\ mode = "apply"
  /\ node = <<"thunk", Main>>
  /\ locals = << >>
  /\ kont = << >>
  /\ value = [t \in Thunk |-> Unboxed]

Body(f, as) == mode' = "body" /\ node' = f /\ locals' = as
Apply(f, as) == mode' = "apply" /\ node' = f /\ locals' = as
Return(v) == mode' = "ret" /\ node' = Unboxed /\ locals' = <<v>>

\* A thunk is entered: its value will update it.
Enter(t, rest) ==
  /\ Body(<<"thunk", t>>, << >>)
  /\ kont' = rest \o <<[k |-> "upd", node |-> <<"thunk", t>>, args |-> << >>]>>

Case == [k |-> "case", node |-> node, args |-> locals]
Apk(as) == [k |-> "apk", node |-> Unboxed, args |-> as]

\* A call in the middle of the body; the body goes on with its result.
Call(f, as) ==
  /\ mode = "body"
  /\ Len(locals) > 0
  /\ kont' = Append(kont, Case)
  /\ Apply(Deref(f), as)
  /\ UNCHANGED value

\* A tail call.
CallT(f, as) ==
  /\ mode = "body"
  /\ Apply(Deref(f), as)
  /\ UNCHANGED <<kont, value>>

\* A register is evaluated, the result goes to register r.
Eval(v, r) ==
  /\ mode = "body"
  /\ \/ /\ IsHNF(Deref(v))
        /\ locals' = [locals EXCEPT ![r] = Deref(v)]
        /\ UNCHANGED <<mode, node, kont>>
     \/ /\ ~ IsHNF(Deref(v))
        /\ Enter(v[2], Append(kont, Case))
  /\ UNCHANGED value

Ret(v) ==
  /\ mode = "body"
  /\ IsHNF(v)
  /\ Return(v)
  /\ UNCHANGED <<kont, value>>

\* The application of a function, by what it is and what it was given.
ApplyStep ==
  /\ mode = "apply"
  /\ UNCHANGED value
  /\ \/ /\ node[1] = "pap"
        /\ Apply(<<"fun", node[2]>>, node[3] \o locals)
        /\ UNCHANGED kont
     \/ /\ node[1] = "thunk"
        /\ Enter(node[2], IF locals = << >> THEN kont
                          ELSE Append(kont, Apk(locals)))
     \/ /\ node[1] = "fun"
        /\ Len(locals) < Arity[node[2]]
        /\ Return(<<"pap", node[2], locals>>)
        /\ UNCHANGED kont
     \/ /\ node[1] = "fun"
        /\ Len(locals) >= Arity[node[2]]
        /\ Body(node, SubSeq(locals, 1, Arity[node[2]]))
        /\ kont' = IF Len(locals) = Arity[node[2]] THEN kont
                   ELSE Append(kont, Apk(SubSeq(locals, Arity[node[2]] + 1,
                                                Len(locals))))

\* The value that is returned meets the innermost frame.
ReturnStep ==
  /\ mode = "ret"
  /\ \/ /\ kont = << >>
        /\ mode' = "stop"
        /\ UNCHANGED <<node, locals, kont, value>>
     \/ /\ kont # << >>
        /\ kont' = Front(kont)
        /\ LET top == Last(kont) IN
           \/ /\ top.k = "case"
              /\ \E r \in DOMAIN top.args :
                   Body(top.node, [top.args EXCEPT ![r] = locals[1]])
              /\ UNCHANGED value
           \/ /\ top.k = "apk"
              /\ Apply(locals[1], top.args)
              /\ UNCHANGED value
           \/ /\ top.k = "upd"
              /\ value' = [value EXCEPT ![top.node[2]] = locals[1]]
              /\ UNCHANGED <<mode, node, locals>>

\* The stack is finite.
Overflow ==
  /\ mode \notin {"stop", "overflow"}
  /\ mode' = "overflow"
  /\ node' = Unboxed /\ locals' = << >> /\ kont' = << >>
  /\ UNCHANGED value

Next ==
  \/ \E f \in Operand, as \in ArgList : f # Unboxed /\ Call(f, as)
  \/ \E f \in Operand, as \in ArgList : f # Unboxed /\ CallT(f, as)
  \/ \E v \in Range(locals), r \in DOMAIN locals : v # Unboxed /\ Eval(v, r)
  \/ \E v \in Operand : Ret(v)
  \/ ApplyStep
  \/ ReturnStep
  \/ Overflow

Spec == Init /\ [][Next]_vars
=============================================================================
