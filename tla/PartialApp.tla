----------------------------- MODULE PartialApp -----------------------------
(***************************************************************************)
(* A partial application, the one allocation of the interpreter that goes  *)
(* on after a collection instead of being executed again                   *)
(* (vm/capability.cc generic_apply, case given_args < arity).              *)
(*                                                                         *)
(* generic_apply keeps the function in the C++ local fnode.  The same      *)
(* closure is the node of the top frame, which the collector evacuates;    *)
(* the local it cannot know about.                                         *)
(***************************************************************************)
EXTENDS CopyingGC

VARIABLE
  fnode   \* the local fnode, Null outside generic_apply

pvars == <<vars, fnode>>

PInit == Init /\ fnode = Null

\* Before and after the call: the other instructions and their collections.
Idle == fnode = Null /\ Next /\ UNCHANGED fnode

\* generic_apply reads the node of the frame: a function that takes more
\* arguments than it was given.
Enter(s) ==
  /\ phase = "mutator"
  /\ fnode = Null
  /\ root[s] \in Addr
  /\ mem[root[s]].type = "FUN"
  /\ fnode' = root[s]
  /\ UNCHANGED vars

\* heap > heaplim: bumpAllocatorFull, with or without a collection, then the
\* loop tries again.
Overflow ==
  /\ fnode # Null
  /\ BumpAllocatorFull \/ StartGC \/ Collect
  /\ UNCHANGED fnode

\* The closure fits: pap->init stores fnode, the arguments are copied from
\* the frame, and the PAP is returned in base[0].  fun_ is word 1.
InitPap(s, args) ==
  /\ phase = "mutator"
  /\ fnode # Null
  /\ \A f \in Field : args[f] # Null => root[args[f]] # Null
  /\ Fits
  /\ FreshIds # {}
  /\ mem' = [mem EXCEPT ![<<Head1, heap + 1>>] =
               [type |-> "PAP", id |-> CHOOSE i \in FreshIds : TRUE,
                ptrs |-> [f \in Field |->
                            IF f = 1 THEN fnode
                            ELSE IF args[f] = Null THEN Null
                            ELSE root[args[f]]]]]
  /\ heap' = heap + 1
  /\ root' = [root EXCEPT ![s] = <<Head1, heap + 1>>]
  /\ fnode' = Null
  /\ UNCHANGED <<caf, static_roots>>
  /\ MutatorUnchanged

PNext ==
  \/ Idle
  \/ Overflow
  \/ \E s \in Slot : Enter(s)
  \/ \E s \in Slot, args \in [Field -> Slot \cup {Null}] : InitPap(s, args)

PSpec == PInit /\ [][PNext]_pvars
=============================================================================
