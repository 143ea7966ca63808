----------------------------- MODULE MCRecorder -----------------------------
(***************************************************************************)
(* The parts of the recorder, one of which is at work in a behaviour while *)
(* the others rest: literals, the optimiser, the loop filter, the abstract *)
(* stack.                                                                  *)
(***************************************************************************)
EXTENDS IRFold, TraceRecord

VARIABLE part

MCIntLits == <<1>>

\* Signed words of every kind, and addresses, which have no high half here.
MCLiterals == {<<"I64", w>> : w \in 0..15} \cup {<<"CLOS", w>> : w \in {0, 1}}
MCWords == {<<"U64", w>> : w \in 0..15}

LitIdle == lits = << >> /\ asked = << >>
FoldIdle ==
  /\ buf = Empty /\ raw = Empty /\ res = << >> /\ todo = 0 /\ phase = "int"
  /\ known = {LitRef("CLOS", StaticClosure)}
LoopIdle ==
  /\ calls = EmptyCalls /\ btb = << >> /\ stack = << >> /\ stackAt = << >>
  /\ lowest = << >> /\ verdict = -1
RecIdle ==
  /\ rec = AbstractReset(EntryBase, EntryBase + FunFrame)
  /\ st = [stk |-> << >>, base |-> EntryBase, top |-> EntryBase + FunFrame]
  /\ before = st
  /\ mode = "aborted" /\ side = FALSE /\ floor = EntryBase /\ steps = 0

\* One part only, also for the runs that are about it.
LiteralsInit == part = "literals" /\ LitInit /\ FoldIdle /\ LoopIdle /\ RecIdle
RecordInit == part = "record" /\ LitIdle /\ FoldIdle /\ LoopIdle /\ RecInit

MCInit ==
  \/ LiteralsInit
  \/ part = "fold" /\ LitIdle /\ FoldInit /\ LoopIdle /\ RecIdle
  \/ part = "loops" /\ LitIdle /\ FoldIdle /\ LoopInit /\ RecIdle
  \/ RecordInit

MCNext ==
  /\ UNCHANGED part
  /\ \/ part = "literals" /\ LitNext /\ UNCHANGED <<foldVars, loopVars, recVars>>
     \/ part = "fold" /\ FoldNext /\ UNCHANGED <<litVars, loopVars, recVars>>
     \/ part = "loops" /\ LoopNext /\ UNCHANGED <<litVars, foldVars, recVars>>
     \/ part = "record" /\ RecNext /\ UNCHANGED <<litVars, foldVars, loopVars>>

=============================================================================
