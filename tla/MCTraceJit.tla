------------------------------ MODULE MCTraceJit -----------------------------
(***************************************************************************)
(* The life of traces: in a behaviour, either the abstract control of the  *)
(* vm's traces is at work, or the old virtual machine runs a program.      *)
(***************************************************************************)
EXTENDS TraceJit, MCOldTrace

VARIABLE part

\* All addresses share a counter.
MCHash == [p \in Pc |-> 0]

OldIdle ==
  /\ prog = [start |-> 0] /\ m = [pc |-> 0] /\ vm = "idle" /\ jit = NoJit
  /\ frags = << >> /\ tr = NoTrace /\ ref = m

\* The end of a program is no deadlock.
OldDone == vm \in {"stopped", "crashed"} /\ UNCHANGED oldVars

OldOnlyInit == part = "old" /\ OldInit /\ Init /\ pc = Min(Func)
MCInit ==
  \/ part = "life" /\ Init /\ OldIdle
  \/ OldOnlyInit

MCNext ==
  /\ UNCHANGED part
  /\ \/ part = "life" /\ Next /\ UNCHANGED oldVars
     \/ part = "old" /\ (OldNext \/ OldDone) /\ UNCHANGED vars
=============================================================================
