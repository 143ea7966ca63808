----------------------------- MODULE MCBackend ------------------------------
(***************************************************************************)
(* The parts of the code generator, one of which is at work in a behaviour *)
(* while the others rest: parallel moves, register allocation, the frame   *)
(* of compiled code, the machine code area, the encoding of operands.      *)
(***************************************************************************)
EXTENDS ParAssign, RegAlloc, TraceFrame, MachineCode, X86Encode

VARIABLE part

\* The borders of a signed byte, and zero, which has no displacement.
MCDisp == {-129, -128, -1, 0, 8, 127, 128, 300}

allVars == <<part, parVars, raVars, frameVars, mcVars, encVars>>

ParIdle ==
  /\ pc = "done" /\ parent = << >> /\ side = << >> /\ source = << >> /\ dest = << >>
  /\ status = << >> /\ usingHp = FALSE /\ next = 1 /\ stack = << >> /\ freeset = Regs
  /\ saved = Regs /\ from = NoCode /\ goal = {}
RAIdle == entry = Root /\ as = setup(Root) /\ curins = -1

AreaIdle == MCodeInit /\ DOMAIN group = 0..(NumGroups - 1)

AllocInit == part = "alloc" /\ ParIdle /\ RAInit /\ FrameInit /\ AreaIdle /\ EncInit

BackendInit ==
  \/ part = "moves" /\ ParInit /\ RAIdle /\ FrameInit /\ AreaIdle /\ EncInit
  \/ AllocInit
  \/ part \in {"frame", "encode"} /\ ParIdle /\ RAIdle /\ FrameInit /\ AreaIdle /\ EncInit
  \/ part = "area" /\ ParIdle /\ RAIdle /\ FrameInit /\ MCodeInit /\ EncInit

Moves == part = "moves" /\ ParNext /\ UNCHANGED <<part, raVars, frameVars, mcVars, encVars>>

\* Register allocation alone.
AllocNext == part = "alloc" /\ RANext /\ UNCHANGED <<part, parVars, frameVars, mcVars, encVars>>

BackendNext ==
  \/ Moves
  \/ AllocNext
  \/ part = "frame" /\ FrameNext /\ UNCHANGED <<part, parVars, raVars, mcVars, encVars>>
  \/ part = "area" /\ MCodeNext /\ UNCHANGED <<part, parVars, raVars, frameVars, encVars>>
  \/ part = "encode" /\ EncNext /\ UNCHANGED <<part, parVars, raVars, frameVars, mcVars>>

\* parallelAssign is a sequential program.
BackendSpec == BackendInit /\ [][BackendNext]_allVars /\ WF_allVars(Moves)

=============================================================================
