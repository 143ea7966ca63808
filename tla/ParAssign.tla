----------------------------- MODULE ParAssign -----------------------------
(***************************************************************************)
(* Entry of a side trace: the values it inherits move from where the       *)
(* parent trace left them to where the side trace expects them             *)
(* (vm/assembler.cc mergeWithParent, parallelAssign, moveOne, getTemp,     *)
(* transfer).                                                              *)
(*                                                                         *)
(* The assembler emits code backwards, each instruction before the ones    *)
(* emitted so far.  The code is represented by its effect: from[l] is the  *)
(* location whose content, when the code emitted so far starts, is in l    *)
(* when it ends.  A RegSpill names either a register or a spill slot here, *)
(* so it is one location.  The recursion of moveOne is an explicit stack   *)
(* with one frame per call: the entry, and the next j of its loop.         *)
(*                                                                         *)
(* getTemp's register is released before the next instruction is emitted,  *)
(* so tmpsInUse is 0 between steps and not part of the state.  pickReg     *)
(* takes the highest free register; here it is any of them.                *)
(***************************************************************************)
EXTENDS Naturals, Sequences, Functions

CONSTANTS
  Regs,       \* kGPR: the registers that can be allocated
  Slots,      \* the spill slots from 1 on
  Hp,         \* RID_HP, not in kGPR
  SaveSlot,   \* spill slot 0, at SAVE_HP_OFFS
  None,       \* RID_NONE, or spill 0: no location
  MaxMoves,   \* bound on the entries a test passes to parallelAssign
  MaxInherited  \* bound on the values a side trace inherits

ASSUME ParAssignAssumption ==
  /\ MaxMoves \in Nat /\ MaxInherited \in Nat
  /\ Regs \cap Slots = {} /\ Hp # SaveSlot /\ Hp # None /\ SaveSlot # None
  /\ {Hp, SaveSlot, None} \cap (Regs \cup Slots) = {}

Operand == Regs \cup Slots
Loc == Operand \cup {Hp, SaveSlot}

VARIABLES
  pc,        \* "merge", "assign", "done", or "exit" after EXIT_FAILURE
  parent,    \* of each inherited value: where the parent has it (parentmap_)
  side,      \*   and its reg() and spill() in the side trace
  source,    \* ParAssign: source,
  dest,      \*   dest,
  status,    \*   status
  usingHp,   \*   and usingHp
  next,      \* the next iteration of the loop of the current function
  stack,     \* the calls of moveOne in progress
  freeset,   \* freeset_
  saved,     \* saved_freeset
  from,      \* the effect of the code emitted so far
  goal       \* what the code is for: pairs of a location and the one
             \* whose content must end up there

parVars == <<pc, parent, side, source, dest, status, usingHp, next, stack,
          freeset, saved, from, goal>>
mergeVars == <<parent, side, saved, goal>>

Entry == DOMAIN dest

\* A move from s to d in front of the code with effect f.
Emit(f, d, s) == [l \in Loc |-> IF f[l] = d THEN s ELSE f[l]]

NoCode == [l \in Loc |-> l]

-----------------------------------------------------------------------------
(* What parallelAssign is called with. *)

\* No two entries have one destination and none moves from memory to memory.
Assignments ==
  UNION {{a \in [dest : [1..n -> Operand], source : [1..n -> Operand]] :
            /\ IsInjective(a.dest)
            /\ \A i \in 1..n : a.dest[i] \in Regs \/ a.source[i] \in Regs} :
         n \in 0..MaxMoves}

\* The unit tests call it directly, with every destination register in use.
InitTest ==
  /\ \E a \in Assignments : dest = a.dest /\ source = a.source
  /\ goal = {<<dest[i], source[i]>> : i \in Entry} \cup {<<Hp, Hp>>}
  /\ freeset = Regs \ Range(dest)
  /\ pc = "assign"
  /\ status = [i \in Entry |-> "todo"]
  /\ parent = << >> /\ side = << >>

\* What the side trace allocated for a value the parent has in l: the slot
\* of the parent if there is one, or none, or one that setup did not block.
SideLocs(l) ==
  [reg : Regs \cup {None}, spill : IF l \in Slots THEN {l} ELSE Slots \cup {None}]

\* replaySnapshot inherits each value of the snapshot once, from its spill
\* slot if it has one and else from its register.  The allocator gives each
\* value registers and slots of its own; constants are evicted by now.
InitMerge ==
  /\ \E n \in 1..MaxInherited :
       /\ parent \in {f \in [1..n -> Operand] : IsInjective(f)}
       /\ side \in {f \in [1..n -> [reg : Regs \cup {None}, spill : Slots \cup {None}]] :
                      \A p \in 1..n : f[p] \in SideLocs(parent[p])}
  /\ \A p, q \in DOMAIN side : p # q =>
       /\ side[p].reg # None => side[p].reg # side[q].reg
       /\ side[p].spill # None => /\ side[p].spill # side[q].spill
                                  /\ side[p].spill # parent[q]
  /\ goal = {<<Hp, Hp>>} \cup
            {g \in UNION {{<<side[p].reg, parent[p]>>, <<side[p].spill, parent[p]>>} :
                          p \in DOMAIN side} : g[1] # None}
  /\ freeset = Regs \ {side[p].reg : p \in DOMAIN side}
  /\ pc = "merge"
  /\ source = << >> /\ dest = << >> /\ status = << >>

ParInit ==
  /\ InitTest \/ InitMerge
  /\ usingHp = FALSE
  /\ next = 1
  /\ stack = << >>
  /\ saved = freeset
  /\ from = NoCode

-----------------------------------------------------------------------------
(* mergeWithParent *)

AddMove(d, s) == dest' = Append(dest, d) /\ source' = Append(source, s)

\* Cases D to F of the table, and A to C: the value has a register.  Case D
\* also stores it into its spill slot, after the moves.
MergeReg(p) ==
  /\ side[p].reg # None
  /\ AddMove(side[p].reg, parent[p])
  /\ from' = IF side[p].spill # None /\ parent[p] \in Regs
               THEN Emit(from, side[p].spill, side[p].reg)
               ELSE from

\* Case G: only a spill slot, and the parent has a register.
MergeSpill(p) ==
  /\ side[p].reg = None /\ side[p].spill # None /\ parent[p] \in Regs
  /\ AddMove(side[p].spill, parent[p])
  /\ UNCHANGED from

\* Cases H to J.
MergeNothing(p) ==
  /\ side[p].reg = None
  /\ side[p].spill = None \/ parent[p] \in Slots
  /\ UNCHANGED <<dest, source, from>>

MergeOne ==
  /\ pc = "merge"
  /\ next \in DOMAIN side
  /\ MergeReg(next) \/ MergeSpill(next) \/ MergeNothing(next)
  /\ next' = next + 1
  /\ UNCHANGED <<pc, status, usingHp, stack, freeset, mergeVars>>

\* What mergeWithParent does with freeset_ before it returns.
MergedSet == saved \cup ({side[p].reg : p \in DOMAIN side} \ {None})

\* The call of parallelAssign, left out if there are no moves.
MergeAssign ==
  /\ pc = "merge"
  /\ next \notin DOMAIN side
  /\ IF dest = << >>
       THEN pc' = "done" /\ freeset' = MergedSet /\ UNCHANGED <<saved, next, status>>
       ELSE /\ pc' = "assign"
            /\ saved' = freeset
            /\ next' = 1
            /\ status' = [i \in Entry |-> "todo"]
            /\ UNCHANGED freeset
  /\ UNCHANGED <<parent, side, goal, source, dest, usingHp, stack, from>>

-----------------------------------------------------------------------------
(* moveOne *)

\* moveOne(i) called with the stack s: nothing happens to an entry that
\* stays in its register.
Call(i, s) ==
  IF dest[i] = source[i]
    THEN stack' = s /\ UNCHANGED status
    ELSE /\ stack' = Append(s, [entry |-> i, j |-> 1])
         /\ status' = [status EXCEPT ![i] = "moving"]

Top == stack[Len(stack)]
Below == SubSeq(stack, 1, Len(stack) - 1)

\* Plausible error: the entries being moved are skipped like the done ones.
ConflictsTodoOnly ==
  {j \in Entry : /\ j >= Top.j
                 /\ dest[j] = source[Top.entry]
                 /\ status[j] = "todo"}

\* The iterations left in the loop of the newest call in which an entry
\* still has to write what this one reads.
Conflicts ==
  {j \in Entry : /\ j >= Top.j
                 /\ dest[j] = source[Top.entry]
                 /\ status[j] # "done"}

\* The loop of the newest call has got to j.
Reach(j) ==
  /\ stack # << >>
  /\ j \in Conflicts
  /\ \A k \in Conflicts : j <= k

After(j) == Append(Below, [Top EXCEPT !.j = j + 1])

\* Plausible error: the loop stops at an entry that moveOne has emitted.
StartMoveWhileTodo ==
  /\ pc = "assign"
  /\ stack = << >>
  /\ next \in Entry
  /\ status[next] = "todo"
  /\ next' = next + 1
  /\ Call(next, << >>)
  /\ UNCHANGED <<pc, source, dest, usingHp, freeset, from, mergeVars>>

\* The loop of parallelAssign.
StartMove ==
  /\ pc = "assign"
  /\ stack = << >>
  /\ next \in Entry
  /\ next' = next + 1
  /\ IF status[next] = "todo" THEN Call(next, << >>)
                              ELSE UNCHANGED <<stack, status>>
  /\ UNCHANGED <<pc, source, dest, usingHp, freeset, from, mergeVars>>

\* The entry j has to be emitted first.
Descend(j) ==
  /\ Reach(j)
  /\ status[j] = "todo"
  /\ Call(j, After(j))
  /\ UNCHANGED <<pc, source, dest, usingHp, next, freeset, from, mergeVars>>

\* getTemp finds a register.
FreeTemp(t) ==
  /\ t \in freeset
  /\ UNCHANGED usingHp

\* getTemp finds none and takes the heap pointer, which is loaded back
\* after the last use.
HpTemp(t) ==
  /\ freeset = {}
  /\ t = Hp
  /\ usingHp' = TRUE

GetTemp(t) == FreeTemp(t) \/ HpTemp(t)

\* The code emitted so far, with the load of Hp if getTemp adds it.
WithHpLoad(t) ==
  IF t = Hp /\ ~usingHp THEN Emit(from, Hp, SaveSlot) ELSE from

\* Plausible error: every conflicting move is treated as a cycle.
BreakConflict(j) ==
  /\ Reach(j)
  /\ dest[j] # source[j]
  /\ \E t \in Loc :
       /\ GetTemp(t)
       /\ from' = Emit(WithHpLoad(t), dest[j], t)
       /\ dest' = [dest EXCEPT ![j] = t]
  /\ stack' = After(j)
  /\ UNCHANGED <<pc, source, status, next, freeset, mergeVars>>

\* The entry j is being moved: a cycle.  Its destination is filled from a
\* temporary and it goes to the temporary instead.
BreakCycle(j) ==
  /\ Reach(j)
  /\ status[j] = "moving"
  /\ \E t \in Loc :
       /\ GetTemp(t)
       /\ from' = Emit(WithHpLoad(t), dest[j], t)
       /\ dest' = [dest EXCEPT ![j] = t]
  /\ stack' = After(j)
  /\ UNCHANGED <<pc, source, status, next, freeset, mergeVars>>

\* useReg, for a source that is a register.
UseReg(s) == freeset \ {s}

\* The end of moveOne.  A move from memory to memory ends the program.
Transfer ==
  /\ stack # << >>
  /\ Conflicts = {}
  /\ LET i == Top.entry IN
       IF dest[i] \notin Regs \cup {Hp} /\ source[i] \notin Regs
         THEN /\ pc' = "exit"
              /\ UNCHANGED <<stack, status, from, freeset>>
         ELSE /\ from' = Emit(from, dest[i], source[i])
              /\ freeset' = UseReg(source[i])
              /\ status' = [status EXCEPT ![i] = "done"]
              /\ stack' = Below
              /\ UNCHANGED pc
  /\ UNCHANGED <<source, dest, usingHp, next, mergeVars>>

MoveOne ==
  /\ pc = "assign"
  /\ \/ \E j \in Entry : Descend(j) \/ BreakCycle(j)
     \/ Transfer

\* parallelAssign saves the heap pointer first if it is used, and returns.
Finish ==
  /\ pc = "assign"
  /\ stack = << >>
  /\ next \notin Entry
  /\ pc' = "done"
  /\ from' = IF usingHp THEN Emit(from, SaveSlot, Hp) ELSE from
  /\ freeset' = IF side = << >> THEN freeset ELSE MergedSet
  /\ UNCHANGED <<source, dest, status, usingHp, next, stack, mergeVars>>

ParNext == MergeOne \/ MergeAssign \/ StartMove \/ MoveOne \/ Finish

ParSpec == ParInit /\ [][ParNext]_parVars /\ WF_parVars(ParNext)

-----------------------------------------------------------------------------
(* Properties *)

\* The contents that the moves not emitted yet bring to l.
Pending(l) ==
  IF usingHp /\ l = SaveSlot
    THEN {Hp}
    ELSE {source[i] : i \in {k \in Entry : dest[k] = l /\ status[k] # "done"}}

(***************************************************************************)
(* While parallelAssign runs, the moves it has not emitted yet, made at    *)
(* once, followed by the code emitted so far, are the assignment it was    *)
(* asked for.  This is what moveOne keeps when it emits a move only after  *)
(* those that overwrite its source, breaks cycles and takes temporaries.   *)
(* At the end every inherited value is in the register and in the spill    *)
(* slot of the side trace, and the heap pointer has its value, however the *)
(* destinations and sources overlap.                                       *)
(***************************************************************************)
AssignmentKept ==
  /\ pc = "assign" =>
       \A g \in goal : LET l == from[g[1]] IN
         IF Pending(l) = {} THEN l = g[2] ELSE Pending(l) = {g[2]}
  /\ pc = "done" => \A g \in goal : from[g[1]] = g[2]

(***************************************************************************)
(* What transfer and moveOne rely on.  Why getTemp's temporary may be      *)
(* released at once (the "TODO: explain this" of moveOne): at most one     *)
(* entry waits to be moved to a temporary, so no temporary is taken for a  *)
(* cycle while another is waiting.  And transfer never meets a move from   *)
(* memory to memory, for which it ends the program: breaking a cycle       *)
(* through spill slots makes none.                                         *)
(***************************************************************************)
TempsSafe ==
  /\ pc # "exit"
  /\ pc = "assign" =>
       \A i, j \in Entry :
         /\ status[i] # "done" /\ <<dest[i], source[i]>> \notin goal
         /\ status[j] # "done" /\ <<dest[j], source[j]>> \notin goal
         => i = j

(***************************************************************************)
(* parallelAssign and mergeWithParent return: the recursion of moveOne     *)
(* ends although the moves may be cyclic.                                  *)
(***************************************************************************)
AssignTerminates == <>(pc = "done")
=============================================================================
