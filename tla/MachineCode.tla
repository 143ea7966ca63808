---------------------------- MODULE MachineCode -----------------------------
(***************************************************************************)
(* The machine code area (machinecode.cc) as the assembler fills it: exit  *)
(* stubs grow upwards from its bottom, in groups that are shared by all    *)
(* traces; traces, and the bridges to traces that a fall-through leads to, *)
(* grow downwards from its top.  Guards jump to exit stubs until they are  *)
(* patched.  The build is the default one, with assertions.  Each action   *)
(* makes the area writable first and executable again last.                *)
(***************************************************************************)
EXTENDS Integers, Sequences, FiniteSets

CONSTANTS
  AreaSize,     \* bytes of the area (kAreaSize)
  PerGroup,     \* EXITSTUBS_PER_GROUP
  NumGroups,    \* elements of exitStubGroup_
  MaxExits,     \* bound on the snapshots of a trace
  CodeSizes,    \* sizes of the code of a trace
  MaxTraces     \* bound on the number of traces

ASSUME MachineCodeAssumption ==
  /\ AreaSize \in Nat /\ PerGroup \in Nat \ {0} /\ NumGroups \in Nat /\ MaxTraces \in Nat
  /\ MaxExits \in Nat
  /\ CodeSizes \subseteq Nat \ {0}

EXITSTUB_SPACING == 4
GroupSize == EXITSTUB_SPACING * PerGroup + 5
BridgeSize == 13
Unset == -1

VARIABLES
  top, bottom,   \* top_ and bottom_
  group,         \* exitStubGroup_ and the word beyond, see MCodeInit
  trace,         \* the traces: their code and the target of every exit
  bridges,       \* the code of the bridges
  ended          \* a fatal error

mcVars == <<top, bottom, group, trace, bridges, ended>>

\* setupExitStubs may read the word beyond exitStubGroup_ and write it.  It
\* holds shouldAbort_, which is false, and bytes that nothing sets: it is
\* NULL as the elements are, or else never a group of stubs.
MCodeInit ==
  /\ top = AreaSize /\ bottom = 0
  /\ \E last \in {NumGroups - 1, NumGroups} : group = [g \in 0..last |-> Unset]
  /\ trace = << >> /\ bridges = {} /\ ended = FALSE

Range2(from, size) == from..(from + size - 1)

exitstubAddr(groups, n) == groups[n \div PerGroup] + EXITSTUB_SPACING * (n % PerGroup)

\* setupExitStubs: how many groups are made for the exits, one more than
\* there are for the largest number that is allowed; those that do not exist
\* yet are generated in order, each if it fits.
TooManyExits(nexits) == nexits >= PerGroup * NumGroups
FewerGroups(nexits) == nexits \div PerGroup
GroupsFor(nexits) == (nexits + PerGroup + 1) \div PerGroup
Missing(nexits) == {g \in DOMAIN group : g < GroupsFor(nexits) /\ group[g] = Unset}
NewAddr(nexits, g) ==
  bottom + GroupSize * Cardinality({h \in Missing(nexits) : h < g})
StubsFit(nexits) ==
  \A g \in Missing(nexits) : NewAddr(nexits, g) + EXITSTUB_SPACING * PerGroup + 13 < top
setupExitStubs(nexits) ==
  [g \in DOMAIN group |-> IF g \in Missing(nexits) THEN NewAddr(nexits, g) ELSE group[g]]

\* commit: the assertions.
Commits(newtop, newbottom) == newbottom <= newtop /\ newtop <= AreaSize

Fatal ==
  /\ ended' = TRUE
  /\ UNCHANGED <<top, bottom, group, trace, bridges>>

\* assemble a trace with nexits snapshots and size bytes of code.  Nothing
\* compares the code pointer with the end of the stubs before commit.
assemble(nexits, size) ==
  /\ ~ ended /\ Len(trace) < MaxTraces
  /\ LET groups == setupExitStubs(nexits)
         newbottom == bottom + GroupSize * Cardinality(Missing(nexits))
     IN  IF \/ TooManyExits(nexits) \/ ~ StubsFit(nexits)
            \/ ~ Commits(top - size, newbottom)
         THEN Fatal
         ELSE /\ group' = groups /\ bottom' = newbottom
              /\ top' = top - size
              /\ trace' = Append(trace, [entry |-> top - size, size |-> size,
                                         jump |-> [e \in 0..(nexits - 1) |-> exitstubAddr(groups, e)]])
              /\ UNCHANGED <<bridges, ended>>

\* patchGuard: the jump of an exit goes to the entry of a side trace.
patchGuard(p, e, target) == trace' = [trace EXCEPT ![p].jump[e] = target]

PatchSideTrace ==
  /\ ~ ended /\ Len(trace) > 0
  /\ \E p \in 1..(Len(trace) - 1) : \E e \in DOMAIN trace[p].jump :
       /\ trace[p].jump[e] < bottom
       /\ patchGuard(p, e, trace[Len(trace)].entry)
  /\ UNCHANGED <<top, bottom, group, bridges, ended>>

\* patchFallthrough: a bridge sets the id of the target and jumps to it.
patchFallthrough(p, e, q) ==
  IF ~ Commits(top - BridgeSize, bottom) THEN Fatal
  ELSE /\ patchGuard(p, e, top - BridgeSize)
       /\ bridges' = bridges \cup {[entry |-> top - BridgeSize, to |-> q]}
       /\ top' = top - BridgeSize
       /\ UNCHANGED <<bottom, group, ended>>

MCodeNext ==
  \/ \E nexits \in 1..MaxExits, size \in CodeSizes : assemble(nexits, size)
  \/ PatchSideTrace
  \/ /\ ~ ended
     /\ \E p, q \in DOMAIN trace :
          LET e == Cardinality(DOMAIN trace[p].jump) - 1
          IN  trace[p].jump[e] < bottom /\ patchFallthrough(p, e, q)

MCodeSpec == MCodeInit /\ [][MCodeNext]_mcVars

-----------------------------------------------------------------------------
(* Properties *)

\* The code of the traces t and of the bridges b, and where it can be entered.
AreaCode(t, b) ==
  {Range2(t[p].entry, t[p].size) : p \in DOMAIN t} \cup {Range2(x.entry, BridgeSize) : x \in b}
AreaEntries(t, b) == {t[p].entry : p \in DOMAIN t} \cup {x.entry : x \in b}

\* The exit number that the stub at address a passes to asmExit.
Stubs(a) ==
  {n \in 0..(NumGroups * PerGroup - 1) :
     group[n \div PerGroup] # Unset /\ exitstubAddr(group, n) = a}

\* Code that was committed is never overwritten: the groups of stubs, the
\* traces and the bridges do not overlap, and stubs stay below the code
\* (the invariant of MachineCode in jit.hh).  Every guard that is not patched
\* jumps to the stub of its own exit number, and every other one to the
\* entry of a trace or a bridge, however many traces share the stubs.
AreaExact ==
  /\ \A g, h \in DOMAIN group : g # h /\ group[g] # Unset /\ group[h] # Unset =>
       Range2(group[g], GroupSize) \cap Range2(group[h], GroupSize) = {}
  /\ \A g \in DOMAIN group : group[g] # Unset => group[g] + GroupSize <= top
  /\ LET code == AreaCode(trace, bridges)
     IN  /\ Cardinality(code) = Len(trace) + Cardinality(bridges)
         /\ \A c, d \in code : c # d => c \cap d = {}
         /\ \A c \in code : c \subseteq top..(AreaSize - 1)
  /\ \A p \in DOMAIN trace : \A e \in DOMAIN trace[p].jump :
       \/ Stubs(trace[p].jump[e]) = {e}
       \/ trace[p].jump[e] \in AreaEntries(trace, bridges)

=============================================================================
