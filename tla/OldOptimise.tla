---------------------------- MODULE OldOptimise ----------------------------
(***************************************************************************)
(* What finishRecording does to the trace of experiments/old-vm: unroll    *)
(* the loop once, remove dead code, find the allocations that can be sunk  *)
(* into the trace exits, lay out the remaining ones, remove dead code      *)
(* again (OptimiseIR.c, HeapInfo.c).                                       *)
(***************************************************************************)
EXTENDS OldRecord

RECURSIVE Ascending(_)
Ascending(S) == IF S = {} THEN << >> ELSE <<Min(S)>> \o Ascending(S \ {Min(S)})

(***************************************************************************)
(* Loop unrolling.                                                         *)
(***************************************************************************)
\* ren is the renaming of the instructions before ref.
Rename(ren, r) == IF r > 0 /\ r <= Len(ren) THEN ren[r] ELSE r

\* Mutant of replaySnapshot: the slots keep the values of the first iteration.
replayUnrenamed(J, ren, ref) ==
  LET sn == {k \in DOMAIN J.snap : J.snap[k].ref = ref}
      s == J.snap[Min(sn)]
      at == {x + InitialBase : x \in DOMAIN s.ent}
  IN IF sn = {} THEN J
     ELSE [J EXCEPT !.pc = s.pc, !.written = @ \cup at,
                    !.slot = [x \in DOMAIN @ |-> IF x \in at
                                THEN s.ent[x - InitialBase] ELSE @[x]]]

\* Replay the snapshot at ref, if there is one, on the slot table.
replaySnapshot(J, ren, ref) ==
  LET sn == {k \in DOMAIN J.snap : J.snap[k].ref = ref}
      s == J.snap[Min(sn)]
      at == {x + InitialBase : x \in DOMAIN s.ent}
  IN IF sn = {} THEN J
     ELSE [J EXCEPT !.pc = s.pc, !.written = @ \cup at,
                    !.slot = [x \in DOMAIN @ |-> IF x \in at
                                THEN Rename(ren, s.ent[x - InitialBase]) ELSE @[x]]]

\* FRAME, RET and NEW affect state outside of the IR buffer.
unrollEffect(J, ren, ins) ==
  CASE ins.o = "FRAME" -> [J EXCEPT !.baseslot = @ + ins.op1, !.maxslot = ins.op2]
    [] ins.o = "RET" -> [J EXCEPT !.baseslot = @ - ins.op1, !.maxslot = ins.op1 - 3]
    [] ins.o = "NEW" ->
         LET old == J.heap[ins.op2].fields
             new == newHeapInfo(J, [k \in DOMAIN old |-> Rename(ren, old[k])])
         IN [new EXCEPT !.ir[Out(J, 1)].op2 = Len(new.heap)]
    [] OTHER -> J

\* A value needs a PHI if the loop body computes it anew.  A comparison has the
\* type VOID with the guard flag, which is not VOID.
PhiNeeded(J, ref) ==
  LET r == Out(J, 1) IN J.rt # "VOID" /\ r > 0 /\ r # ref /\ J.ir[r].o # "FREF"

\* U has the JitState, the renaming, and the references that need a PHI.
unrolledIns(J, U, ins, ref) ==
  [j |-> unrollEffect(J, U.ren, ins), ren |-> Append(U.ren, Out(J, 1)),
   phis |-> IF PhiNeeded(J, ref) THEN Append(U.phis, ref) ELSE U.phis]
unrollIns(U, m, ref) ==
  LET ins == U.j.ir[ref]
      a == IF Op1IsRef(ins.o) THEN Rename(U.ren, ins.op1) ELSE ins.op1
      b == IF Op2IsRef(ins.o) THEN Rename(U.ren, ins.op2) ELSE ins.op2
  IN unrolledIns(optFold(Fresh(replaySnapshot(U.j, U.ren, ref)), m, Ins(ins.o, ins.t, a, b)),
                 U, ins, ref)

RECURSIVE unrollFrom(_, _, _)
unrollFrom(U, m, ref) ==
  IF ref = U.j.nloop THEN U ELSE unrollFrom(unrollIns(U, m, ref), m, ref + 1)

emitPhi(J, m, ref, twin) ==
  optFold([J EXCEPT !.ir[ref].phi = TRUE], m, Ins("PHI", J.ir[twin].t, ref, twin))
RECURSIVE emitPhis(_, _, _)
emitPhis(U, m, phis) ==
  IF phis = << >> THEN U.j
  ELSE emitPhis([U EXCEPT !.j = emitPhi(@, m, Head(phis), U.ren[Head(phis)])], m, Tail(phis))

addPhis(U, m) == emitPhis(U, m, U.phis)
optUnrollLoop(J, m) ==
  addPhis(unrollFrom([j |-> J, ren |-> << >>, phis |-> << >>], m, 1), m)

(***************************************************************************)
(* Dead code elimination.  M is the set of marked instructions.            *)
(***************************************************************************)
\* The PHI node of a value of the first iteration.  The code exits when a value
\* that is flagged has none; here CHOOSE fails.
PhiOf(J, ref) == CHOOSE p \in Chain(J, "PHI") : J.ir[p].op1 = ref
PhisOf(J, ref) == {p \in Chain(J, "PHI") : J.ir[p].op1 = ref}

\* Marking a value in the loop marks its PHI node, the first time around.
markIRRef(J, M, ref, site) ==
  IF ref < 0 THEN M
  ELSE IF site > J.nloop /\ J.ir[ref].phi /\ ref \notin M
    THEN M \cup {ref} \cup PhisOf(J, ref)
    ELSE M \cup {ref}

IsSunken(J, ref) == ref > 0 /\ J.ir[ref].o = "NEW" /\ J.ir[ref].sunk
FieldsOf(J, ref) == J.heap[J.ir[ref].op2].fields

\* A sunken object is looked through: its fields are needed instead.
RECURSIVE markSunkenFields(_, _, _, _)
markSunkenFields(J, M, fs, site) ==
  IF fs = << >> THEN M
  ELSE LET f == Head(fs)
           M1 == IF f \in M THEN M
                 ELSE IF IsSunken(J, f)
                   THEN markSunkenFields(J, M \cup {f}, FieldsOf(J, f), site)
                   ELSE markIRRef(J, M, f, site)
       IN markSunkenFields(J, M1, Tail(fs), site)

markValue(J, M, ref, site, post) ==
  IF post /\ IsSunken(J, ref)
    THEN markSunkenFields(J, M \cup {ref}, FieldsOf(J, ref), site)
    ELSE markIRRef(J, M, ref, site)

RECURSIVE markAll(_, _, _, _, _)
markAll(J, M, refs, site, post) ==
  IF refs = << >> THEN M
  ELSE markAll(J, markValue(J, M, Head(refs), site, post), Tail(refs), site, post)

markSnapshot(J, M, sn, post) ==
  LET slots == Ascending(DOMAIN sn.ent)
  IN markAll(J, M, [k \in DOMAIN slots |-> sn.ent[slots[k]]], sn.ref, post)

\* Allocations, loads, effects and guards stay; the rest only if it is needed.
Kept == Guards \cup Effects \cup Loads \cup {"NEW"}
markIRIns(J, M, ref, post) ==
  LET ins == J.ir[ref]
      M1 == IF ins.o \in Kept THEN M \cup {ref} ELSE M
      M2 == IF Op1IsRef(ins.o) THEN markIRRef(J, M1, ins.op1, ref) ELSE M1
      M3 == IF Op2IsRef(ins.o) THEN markIRRef(J, M2, ins.op2, ref) ELSE M2
  IN IF ref \notin M1 THEN M1
     ELSE IF ins.o # "NEW" THEN M3
     ELSE IF post /\ ins.sunk THEN markSunkenFields(J, M3, FieldsOf(J, ref), ref)
     ELSE markAll(J, M3, FieldsOf(J, ref), ref, FALSE)

RECURSIVE markSnapshots(_, _, _, _, _)
markSnapshots(J, M, k, low, post) ==
  IF k = 0 \/ J.snap[k].ref <= low THEN M
  ELSE markSnapshots(J, markSnapshot(J, M, J.snap[k], post), k - 1, low, post)

RECURSIVE markBack(_, _, _, _, _)
markBack(J, M, ref, low, post) ==
  IF ref <= low THEN M ELSE markBack(J, markIRIns(J, M, ref, post), ref - 1, low, post)

\* The loop and what comes before it are marked one after the other.
markTrace(J, post) ==
  LET n == Len(J.snap)
      M1 == IF J.nloop = 0 THEN {}
            ELSE markBack(J, markSnapshots(J, {}, n, J.nloop, post),
                          Len(J.ir), J.nloop, post)
      rest == {k \in 1..n : J.nloop = 0 \/ J.snap[k].ref <= J.nloop}
      M2 == markSnapshots(J, M1, Cardinality(rest), 0, post)
  IN markBack(J, M2, (IF J.nloop = 0 THEN nins(J) ELSE J.nloop) - 1, 0, post)

\* Before sinking, a PHI node stays if either argument is marked, and marks
\* the other; afterwards only a marked one stays.
RECURSIVE sweepPhis(_, _, _, _)
sweepPhis(J, M, phis, post) ==
  IF phis = {} THEN [ir |-> J.ir, marks |-> M]
  ELSE LET p == Max(phis)
           ins == J.ir[p]
           remove == IF post THEN p \notin M
                     ELSE {ins.op1, ins.op2} \cap M = {} \/ ins.t \in {"VOID", "CMP"}
       IN IF remove
            THEN sweepPhis([J EXCEPT !.ir[p].o = "NOP", !.ir[p].t = "VOID"], M \ {p},
                           phis \ {p}, post)
            ELSE sweepPhis(J, IF post THEN M ELSE M \cup {ins.op1, ins.op2},
                           phis \ {p}, post)

sweep(J, s) ==
  LET dead(r) == r \notin s.marks /\ s.ir[r].o \notin {"LOOP", "PHI"}
  IN [J EXCEPT !.ir = [r \in DOMAIN s.ir |->
        IF dead(r) THEN [s.ir[r] EXCEPT !.o = "NOP", !.t = "VOID"] ELSE s.ir[r]]]
optDeadCodeElim(J, post) ==
  sweep(J, sweepPhis(J, markTrace(J, post), Chain(J, "PHI"), post))

(***************************************************************************)
(* Allocation sinking.                                                     *)
(***************************************************************************)
findPhi(J, ref) ==
  IF ref < 0 \/ ref >= J.nloop \/ ~J.ir[ref].phi THEN 0 ELSE PhiOf(J, ref)
ThroughPhi(J, ref) == LET p == findPhi(J, ref) IN IF p # 0 THEN p ELSE ref
IsNode(J, ref) == ref > 0 /\ J.ir[ref].o \in {"NEW", "PHI"}

\* The references of a node: the fields of an object and of those it has been
\* updated with, seen through PHI nodes; the two arguments of a PHI node.
RECURSIVE Children(_, _)
Children(J, ref) ==
  IF J.ir[ref].o = "PHI" THEN <<J.ir[ref].op1, ThroughPhi(J, J.ir[ref].op2)>>
  ELSE LET h == J.heap[J.ir[ref].op2]
           fs == [k \in DOMAIN h.fields |-> ThroughPhi(J, h.fields[k])]
       IN IF h.ind > 0 /\ J.ir[h.ind].o = "NEW" THEN fs \o Children(J, h.ind) ELSE fs

\* Objects that refer to themselves, directly or through an update.
RECURSIVE SelfRefs(_, _)
SelfRefs(J, ref) ==
  LET h == J.heap[J.ir[ref].op2]
  IN {x \in {ref} : ref \in Range(h.fields)}
     \cup IF h.ind > 0 /\ J.ir[h.ind].o = "NEW" THEN SelfRefs(J, h.ind) ELSE {}

\* Path-based search for strongly connected components: D has the stacks s and
\* p, the numbers dfs and scc of the nodes, and the objects in a loop.
PopTo(D, n) == [D EXCEPT !.p = SelectSeq(@, LAMBDA x : D.dfs[x] <= n)]

RECURSIVE dfs2a(_, _, _)
RECURSIVE dfsChildren(_, _, _)
visit(J, D, ref) ==
  [D EXCEPT !.dfs = (ref :> D.pre) @@ @, !.pre = @ + 1, !.s = Append(@, ref),
            !.p = Append(@, ref),
            !.loop = IF J.ir[ref].o = "NEW" THEN @ \cup SelfRefs(J, ref) ELSE @]
\* The nodes above a root on the stack s are its component.
closeSCC(J, D, ref) ==
  LET k == CHOOSE n \in DOMAIN D.s : D.s[n] = ref
      comp == SubSeq(D.s, k, Len(D.s))
  IN IF Last(D.p) # ref THEN D
     ELSE [D EXCEPT !.p = Front(@), !.s = SubSeq(@, 1, k - 1), !.scc = @ \cup Range(comp),
                    !.loop = IF Len(comp) > 1
                               THEN @ \cup {x \in Range(comp) : J.ir[x].o = "NEW"} ELSE @]
dfs1a(J, D, ref) == closeSCC(J, dfsChildren(J, visit(J, D, ref), Children(J, ref)), ref)
dfsChildren(J, D, cs) ==
  IF cs = << >> THEN D ELSE dfsChildren(J, dfs2a(J, D, Head(cs)), Tail(cs))
dfs2a(J, D, ref) ==
  IF ~IsNode(J, ref) THEN D
  ELSE IF ref \notin DOMAIN D.dfs THEN dfs1a(J, D, ref)
  ELSE IF ref \in D.scc THEN D
  ELSE PopTo(D, D.dfs[ref])

heapLoops(J) ==
  LET roots == Reverse(Ascending({r \in Chain(J, "NEW") : r > J.nloop}))
  IN dfsChildren(J, [s |-> << >>, p |-> << >>, pre |-> 1, dfs |-> << >>, scc |-> {},
                     loop |-> {}], roots).loop

\* An object stored in one that the trace has not allocated, and both versions
\* of an updated one that the loop carries.
updateUnsinkable(J) ==
  LET external(u) == ~(J.ir[u].op1 > 0 /\ J.ir[J.ir[u].op1].o = "NEW")
                     /\ J.ir[u].op2 > 0 /\ J.ir[J.ir[u].op2].o = "NEW"
      carried(u) == IF u > J.nloop /\ findPhi(J, J.ir[u].op1) # 0
                      THEN {J.ir[u].op1, J.ir[findPhi(J, J.ir[u].op1)].op2} ELSE {}
      unsink(u) == IF external(u) THEN {J.ir[u].op2}
                   ELSE {r \in carried(u) : J.ir[r].o = "NEW"}
  IN UNION {unsink(u) : u \in Chain(J, "UPDATE")}

\* Everything reachable from an unsinkable node is unsinkable.
RECURSIVE reachable(_, _, _)
reachable(J, M, todo) ==
  IF todo = {} THEN M
  ELSE LET r == Max(todo)
           next == {c \in Range(Children(J, r)) : IsNode(J, c)}
           ind == IF J.ir[r].o = "NEW" THEN {J.heap[J.ir[r].op2].ind} ELSE {}
           new == next \cup {c \in ind : c # 0 /\ IsNode(J, c)}
       IN reachable(J, M \cup {r}, (todo \cup new) \ (M \cup {r}))

\* Both arguments of a PHI node are sunken, or none; the nodes from the last.
RECURSIVE agreePhis(_, _, _)
agreePhis(J, M, phis) ==
  IF phis = {} THEN M
  ELSE LET p == Max(phis)
           args == {J.ir[p].op1, J.ir[p].op2}
           one == (\A r \in args : J.ir[r].o = "NEW") /\ Cardinality(args \cap M) = 1
       IN agreePhis(J, IF one THEN reachable(J, M, args \ M) ELSE M, phis \ {p})

heapSCCs(J) ==
  LET M1 == reachable(J, {}, heapLoops(J) \cup updateUnsinkable(J))
      M2 == agreePhis(J, M1, Chain(J, "PHI"))
  IN [J EXCEPT !.ir = [r \in DOMAIN @ |->
        IF @[r].o = "NEW" /\ r \notin M2 THEN [@[r] EXCEPT !.sunk = TRUE] ELSE @[r]]]

(***************************************************************************)
(* Heap layout: the objects of one side of the loop share a heap check,    *)
(* and lie below the bumped heap pointer in the order of allocation.       *)
(***************************************************************************)
words(J, r) == Len(FieldsOf(J, r)) + 1
RECURSIVE layout(_, _, _)
layout(J, news, total) ==
  IF news = {} THEN J
  ELSE LET r == Max(news)
       IN layout([J EXCEPT !.heap[J.ir[r].op2].offs = total - words(J, r)],
                 news \ {r}, total - words(J, r))

\* Without allocations the check is deleted, and its snapshot.
fixSide(J, side) ==
  LET news == {r \in Chain(J, "NEW") \cap side : ~J.ir[r].sunk}
      hpmax == MapThenSumSet(LAMBDA r : words(J, r), news)
      chks == Chain(J, "HEAPCHK") \cap side
      c == Min(chks)
  IN IF news # {} THEN layout([J EXCEPT !.ir[c].op1 = hpmax], news, 1)
     ELSE IF chks = {} THEN J
     ELSE [J EXCEPT !.ir[c].o = "NOP",
                    !.snap = [k \in DOMAIN @ |->
                       IF @[k].ref = c THEN [@[k] EXCEPT !.nslots = 0] ELSE @[k]]]

fixHeapOffsets(J) ==
  LET border == IF J.nloop = 0 THEN nins(J) ELSE J.nloop
  IN fixSide(fixSide(J, (border + 1)..Len(J.ir)), 1..(border - 1))

\* The PHI nodes move together, over the instructions deleted before them.
compactPhis(J) ==
  LET phis == Chain(J, "PHI")
      live == {r \in DOMAIN J.ir : r < Min(phis) /\ J.ir[r].o # "NOP"}
      moved == Ascending(phis)
  IN IF phis = {} THEN J
     ELSE [J EXCEPT !.ir = SubSeq(@, 1, Max(live)) \o [k \in DOMAIN moved |-> J.ir[moved[k]]]]

\* The trace is unrolled if it returns to its start at the depth it began at.
markLoop(J) == [J EXCEPT !.nloop = Out(J, 1)]
finishTrace(J, m) ==
  IF J.depth <= 0 /\ J.baseslot = InitialBase + 1
    THEN compactPhis(optDeadCodeElim(fixHeapOffsets(heapSCCs(optDeadCodeElim(
           optUnrollLoop(markLoop(emitIR(J, Ins("LOOP", "VOID", 0, 0))), m),
         FALSE))), TRUE))
    ELSE optDeadCodeElim(fixHeapOffsets(emitIR(J, Ins("SAVE", "VOID", Len(J.snap), 0))), TRUE)
finishRecording(J, m) == Fresh(finishTrace(addSnapshot(J), m))

=============================================================================
