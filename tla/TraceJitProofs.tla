--------------------------- MODULE TraceJitProofs ---------------------------
(***************************************************************************)
(* Proofs about TraceJit, for every set of addresses and control flow, all *)
(* thresholds and any number of fragments and exits; about the literals of *)
(* a trace, for every width of words; and about the loop filter, for every *)
(* program and size of its buffer.                                         *)
(***************************************************************************)
EXTENDS TraceJit, IRLiterals, LoopFilter, SequenceTheorems, FiniteSetTheorems,
        WellFoundedInduction, TLAPS

(***************************************************************************)
(* The inductive invariant.                                                *)
(***************************************************************************)

SnapType ==
  [pc : Pc, op : {"guard", "heapchk", "save"}, exitCounter : 1..HotSideExit,
   to : Nat, setsId : BOOLEAN]
FragmentType ==
  [startPc : Pc, type : {"root", "fallthrough", "side"}, isReturn : BOOLEAN,
   tail : {"exit", "link", "loop"}, link : Nat, snaps : Seq(SnapType)]
RecType ==
  [cap : BOOLEAN, startPc : Nat, type : {"root", "fallthrough", "side"},
   parent : Nat, exit : Nat, isReturn : BOOLEAN, btb : Seq(Pc),
   snaps : Seq(SnapType), lastInsWasBranch : BOOLEAN, shouldAbort : BOOLEAN]

\* TypeOK, and the types of what it leaves out.
TypeInv ==
  /\ TypeOK
  /\ counters \in [{Hash[p] : p \in Pc} -> 1..HotThreshold]
  /\ fragments \in Seq(FragmentType)
  /\ state \in {"INTERP", "RECORD"}
  /\ rec \in RecType

\* Exits: only the last one is that of SAVE, a trace that ended at an inner
\* loop did not end at an IFUNC, and an exit that was linked without the
\* trace id being set leads to a fragment that sets it.
ExitsInv ==
  \A f \in Fragment :
    LET fr == fragments[f] IN
    /\ Len(fr.snaps) > 0
    /\ \A e \in Exits(f) :
         /\ e < Len(fr.snaps) => fr.snaps[e].op # "save"
         /\ fr.snaps[e].to \in 0..Len(fragments)
         /\ fr.snaps[e].to # 0 =>
              fr.snaps[e].setsId \/ SetsTraceId(fragments[fr.snaps[e].to])
    /\ fr.tail = "link" => fr.link \in Fragment
    /\ fr.tail = "exit" => fr.snaps[Len(fr.snaps)].pc \notin IFunc

\* A recording r while the fragments are frs: what the fragment will be
\* entered from, and that its address becomes a JFUNC exactly if a function
\* begins there.
RecOK(r, frs) ==
  /\ r.startPc \in Pc
  /\ Len(r.btb) > 0 /\ r.btb[1] = r.startPc
  /\ r.type # "side" => (r.isReturn <=> r.startPc \notin Func)
  /\ r.parent # 0 <=> r.type # "root"
  /\ r.parent # 0 =>
       /\ r.parent \in 1..Len(frs)
       /\ r.exit \in 1..Len(frs[r.parent].snaps)
       /\ frs[r.parent].snaps[r.exit].pc = r.startPc
       /\ frs[r.parent].snaps[r.exit].to = 0
  /\ \A e \in 1..Len(r.snaps) : r.snaps[e].op # "save" /\ r.snaps[e].to = 0

RecInv == rec.cap => RecOK(rec, fragments)

\* The inductive invariant of the traces.
JitInv ==
  /\ TypeInv
  /\ ExitsInv
  /\ RecInv
  /\ TraceIdExact
  /\ LinksAtPc
  /\ JfuncExact
  /\ OneRecording

-----------------------------------------------------------------------------
(***************************************************************************)
(* Facts about fragments.                                                  *)
(***************************************************************************)

\* A well-typed fragment and its exits.
LEMMA FragmentFacts ==
  ASSUME NEW frs \in Seq(FragmentType), NEW f \in 1..Len(frs)
  PROVE  /\ frs[f] \in FragmentType
         /\ frs[f].snaps \in Seq(SnapType)
         /\ DOMAIN frs[f].snaps = 1..Len(frs[f].snaps)
         /\ Len(frs[f].snaps) \in Nat
         /\ \A e \in 1..Len(frs[f].snaps) : frs[f].snaps[e] \in SnapType
<1>1. frs[f] \in FragmentType
  OBVIOUS
<1>2. frs[f].snaps \in Seq(SnapType)
  BY <1>1 DEF FragmentType
<1> HIDE DEF FragmentType, SnapType
<1> QED BY <1>1, <1>2

\* Overwriting one snapshot (the exit counter, or patchGuard) changes nothing
\* else.
SetSnap(frs, f, e, sn) == [frs EXCEPT ![f].snaps[e] = sn]

\* The fragments r are frs with the snapshot e of f replaced by sn.
SnapSet(r, frs, f, e, sn) ==
  /\ r \in Seq(FragmentType)
  /\ Len(r) = Len(frs)
  /\ \A x \in 1..Len(frs) :
       /\ r[x].startPc = frs[x].startPc
       /\ r[x].type = frs[x].type
       /\ r[x].tail = frs[x].tail
       /\ r[x].link = frs[x].link
       /\ Len(r[x].snaps) = Len(frs[x].snaps)
       /\ \A y \in 1..Len(frs[x].snaps) :
            r[x].snaps[y] = IF x = f /\ y = e THEN sn
                            ELSE frs[x].snaps[y]

\* To set a snapshot of a fragment changes nothing but that snapshot.
LEMMA SnapUpdate ==
  ASSUME NEW frs \in Seq(FragmentType), NEW f \in 1..Len(frs),
         NEW e \in 1..Len(frs[f].snaps), NEW sn \in SnapType,
         NEW r, r = SetSnap(frs, f, e, sn)
  PROVE  SnapSet(r, frs, f, e, sn)
<1>1. /\ frs[f] \in FragmentType
      /\ frs[f].snaps \in Seq(SnapType)
  BY FragmentFacts
<1> DEFINE sns == [frs[f].snaps EXCEPT ![e] = sn]
<1>2. /\ sns \in Seq(SnapType)
      /\ Len(sns) = Len(frs[f].snaps)
      /\ \A y \in 1..Len(sns) : sns[y] = IF y = e THEN sn ELSE frs[f].snaps[y]
  BY <1>1
<1> DEFINE fr == [frs[f] EXCEPT !.snaps = sns]
<1>3. r = [frs EXCEPT ![f] = fr]
  BY DEF SetSnap
<1> HIDE DEF sns
<1>4. /\ fr \in FragmentType
      /\ fr.startPc = frs[f].startPc /\ fr.type = frs[f].type
      /\ fr.tail = frs[f].tail /\ fr.link = frs[f].link
      /\ fr.snaps = sns
  BY <1>1, <1>2 DEF FragmentType
<1> HIDE DEF fr
<1>5. /\ r \in Seq(FragmentType)
      /\ Len(r) = Len(frs)
      /\ \A x \in 1..Len(frs) : r[x] = IF x = f THEN fr ELSE frs[x]
  BY <1>3, <1>4, ExceptSeq
<1> QED BY <1>2, <1>4, <1>5 DEF SnapSet

\* The fields of a snapshot.
LEMMA SnapFacts ==
  ASSUME NEW sn \in SnapType
  PROVE  sn.pc \in Pc /\ sn.exitCounter \in 1..HotSideExit
BY DEF SnapType

\* What every step may rely on.
LEMMA TypeFacts ==
  ASSUME JitInv
  PROVE  /\ fragments \in Seq(FragmentType) /\ Len(fragments) \in Nat
         /\ Fragment = 1..Len(fragments)
         /\ rec \in RecType /\ pc \in Pc
         /\ jfunc \in [Pc -> 0..Len(fragments)]
         /\ fragmentMap \in [Pc -> 0..Len(fragments)]
         /\ running \in 0..Len(fragments) /\ F_id \in 0..Len(fragments)
         /\ mode \in {"interp", "trace"} /\ state \in {"INTERP", "RECORD"}
         /\ \A p \in Pc : jfunc[p] # 0 =>
              fragmentMap[p] = jfunc[p] /\ jfunc[p] \in Fragment
              /\ fragments[fragmentMap[p]].startPc = p
<1>1. fragments \in Seq(FragmentType) /\ Len(fragments) \in Nat
  BY DEF JitInv, TypeInv
<1>2. /\ jfunc \in [Pc -> 0..Len(fragments)]
      /\ fragmentMap \in [Pc -> 0..Len(fragments)]
  BY DEF JitInv, TypeInv, TypeOK
<1>3. \A p \in Pc : jfunc[p] # 0 =>
              fragmentMap[p] = jfunc[p] /\ jfunc[p] \in Fragment
              /\ fragments[fragmentMap[p]].startPc = p
  BY <1>1, <1>2 DEF JitInv, JfuncExact, Fragment
<1> QED BY <1>1, <1>2, <1>3 DEF JitInv, TypeInv, TypeOK, Fragment

\* A step that leaves the fragments and what leads to them alone.
LEMMA KeepFragments ==
  ASSUME JitInv, UNCHANGED <<jfunc, fragments, fragmentMap>>,
         pc' \in Pc, mode' \in {"interp", "trace"},
         running' \in 0..Len(fragments), F_id' \in 0..Len(fragments),
         mode' = "trace" <=> running' # 0,
         mode' = "trace" => F_id' = running' /\ ~ rec'.cap,
         counters' \in [{Hash[p] : p \in Pc} -> 1..HotThreshold],
         state' \in {"INTERP", "RECORD"},
         rec' \in RecType, Len(rec'.btb) <= MaxTargets,
         rec'.cap => RecOK(rec', fragments),
         rec'.cap <=> state' = "RECORD"
  PROVE  JitInv'
<1>1. TypeInv'
  BY DEF JitInv, TypeInv, TypeOK, Fragment, Exits
<1>2. ExitsInv' /\ LinksAtPc'
  BY DEF JitInv, ExitsInv, LinksAtPc, Fragment, Exits, SetsTraceId
<1>3. RecInv' /\ TraceIdExact' /\ OneRecording'
  BY DEF RecInv, TraceIdExact, OneRecording
<1>4. JfuncExact'
  BY DEF JitInv, JfuncExact
<1> QED BY <1>1, <1>2, <1>3, <1>4 DEF JitInv

\* A step that adds fragments, or overwrites snapshots so that an exit is
\* linked to a fragment for its address.
KeptFragment(x) ==
  /\ fragments'[x].startPc = fragments[x].startPc
  /\ fragments'[x].type = fragments[x].type
  /\ fragments'[x].tail = fragments[x].tail
  /\ fragments'[x].link = fragments[x].link
  /\ Len(fragments'[x].snaps) = Len(fragments[x].snaps)

KeptSnap(sn, new) ==
  /\ new.pc = sn.pc /\ new.op = sn.op
  /\ \/ new.to = sn.to /\ new.setsId = sn.setsId
     \/ /\ new.to \in 1..Len(fragments')
        /\ fragments'[new.to].startPc = sn.pc
        /\ new.setsId \/ fragments'[new.to].type # "root"

AddedFragment(fr) ==
  /\ Len(fr.snaps) > 0
  /\ \A y \in 1..Len(fr.snaps) :
       /\ fr.snaps[y].to = 0
       /\ y < Len(fr.snaps) => fr.snaps[y].op # "save"
  /\ fr.tail = "link" =>
       /\ fr.link \in 1..Len(fragments)
       /\ fragments[fr.link].startPc = fr.snaps[Len(fr.snaps)].pc
  /\ fr.tail = "loop" => fr.startPc = fr.snaps[Len(fr.snaps)].pc
  /\ fr.tail = "exit" => fr.snaps[Len(fr.snaps)].pc \notin IFunc

\* Exits stay linked to fragments that begin where they leave, when fragments
\* and linked snapshots are kept and what is new is added at the end.
LEMMA LinksKept ==
  ASSUME JitInv, fragments' \in Seq(FragmentType),
         Len(fragments) <= Len(fragments'),
         \A x \in 1..Len(fragments) : KeptFragment(x),
         \A x \in 1..Len(fragments) : \A y \in 1..Len(fragments[x].snaps) :
           KeptSnap(fragments[x].snaps[y], fragments'[x].snaps[y]),
         \A x \in (Len(fragments) + 1)..Len(fragments') :
           AddedFragment(fragments'[x])
  PROVE  ExitsInv' /\ LinksAtPc'
<1>1. /\ fragments \in Seq(FragmentType) /\ Len(fragments) \in Nat
      /\ Len(fragments') \in Nat
  BY TypeFacts
<1> SUFFICES ASSUME NEW x \in 1..Len(fragments')
             PROVE  LET fr == fragments'[x] IN
               /\ Len(fr.snaps) > 0
               /\ \A y \in 1..Len(fr.snaps) :
                    /\ y < Len(fr.snaps) => fr.snaps[y].op # "save"
                    /\ fr.snaps[y].to \in 0..Len(fragments')
                    /\ fr.snaps[y].to # 0 =>
                         /\ fr.snaps[y].setsId
                            \/ fragments'[fr.snaps[y].to].type # "root"
                         /\ fragments'[fr.snaps[y].to].startPc = fr.snaps[y].pc
               /\ fr.tail = "link" =>
                    /\ fr.link \in 1..Len(fragments')
                    /\ fragments'[fr.link].startPc = fr.snaps[Len(fr.snaps)].pc
               /\ fr.tail = "exit" => fr.snaps[Len(fr.snaps)].pc \notin IFunc
               /\ fr.tail = "loop" => fr.startPc = fr.snaps[Len(fr.snaps)].pc
  <2>1. \A z \in 1..Len(fragments') :
          DOMAIN fragments'[z].snaps = 1..Len(fragments'[z].snaps)
    BY FragmentFacts
  <2> QED BY <2>1 DEF ExitsInv, LinksAtPc, Fragment, Exits, SetsTraceId
<1>2. \A z \in 1..Len(fragments) :
        /\ fragments'[z].startPc = fragments[z].startPc
        /\ fragments'[z].type = fragments[z].type
  BY DEF KeptFragment
<1>3. CASE x \in (Len(fragments) + 1)..Len(fragments')
  <2>1. AddedFragment(fragments'[x])
    BY <1>3
  <2>2. \A z \in 1..Len(fragments) : z \in 1..Len(fragments')
    BY <1>1
  <2> QED BY <1>1, <1>2, <2>1, <2>2 DEF AddedFragment
<1>4. CASE x \in 1..Len(fragments)
  <2> DEFINE fr == fragments[x]
             new == fragments'[x]
             n == Len(fr.snaps)
  <2>1. DOMAIN fr.snaps = 1..n /\ n \in Nat
    BY <1>1, <1>4, FragmentFacts
  <2>2. /\ n > 0
        /\ \A y \in 1..n :
             /\ y < n => fr.snaps[y].op # "save"
             /\ fr.snaps[y].to \in 0..Len(fragments)
             /\ fr.snaps[y].to # 0 =>
                  /\ fr.snaps[y].setsId
                     \/ fragments[fr.snaps[y].to].type # "root"
                  /\ fragments[fr.snaps[y].to].startPc = fr.snaps[y].pc
        /\ fr.tail = "link" =>
             /\ fr.link \in 1..Len(fragments)
             /\ fragments[fr.link].startPc = fr.snaps[n].pc
        /\ fr.tail = "exit" => fr.snaps[n].pc \notin IFunc
        /\ fr.tail = "loop" => fr.startPc = fr.snaps[n].pc
    BY <1>4, <2>1
       DEF JitInv, ExitsInv, LinksAtPc, Fragment, Exits, SetsTraceId
  <2>3. /\ new.startPc = fr.startPc /\ new.tail = fr.tail
        /\ new.link = fr.link /\ Len(new.snaps) = n
    BY <1>4 DEF KeptFragment
  <2>4. \A y \in 1..n : KeptSnap(fr.snaps[y], new.snaps[y])
    BY <1>4
  <2> HIDE DEF fr, new, n
  <2>5. \A y \in 1..n : new.snaps[y].pc = fr.snaps[y].pc
                        /\ new.snaps[y].op = fr.snaps[y].op
    BY <2>4 DEF KeptSnap
  <2>6. ASSUME NEW y \in 1..n
        PROVE  /\ new.snaps[y].to \in 0..Len(fragments')
               /\ new.snaps[y].to # 0 =>
                    /\ new.snaps[y].setsId
                       \/ fragments'[new.snaps[y].to].type # "root"
                    /\ fragments'[new.snaps[y].to].startPc = new.snaps[y].pc
    <3>1. KeptSnap(fr.snaps[y], new.snaps[y])
      BY <2>4
    <3>2. CASE /\ new.snaps[y].to = fr.snaps[y].to
               /\ new.snaps[y].setsId = fr.snaps[y].setsId
      <4> DEFINE t == fr.snaps[y].to
      <4>1. /\ t \in 0..Len(fragments)
            /\ t # 0 => /\ fr.snaps[y].setsId \/ fragments[t].type # "root"
                        /\ fragments[t].startPc = fr.snaps[y].pc
        BY <2>2
      <4>2. new.snaps[y].to = t /\ new.snaps[y].setsId = fr.snaps[y].setsId
        BY <3>2
      <4> HIDE DEF t
      <4>3. t \in 0..Len(fragments')
        BY <4>1, <1>1
      <4>4. t # 0 => fragments'[t].type = fragments[t].type
                     /\ fragments'[t].startPc = fragments[t].startPc
        BY <4>1, <1>1, <1>2
      <4> QED BY <4>1, <4>2, <4>3, <4>4, <2>5
    <3>3. CASE new.snaps[y].to \in 1..Len(fragments')
               /\ fragments'[new.snaps[y].to].startPc = new.snaps[y].pc
               /\ (new.snaps[y].setsId \/ fragments'[new.snaps[y].to].type # "root")
      <4> DEFINE to == new.snaps[y].to
      <4>1. to \in 1..Len(fragments')
        BY <3>3
      <4> HIDE DEF to
      <4>2. to \in 0..Len(fragments')
        BY <4>1, <1>1
      <4> QED BY <3>3, <4>2 DEF to
    <3> QED BY <3>1, <3>2, <3>3, <2>5 DEF KeptSnap
  <2>7. /\ n > 0 /\ n \in 1..n
        /\ \A y \in 1..n : y < n => new.snaps[y].op # "save"
        /\ new.tail = "exit" => new.snaps[n].pc \notin IFunc
        /\ new.tail = "loop" => new.startPc = new.snaps[n].pc
    BY <2>1, <2>2, <2>3, <2>5
  <2>8. new.tail = "link" =>
          /\ new.link \in 1..Len(fragments')
          /\ fragments'[new.link].startPc = new.snaps[n].pc
    BY <1>1, <1>2, <2>2, <2>3, <2>5, <2>7
  <2> QED BY <2>3, <2>6, <2>7, <2>8 DEF new
<1> QED BY <1>1, <1>3, <1>4

-----------------------------------------------------------------------------
(***************************************************************************)
(* The recordings that are started.                                        *)
(***************************************************************************)

\* The recorder at rest.
LEMMA IdleFacts ==
  /\ Idle \in RecType /\ ~ Idle.cap /\ Len(Idle.btb) = 0
  /\ Idle.type = "root" /\ Idle.parent = 0 /\ Idle.exit = 0
  /\ Idle.snaps = << >> /\ Idle.isReturn = FALSE
BY DEF Idle, RecType

\* A recording that has just begun at address p.
Fresh(r, p) ==
  /\ r \in RecType
  /\ r.cap /\ r.startPc = p /\ Len(r.btb) = 1 /\ r.btb[1] = p
  /\ Len(r.snaps) = 0

\* A recording that was reset is a fresh one of a root trace.
LEMMA InitRecordingFacts ==
  ASSUME NEW p \in Pc
  PROVE  LET i == InitRecording(p) IN
         /\ Fresh(i, p) /\ i.type = "root" /\ i.parent = 0 /\ i.exit = 0
         /\ i.isReturn = FALSE
<1> DEFINE i == InitRecording(p)
<1>1. p \in Nat /\ <<p>> \in Seq(Pc)
  BY TraceJitAssumption
<1>2. /\ i \in RecType /\ i.cap = TRUE /\ i.startPc = p /\ i.btb = <<p>>
      /\ i.snaps = Idle.snaps /\ i.type = Idle.type
      /\ i.parent = Idle.parent /\ i.exit = Idle.exit
      /\ i.isReturn = Idle.isReturn
  BY <1>1, IdleFacts DEF InitRecording, RecType
<1> QED BY <1>2, IdleFacts DEF Fresh

\* A hot location begins a fresh recording of a root trace,
LEMMA BeginFacts ==
  ASSUME NEW p \in Pc, NEW b \in BOOLEAN
  PROVE  LET r == BeginRecording(p, b) IN
         Fresh(r, p) /\ r.type = "root" /\ r.parent = 0 /\ r.isReturn = b
<1> DEFINE i == InitRecording(p)
           r == BeginRecording(p, b)
<1>1. Fresh(i, p) /\ i.type = "root" /\ i.parent = 0
  BY InitRecordingFacts
<1>2. r = [i EXCEPT !.isReturn = b]
  BY DEF BeginRecording
<1> HIDE DEF r, i
<1>3. Fresh(r, p) /\ r.type = "root" /\ r.parent = 0 /\ r.isReturn = b
  BY <1>1, <1>2 DEF Fresh, RecType
<1> QED BY <1>3 DEF r

\* a fallthrough one that knows the exit it continues,
LEMMA FallthroughFacts ==
  ASSUME NEW p \in Pc, NEW b \in BOOLEAN, NEW f \in Nat, NEW e \in Nat
  PROVE  LET r == Fallthrough(p, b, f, e) IN
         /\ Fresh(r, p) /\ r.type = "fallthrough" /\ r.isReturn = b
         /\ r.parent = f /\ r.exit = e
<1> DEFINE i == BeginRecording(p, b)
           r == Fallthrough(p, b, f, e)
<1>1. Fresh(i, p) /\ i.isReturn = b
  BY BeginFacts
<1>2. r = [i EXCEPT !.type = "fallthrough", !.parent = f, !.exit = e]
  BY DEF Fallthrough
<1>3. i \in RecType /\ "fallthrough" \in {"root", "fallthrough", "side"}
  BY <1>1 DEF Fresh
<1> HIDE DEF r, i
<1>4. /\ r \in RecType /\ r.type = "fallthrough" /\ r.parent = f /\ r.exit = e
      /\ r.isReturn = i.isReturn /\ r.cap = i.cap /\ r.startPc = i.startPc
      /\ r.btb = i.btb /\ r.snaps = i.snaps
  BY <1>2, <1>3 DEF RecType
<1> QED BY <1>1, <1>4 DEF Fresh, r

\* and a hot exit one of a side trace, which does too.
LEMMA SideTraceFacts ==
  ASSUME NEW p \in Pc, NEW f \in Nat, NEW e \in Nat
  PROVE  LET r == BeginSideTrace(p, f, e) IN
         Fresh(r, p) /\ r.type = "side" /\ r.parent = f /\ r.exit = e
<1> DEFINE i == InitRecording(p)
           r == BeginSideTrace(p, f, e)
<1>1. Fresh(i, p)
  BY InitRecordingFacts
<1>2. r = [i EXCEPT !.type = "side", !.parent = f, !.exit = e]
  BY DEF BeginSideTrace
<1>3. i \in RecType /\ "side" \in {"root", "fallthrough", "side"}
  BY <1>1 DEF Fresh
<1> HIDE DEF r, i
<1>4. /\ r \in RecType /\ r.type = "side" /\ r.parent = f /\ r.exit = e
      /\ r.cap = i.cap /\ r.startPc = i.startPc
      /\ r.btb = i.btb /\ r.snaps = i.snaps
  BY <1>2, <1>3 DEF RecType
<1> QED BY <1>1, <1>4 DEF Fresh, r

-----------------------------------------------------------------------------
(***************************************************************************)
(* The interpreter.                                                        *)
(***************************************************************************)

\* The JIT begins with the invariant.
LEMMA InitInv == Init => JitInv
<1> SUFFICES ASSUME Init PROVE JitInv
  OBVIOUS
<1> USE TraceJitAssumption DEF Init
<1>1. Len(fragments) = 0 /\ Fragment = {} /\ fragments \in Seq(FragmentType)
  BY DEF Fragment
<1>2. rec \in RecType /\ ~ rec.cap /\ Len(rec.btb) = 0
  BY IdleFacts
<1>3. counters \in [{Hash[p] : p \in Pc} -> 1..HotThreshold]
  <2>1. HotThreshold \in 1..HotThreshold
    OBVIOUS
  <2> QED BY <2>1
<1>4. TypeOK
  <2>1. \A h \in DOMAIN counters : counters[h] \in 1..HotThreshold
    BY <1>3
  <2>2. Len(rec.btb) <= MaxTargets
    BY <1>2
  <2>3. pc \in Pc
    BY DEF Pc, Target
  <2>4. /\ jfunc \in [Pc -> 0..Len(fragments)]
        /\ fragmentMap \in [Pc -> 0..Len(fragments)]
    BY <1>1
  <2> QED BY <1>1, <2>1, <2>2, <2>3, <2>4 DEF TypeOK
<1>5. TypeInv
  BY <1>1, <1>2, <1>3, <1>4 DEF TypeInv
<1>6. ExitsInv /\ LinksAtPc
  BY <1>1 DEF ExitsInv, LinksAtPc
<1>7. RecInv /\ TraceIdExact /\ OneRecording
  BY <1>2 DEF RecInv, TraceIdExact, OneRecording
<1>8. JfuncExact
  BY DEF JfuncExact
<1> QED BY <1>5, <1>6, <1>7, <1>8 DEF JitInv

\* Facts about a state of the invariant that KeepFragments asks for again.
LEMMA KeptFacts ==
  ASSUME JitInv
  PROVE  /\ mode = "trace" <=> running # 0
         /\ mode = "trace" => F_id = running /\ ~ rec.cap
         /\ counters \in [{Hash[p] : p \in Pc} -> 1..HotThreshold]
         /\ Len(rec.btb) <= MaxTargets
         /\ rec.cap => RecOK(rec, fragments)
         /\ rec.cap <=> state = "RECORD"
BY DEF JitInv, TypeInv, TypeOK, TraceIdExact, OneRecording, RecInv

\* An instruction that is interpreted keeps it.
LEMMA ExecuteInv ==
  ASSUME JitInv, NEW q \in Inner, Execute(q)
  PROVE  JitInv'
<1>1. pc' \in Pc
  BY DEF Execute, Pc
<1> QED BY <1>1, KeepFragments, KeptFacts, TypeFacts DEF Execute

\* A jump to a fragment with a trace id that will be right.
LEMMA JumpInv ==
  ASSUME JitInv, NEW g \in Fragment, NEW id \in 0..Len(fragments),
         id = g \/ SetsTraceId(fragments[g]),
         ~ rec.cap, JumpTo(g, id), pc' \in Pc,
         counters' \in [{Hash[p] : p \in Pc} -> 1..HotThreshold],
         UNCHANGED <<jfunc, fragments, fragmentMap, state, rec>>
  PROVE  JitInv'
<1>1. /\ mode' = "trace" /\ running' = g /\ F_id' = g
  BY DEF JumpTo
<1>2. g \in 0..Len(fragments) /\ g # 0
  BY TypeFacts
<1> QED BY <1>1, <1>2, KeepFragments, KeptFacts, TypeFacts

\* The counters stay between 1 and the threshold.
LEMMA TickFacts ==
  ASSUME JitInv, NEW p \in Pc, Tick(p)
  PROVE  counters' \in [{Hash[q] : q \in Pc} -> 1..HotThreshold]
<1>1. counters \in [{Hash[q] : q \in Pc} -> 1..HotThreshold]
  BY KeptFacts
<1>2. counters[Hash[p]] \in 1..HotThreshold
  BY <1>1
<1>3. Ticked(p) = counters[Hash[p]] - 1
  <2> DEFINE c == counters[Hash[p]]
  <2>1. c \in Nat /\ c > 0 /\ c < 65536 /\ 2^16 = 65536
    BY <1>2, TraceJitAssumption
  <2> HIDE DEF c
  <2>2. (c + 65535) % 65536 = c - 1
    BY <2>1
  <2> QED BY <2>1, <2>2 DEF Ticked, c
<1>4. (IF IsHot(p) THEN HotThreshold ELSE Ticked(p)) \in 1..HotThreshold
  BY <1>2, <1>3, TraceJitAssumption DEF IsHot
<1> QED BY <1>1, <1>4 DEF Tick

\* A recording that is started, or not for want of room.
LEMMA StartInv ==
  ASSUME JitInv, mode = "interp", ~ rec.cap,
         NEW r, NEW p, Fresh(r, p), RecOK(r, fragments),
         StartRecording(r), pc' \in Pc,
         counters' \in [{Hash[q] : q \in Pc} -> 1..HotThreshold],
         UNCHANGED <<mode, running, F_id, jfunc, fragments, fragmentMap>>
  PROVE  JitInv'
<1>1. /\ rec' \in RecType /\ Len(rec'.btb) <= MaxTargets
      /\ rec'.cap => RecOK(rec', fragments)
      /\ rec'.cap <=> state' = "RECORD"
      /\ state' \in {"INTERP", "RECORD"}
  <2>1. CASE UNCHANGED <<rec, state>>
    BY <2>1, KeptFacts, TypeFacts
  <2>2. CASE rec' = r /\ state' = "RECORD"
    <3>1. r \in RecType /\ r.cap = TRUE /\ Len(r.btb) <= MaxTargets
      BY TraceJitAssumption DEF Fresh, RecType
    <3> QED BY <2>2, <3>1
  <2> QED BY <2>1, <2>2 DEF StartRecording
<1> QED BY <1>1, KeepFragments, KeptFacts, TypeFacts

\* A branch, which may begin a recording or enter a trace, keeps it.
LEMMA BranchInv ==
  ASSUME JitInv, NEW q \in Target, Branch(q)
  PROVE  JitInv'
<1>1. /\ pc' = q /\ q \in Pc /\ mode = "interp" /\ ~ rec.cap
      /\ UNCHANGED <<jfunc, fragments, fragmentMap>>
  BY KeptFacts DEF Branch, Interpreting, Pc
<1>2. CASE ~ isStartOfTrace(pc, q, q \in Ret)
  <2>1. UNCHANGED <<mode, running, F_id, counters, state, rec>>
    BY <1>2 DEF Branch
  <2> QED BY <1>1, <2>1, KeepFragments, KeptFacts, TypeFacts
<1>3. CASE isStartOfTrace(pc, q, q \in Ret) /\ EnterTraceAt(q)
  <2>1. fragmentMap[q] \in Fragment
    BY <1>1, <1>3, TypeFacts DEF EnterTraceAt
  <2>2. JumpTo(fragmentMap[q], fragmentMap[q])
        /\ UNCHANGED <<counters, state, rec>>
    BY <1>3 DEF EnterTraceAt, Enter
  <2>3. fragmentMap[q] \in 0..Len(fragments)
    BY <1>1, TypeFacts
  <2> QED BY <1>1, <2>1, <2>2, <2>3, JumpInv, KeptFacts
<1>4. CASE isStartOfTrace(pc, q, q \in Ret) /\ RecordOrGoOn(q, q \in Ret)
  <2>1. counters' \in [{Hash[p] : p \in Pc} -> 1..HotThreshold]
    BY <1>1, <1>4, TickFacts DEF RecordOrGoOn
  <2>2. UNCHANGED <<mode, running, F_id>>
    BY <1>4 DEF RecordOrGoOn
  <2>3. CASE UNCHANGED <<state, rec>>
    BY <1>1, <2>1, <2>2, <2>3, KeepFragments, KeptFacts, TypeFacts
  <2>4. CASE StartRecording(BeginRecording(q, q \in Ret))
    <3> DEFINE r == BeginRecording(q, q \in Ret)
    <3> HIDE DEF r
    <3>1. /\ Fresh(r, q) /\ r.type = "root" /\ r.parent = 0
          /\ r.isReturn = (q \in Ret)
      <4>1. ASSUME NEW b \in BOOLEAN
            PROVE  LET x == BeginRecording(q, b) IN
                   /\ Fresh(x, q) /\ x.type = "root" /\ x.parent = 0
                   /\ x.isReturn = b
        BY <1>1, BeginFacts
      <4>2. CASE q \in Ret
        <5>1. (q \in Ret) = TRUE
          BY <4>2
        <5>2. r = BeginRecording(q, TRUE)
          BY <5>1 DEF r
        <5> QED BY <4>1, <5>1, <5>2
      <4>3. CASE q \notin Ret
        <5>1. (q \in Ret) = FALSE
          BY <4>3
        <5>2. r = BeginRecording(q, FALSE)
          BY <5>1 DEF r
        <5> QED BY <4>1, <5>1, <5>2
      <4> QED BY <4>2, <4>3
    <3>2. q \in Ret <=> q \notin Func
      BY <1>4, TraceJitAssumption DEF isStartOfTrace, IsFunc
    <3>3. r.isReturn <=> r.startPc \notin Func
      BY <3>1, <3>2 DEF Fresh
    <3>4. RecOK(r, fragments)
      BY <1>1, <3>1, <3>3 DEF RecOK, Fresh
    <3> QED BY <1>1, <2>1, <2>2, <2>4, <3>1, <3>4, StartInv DEF r
  <2> QED BY <1>4, <2>3, <2>4 DEF RecordOrGoOn
<1> QED BY <1>2, <1>3, <1>4 DEF Branch

\* To enter a fragment through its JFUNC keeps it.
LEMMA EnterJfuncInv ==
  ASSUME JitInv, EnterJfunc
  PROVE  JitInv'
<1>1. /\ fragmentMap[pc] \in Fragment /\ pc' = pc /\ ~ rec.cap
      /\ fragmentMap[pc] \in 0..Len(fragments)
      /\ JumpTo(fragmentMap[pc], fragmentMap[pc])
  BY TypeFacts, KeptFacts DEF EnterJfunc, Enter, Interpreting
<1> QED BY <1>1, JumpInv, KeptFacts, TypeFacts DEF EnterJfunc

-----------------------------------------------------------------------------
(***************************************************************************)
(* The recorder.                                                           *)
(***************************************************************************)

\* A snapshot the recorder takes at pc.
LEMMA NewSnap ==
  ASSUME pc \in Pc, NEW op \in {"guard", "heapchk", "save"}
  PROVE  /\ Snap(op) \in SnapType
         /\ Snap(op).pc = pc /\ Snap(op).op = op /\ Snap(op).to = 0
<1>1. HotSideExit \in 1..HotSideExit
  BY TraceJitAssumption
<1> QED BY <1>1 DEF Snap, SnapType

\* The fields of the recorder.
LEMMA RecFacts ==
  ASSUME NEW r \in RecType
  PROVE  /\ r.btb \in Seq(Pc) /\ Len(r.btb) \in Nat
         /\ r.snaps \in Seq(SnapType) /\ Len(r.snaps) \in Nat
         /\ r.parent \in Nat /\ r.exit \in Nat /\ r.isReturn \in BOOLEAN
         /\ r.type \in {"root", "fallthrough", "side"}
<1>1. r.btb \in Seq(Pc) /\ r.snaps \in Seq(SnapType)
  BY DEF RecType
<1>2. Len(r.btb) \in Nat /\ Len(r.snaps) \in Nat
  BY <1>1
<1> QED BY <1>1, <1>2 DEF RecType

\* Whatever becomes of an instruction that is recorded keeps it.
LEMMA RecordInsInv ==
  ASSUME JitInv, NEW isBranch \in BOOLEAN, NEW abort \in BOOLEAN,
         RecordIns(isBranch, abort), pc' \in Pc,
         UNCHANGED <<mode, running, F_id, jfunc, counters, fragments,
                     fragmentMap, state>>
  PROVE  JitInv'
<1>1. PICK b \in {rec.btb, Append(rec.btb, pc)}, s \in Snapped :
        /\ NoLoop(b)
        /\ rec' = [rec EXCEPT !.btb = b, !.snaps = s,
                              !.lastInsWasBranch = isBranch,
                              !.shouldAbort = abort]
  BY DEF RecordIns
<1>2. /\ mode = "interp" /\ rec.cap /\ rec \in RecType /\ pc \in Pc
      /\ RecOK(rec, fragments)
  BY KeptFacts, TypeFacts DEF RecordIns, Recording
<1>3. /\ rec.btb \in Seq(Pc) /\ Len(rec.btb) \in Nat
      /\ rec.snaps \in Seq(SnapType) /\ Len(rec.snaps) \in Nat
      /\ Len(rec.btb) > 0 /\ rec.btb[1] = rec.startPc
      /\ Len(rec.btb) <= MaxTargets
  BY <1>2, RecFacts, KeptFacts DEF RecOK
<1>4. /\ b \in Seq(Pc) /\ Len(b) > 0 /\ b[1] = rec.startPc
      /\ Len(b) <= MaxTargets
  <2>1. CASE b = rec.btb
    BY <1>3, <2>1
  <2>2. CASE b = Append(rec.btb, pc) /\ Len(rec.btb) # MaxTargets
    <3>1. /\ b \in Seq(Pc) /\ Len(b) = Len(rec.btb) + 1
          /\ b[1] = rec.btb[1]
      BY <1>2, <1>3, <2>2, AppendProperties
    <3> QED BY <1>3, <2>2, <3>1, TraceJitAssumption
  <2> QED BY <1>1, <2>1, <2>2 DEF NoLoop, BtbFull
<1>5. /\ s \in Seq(SnapType)
      /\ \A e \in 1..Len(s) : s[e].op # "save" /\ s[e].to = 0
  <2>1. \A e \in 1..Len(rec.snaps) :
          rec.snaps[e].op # "save" /\ rec.snaps[e].to = 0
    BY <1>2 DEF RecOK
  <2>2. CASE s = rec.snaps
    BY <1>3, <2>1, <2>2
  <2>3. ASSUME NEW op \in {"guard", "heapchk"}, s = Append(rec.snaps, Snap(op))
        PROVE  /\ s \in Seq(SnapType)
               /\ \A e \in 1..Len(s) : s[e].op # "save" /\ s[e].to = 0
    <3>1. Snap(op) \in SnapType /\ Snap(op).op # "save" /\ Snap(op).to = 0
      BY <1>2, NewSnap
    <3>2. /\ s \in Seq(SnapType) /\ Len(s) = Len(rec.snaps) + 1
          /\ \A e \in 1..Len(rec.snaps) : s[e] = rec.snaps[e]
          /\ s[Len(rec.snaps) + 1] = Snap(op)
      BY <1>3, <2>3, <3>1, AppendProperties
    <3> QED BY <1>3, <2>1, <3>1, <3>2
  <2>4. \/ s = rec.snaps
        \/ s = Append(rec.snaps, Snap("guard"))
        \/ s = Append(rec.snaps, Snap("heapchk"))
    BY DEF Snapped
  <2> QED BY <2>2, <2>3, <2>4
<1>6. /\ rec' \in RecType /\ rec'.cap = rec.cap
      /\ rec'.startPc = rec.startPc /\ rec'.type = rec.type
      /\ rec'.parent = rec.parent /\ rec'.exit = rec.exit
      /\ rec'.isReturn = rec.isReturn /\ rec'.btb = b /\ rec'.snaps = s
  <2>1. rec \in RecType /\ b \in Seq(Pc) /\ s \in Seq(SnapType)
    BY <1>2, <1>4, <1>5
  <2> QED BY <1>1, <2>1 DEF RecType
<1>7. RecOK(rec', fragments)
  BY <1>2, <1>4, <1>5, <1>6 DEF RecOK
<1> QED BY <1>2, <1>4, <1>6, <1>7, KeepFragments, KeptFacts, TypeFacts

\* A recorded step of any kind keeps it.
LEMMA RecordStepInv ==
  ASSUME JitInv,
         \/ \E q \in Inner : RecordExecute(q)
         \/ \E q \in Target, overflow \in BOOLEAN : RecordBranch(q, overflow)
         \/ HeapOverflow
  PROVE  JitInv'
<1>1. ASSUME NEW q \in Inner, RecordExecute(q) PROVE JitInv'
  <2>1. pc' \in Pc
    BY <1>1 DEF RecordExecute, Pc
  <2> QED BY <1>1, <2>1, RecordInsInv DEF RecordExecute
<1>2. ASSUME NEW q \in Target, NEW overflow \in BOOLEAN,
             RecordBranch(q, overflow)
      PROVE  JitInv'
  <2>1. pc' \in Pc
    BY <1>2 DEF RecordBranch, Pc
  <2> QED BY <1>2, <2>1, RecordInsInv DEF RecordBranch
<1>3. CASE HeapOverflow
  <2>1. pc' \in Pc
    BY <1>3, TypeFacts DEF HeapOverflow
  <2> QED BY <1>3, <2>1, RecordInsInv DEF HeapOverflow
<1> QED BY <1>1, <1>2, <1>3

\* To give up a recording keeps it.
LEMMA RecordAbortInv ==
  ASSUME JitInv, RecordAbort
  PROVE  JitInv'
<1>1. /\ rec' \in RecType /\ ~ rec'.cap /\ Len(rec'.btb) <= MaxTargets
      /\ state' = "INTERP" /\ pc' \in Pc /\ mode = "interp"
  BY IdleFacts, TypeFacts, TraceJitAssumption DEF RecordAbort, Recording
<1> QED BY <1>1, KeepFragments, KeptFacts, TypeFacts DEF RecordAbort

\* Writing the threshold into counters.
LEMMA ResetFacts ==
  ASSUME JitInv
  PROVE  ResetDominated \in [{Hash[p] : p \in Pc} -> 1..HotThreshold]
<1>1. counters \in [{Hash[p] : p \in Pc} -> 1..HotThreshold]
  BY KeptFacts
<1>2. HotThreshold \in 1..HotThreshold
  BY TraceJitAssumption
<1> QED BY <1>1, <1>2 DEF ResetDominated

\* The fragment that is saved, behind the existing ones.
LEMMA SavedFacts ==
  ASSUME JitInv, rec.cap, NEW tail \in {"exit", "link", "loop"},
         NEW link \in Nat,
         tail = "link" => link \in Fragment /\ fragments[link].startPc = pc,
         tail = "loop" => rec.startPc = pc,
         tail = "exit" => pc \notin IFunc
  PROVE  LET nf == NewFragment(tail, link) IN
         /\ nf \in FragmentType /\ AddedFragment(nf)
         /\ nf.startPc = rec.startPc /\ nf.type = rec.type
<1> DEFINE nf == NewFragment(tail, link)
           sns == Append(rec.snaps, Snap("save"))
           n == Len(rec.snaps)
<1>1. /\ rec \in RecType /\ pc \in Pc /\ RecOK(rec, fragments)
      /\ Fragment = 1..Len(fragments)
  BY KeptFacts, TypeFacts
<1>2. /\ Snap("save") \in SnapType
      /\ Snap("save").pc = pc /\ Snap("save").to = 0
  BY <1>1, NewSnap
<1>3. rec.snaps \in Seq(SnapType) /\ n \in Nat
  BY <1>1, RecFacts
<1>4. /\ sns \in Seq(SnapType) /\ Len(sns) = n + 1
      /\ \A e \in 1..n : sns[e] = rec.snaps[e]
      /\ sns[n + 1] = Snap("save")
  BY <1>2, <1>3, AppendProperties
<1>5. \A e \in 1..n : rec.snaps[e].op # "save" /\ rec.snaps[e].to = 0
  BY <1>1 DEF RecOK
<1> HIDE DEF sns, n
<1>6. /\ nf.startPc = rec.startPc /\ nf.type = rec.type
      /\ nf.isReturn = rec.isReturn
      /\ nf.tail = tail /\ nf.link = link /\ nf.snaps = sns
  BY DEF NewFragment, sns
<1>7. nf \in FragmentType
  <2>1. /\ rec.startPc \in Pc /\ rec.type \in {"root", "fallthrough", "side"}
        /\ rec.isReturn \in BOOLEAN
    BY <1>1, RecFacts DEF RecOK
  <2> QED BY <1>4, <2>1 DEF NewFragment, FragmentType, sns
<1> HIDE DEF nf
<1>8. AddedFragment(nf)
  <2>1. Len(nf.snaps) > 0 /\ nf.snaps[Len(nf.snaps)].pc = pc
    BY <1>2, <1>3, <1>4, <1>6
  <2>2. ASSUME NEW y \in 1..Len(nf.snaps)
        PROVE  /\ nf.snaps[y].to = 0
               /\ y < Len(nf.snaps) => nf.snaps[y].op # "save"
    <3>1. CASE y \in 1..n
      BY <1>4, <1>5, <1>6, <3>1
    <3>2. CASE y = n + 1
      BY <1>2, <1>3, <1>4, <1>6, <3>2
    <3> QED BY <1>3, <1>4, <1>6, <3>1, <3>2
  <2> QED BY <1>1, <1>6, <2>1, <2>2 DEF AddedFragment
<1> QED BY <1>6, <1>7, <1>8 DEF nf

\* finishRecording keeps the invariant and the links of all exits.
LEMMA FinishInv ==
  ASSUME JitInv, Recording, NEW tail \in {"exit", "link", "loop"},
         NEW link \in Nat,
         tail = "link" => link \in Fragment /\ fragments[link].startPc = pc,
         tail = "loop" => rec.startPc = pc,
         tail = "exit" => pc \notin IFunc,
         Finish(tail, link)
  PROVE  JitInv' /\ LinksStay
<1> DEFINE g == Len(fragments) + 1
           nf == NewFragment(tail, link)
           saved == Append(fragments, nf)
<1>1. /\ mode = "interp" /\ rec.cap /\ rec \in RecType /\ pc \in Pc
      /\ RecOK(rec, fragments)
      /\ fragments \in Seq(FragmentType) /\ Len(fragments) \in Nat
      /\ Fragment = 1..Len(fragments)
  BY KeptFacts, TypeFacts DEF Recording
<1>2. /\ nf \in FragmentType /\ AddedFragment(nf)
      /\ nf.startPc = rec.startPc /\ nf.type = rec.type
  BY <1>1, SavedFacts
<1> HIDE DEF nf
<1>3. /\ saved \in Seq(FragmentType) /\ Len(saved) = g
      /\ \A x \in 1..Len(fragments) : saved[x] = fragments[x]
      /\ saved[g] = nf
  BY <1>1, <1>2, AppendProperties
<1>4. /\ fragments' = IF rec.parent = 0 THEN saved
                      ELSE PatchGuard(saved, rec.parent, rec.exit, g, FALSE)
      /\ fragmentMap' = IF rec.type = "side" THEN fragmentMap
                        ELSE [fragmentMap EXCEPT ![rec.startPc] = g]
      /\ jfunc' = IF WritesJfunc THEN [jfunc EXCEPT ![rec.startPc] = g]
                  ELSE jfunc
      /\ counters' = ResetDominated /\ rec' = Idle /\ state' = "INTERP"
      /\ UNCHANGED <<mode, pc, running, F_id>>
  BY DEF Finish, nf
<1> HIDE DEF saved
<1>5. /\ fragments' \in Seq(FragmentType) /\ Len(fragments') = g
      /\ fragments'[g] = nf
      /\ \A x \in 1..Len(fragments) : KeptFragment(x)
      /\ \A x \in 1..Len(fragments) : \A y \in 1..Len(fragments[x].snaps) :
           /\ KeptSnap(fragments[x].snaps[y], fragments'[x].snaps[y])
           /\ fragments[x].snaps[y].to # 0 =>
                fragments'[x].snaps[y] = fragments[x].snaps[y]
  <2>1. CASE rec.parent = 0
    BY <1>1, <1>3, <1>4, <2>1 DEF KeptFragment, KeptSnap
  <2>2. CASE rec.parent # 0
    <3> DEFINE p == rec.parent
               e == rec.exit
               sn == fragments[p].snaps[e]
               new == [sn EXCEPT !.to = g, !.setsId = FALSE]
    <3>1. /\ p \in 1..Len(fragments) /\ e \in 1..Len(fragments[p].snaps)
          /\ sn.pc = rec.startPc /\ sn.to = 0 /\ rec.type # "root"
      BY <1>1, <2>2 DEF RecOK
    <3>2. saved[p] = fragments[p] /\ p \in 1..Len(saved)
      BY <1>1, <1>3, <3>1
    <3>3. sn \in SnapType /\ g \in Nat
      BY <1>1, <3>1, FragmentFacts
    <3>4. fragments' = SetSnap(saved, p, e, new)
      BY <1>4, <2>2, <3>2 DEF PatchGuard, SetSnap
    <3> HIDE DEF p, e, sn
    <3>5. new \in SnapType /\ new.pc = sn.pc /\ new.op = sn.op /\ new.to = g
      <4>1. FALSE \in BOOLEAN
        OBVIOUS
      <4> HIDE DEF g
      <4> QED BY <3>3, <4>1 DEF SnapType
    <3> HIDE DEF new
    <3>11. e \in 1..Len(saved[p].snaps)
      BY <3>1, <3>2
    <3>6. /\ fragments' \in Seq(FragmentType)
          /\ Len(fragments') = Len(saved)
          /\ \A x \in 1..Len(saved) :
              /\ fragments'[x].startPc = saved[x].startPc
              /\ fragments'[x].type = saved[x].type
              /\ fragments'[x].tail = saved[x].tail
              /\ fragments'[x].link = saved[x].link
              /\ Len(fragments'[x].snaps) = Len(saved[x].snaps)
              /\ \A y \in 1..Len(saved[x].snaps) :
                   fragments'[x].snaps[y] = IF x = p /\ y = e THEN new
                                            ELSE saved[x].snaps[y]
      <4>1. SnapSet(fragments', saved, p, e, new)
        BY <1>3, <3>2, <3>4, <3>5, <3>11, SnapUpdate
      <4> QED BY <4>1 DEF SnapSet
    <3>7. fragments'[g] = nf
      <4>1. fragments' = [saved EXCEPT ![p] = [saved[p] EXCEPT !.snaps =
                            [saved[p].snaps EXCEPT ![e] = new]]]
        BY <3>4 DEF SetSnap
      <4>2. g \in 1..Len(saved) /\ g # p
        BY <1>1, <1>3, <3>1
      <4>3. g \in DOMAIN saved
        BY <1>3, <4>2
      <4> QED BY <1>3, <4>1, <4>2, <4>3
    <3>8. \A x \in 1..Len(fragments) : KeptFragment(x)
      BY <1>1, <1>3, <3>6 DEF KeptFragment
    <3>9. g \in 1..Len(fragments') /\ fragments'[g].startPc = rec.startPc
          /\ fragments'[g].type # "root"
      BY <1>1, <1>2, <1>3, <3>1, <3>6, <3>7
    <3>10. ASSUME NEW x \in 1..Len(fragments),
                  NEW y \in 1..Len(fragments[x].snaps)
           PROVE  /\ KeptSnap(fragments[x].snaps[y], fragments'[x].snaps[y])
                  /\ fragments[x].snaps[y].to # 0 =>
                       fragments'[x].snaps[y] = fragments[x].snaps[y]
      <4>1. /\ saved[x] = fragments[x] /\ x \in 1..Len(saved)
        BY <1>1, <1>3
      <4>2. fragments'[x].snaps[y] = IF x = p /\ y = e THEN new
                                     ELSE fragments[x].snaps[y]
        BY <3>6, <4>1
      <4>3. CASE x = p /\ y = e
        BY <3>1, <3>5, <3>9, <4>2, <4>3 DEF KeptSnap, sn
      <4>4. CASE ~ (x = p /\ y = e)
        BY <4>2, <4>4 DEF KeptSnap
      <4> QED BY <4>3, <4>4
    <3> QED BY <1>3, <3>6, <3>7, <3>8, <3>10
  <2> QED BY <2>1, <2>2
<1>6. LinksStay
  <2>1. \A f \in Fragment : Exits(f) = 1..Len(fragments[f].snaps)
    BY <1>1, FragmentFacts DEF Exits
  <2> QED BY <1>1, <1>5, <2>1 DEF LinksStay
<1>7. ExitsInv' /\ LinksAtPc'
  <2>1. \A x \in (Len(fragments) + 1)..Len(fragments') :
          AddedFragment(fragments'[x])
    BY <1>1, <1>2, <1>5
  <2>2. Len(fragments) <= Len(fragments')
    BY <1>1, <1>5
  <2> QED BY <1>5, <2>1, <2>2, LinksKept
<1>8. /\ rec' \in RecType /\ ~ rec'.cap /\ Len(rec'.btb) <= MaxTargets
  BY <1>4, IdleFacts, TraceJitAssumption
<1>9. RecInv' /\ TraceIdExact' /\ OneRecording'
  BY <1>1, <1>4, <1>8, KeptFacts DEF RecInv, TraceIdExact, OneRecording
<1>10. rec.startPc \in Pc /\ g \in 1..Len(fragments')
  BY <1>1, <1>5 DEF RecOK
<1>11. /\ jfunc' \in [Pc -> 0..Len(fragments')]
       /\ fragmentMap' \in [Pc -> 0..Len(fragments')]
  <2>1. /\ jfunc \in [Pc -> 0..Len(fragments')]
        /\ fragmentMap \in [Pc -> 0..Len(fragments')]
        /\ g \in 0..Len(fragments')
    <3>1. \A x \in 0..Len(fragments) : x \in 0..Len(fragments')
      BY <1>1, <1>5
    <3> QED BY <3>1, <1>10, TypeFacts
  <2> QED BY <2>1, <1>4, <1>10
<1>12. TypeInv'
  <2>1. /\ \A h \in DOMAIN counters' : counters'[h] \in 1..HotThreshold
        /\ counters' \in [{Hash[p] : p \in Pc} -> 1..HotThreshold]
    BY <1>4, ResetFacts
  <2>2. \A f \in Fragment' : \A e \in Exits(f)' :
          fragments'[f].snaps[e].exitCounter \in 1..HotSideExit
    <3> SUFFICES ASSUME NEW f \in 1..Len(fragments'),
                        NEW e \in DOMAIN fragments'[f].snaps
                 PROVE  fragments'[f].snaps[e].exitCounter \in 1..HotSideExit
      BY DEF Fragment, Exits
    <3>1. fragments'[f].snaps[e] \in SnapType
      BY <1>5, FragmentFacts
    <3> QED BY <3>1, SnapFacts
  <2>3. running' \in 0..Len(fragments') /\ F_id' \in 0..Len(fragments')
    <3>1. \A x \in 0..Len(fragments) : x \in 0..Len(fragments')
      BY <1>1, <1>5
    <3> QED BY <1>4, <3>1, TypeFacts
  <2> QED BY <1>1, <1>4, <1>5, <1>8, <1>11, <2>1, <2>2, <2>3, KeptFacts
          DEF TypeInv, TypeOK
<1>13. JfuncExact'
  <2> SUFFICES ASSUME NEW p \in Pc
               PROVE  /\ fragmentMap'[p] # 0 =>
                           fragments'[fragmentMap'[p]].startPc = p
                      /\ jfunc'[p] # 0 =>
                           p \in Func /\ jfunc'[p] = fragmentMap'[p]
                      /\ p \in Func /\ fragmentMap'[p] # 0 => jfunc'[p] # 0
    BY DEF JfuncExact
  <2>1. /\ fragmentMap[p] # 0 => fragments[fragmentMap[p]].startPc = p
        /\ jfunc[p] # 0 => p \in Func /\ jfunc[p] = fragmentMap[p]
        /\ p \in Func /\ fragmentMap[p] # 0 => jfunc[p] # 0
    BY DEF JitInv, JfuncExact
  <2>2. fragmentMap[p] # 0 =>
          fragments'[fragmentMap[p]].startPc = fragments[fragmentMap[p]].startPc
    BY <1>1, <1>5, TypeFacts DEF KeptFragment
  <2>3. rec.type # "side" => (rec.isReturn <=> rec.startPc \notin Func)
    BY <1>1 DEF RecOK
  <2>4. g # 0 /\ fragments'[g].startPc = rec.startPc
    BY <1>1, <1>2, <1>5
  <2>5. CASE p # rec.startPc \/ rec.type = "side"
    <3>1. fragmentMap'[p] = fragmentMap[p] /\ jfunc'[p] = jfunc[p]
      BY <1>4, <1>10, <2>5, TypeFacts DEF WritesJfunc
    <3> QED BY <2>1, <2>2, <3>1
  <2>6. CASE p = rec.startPc /\ rec.type # "side"
    <3>1. fragmentMap'[p] = g
      BY <1>4, <2>6, TypeFacts
    <3>2. CASE rec.isReturn
      <4>1. jfunc'[p] = jfunc[p] /\ p \notin Func
        BY <1>4, <2>3, <2>6, <3>2 DEF WritesJfunc
      <4> QED BY <2>1, <2>4, <2>6, <3>1, <4>1
    <3>3. CASE ~ rec.isReturn
      <4>1. jfunc'[p] = g /\ p \in Func
        BY <1>4, <2>3, <2>6, <3>3, TypeFacts DEF WritesJfunc
      <4> QED BY <2>4, <2>6, <3>1, <4>1
    <3> QED BY <3>2, <3>3
  <2> QED BY <2>5, <2>6
<1> QED BY <1>6, <1>7, <1>9, <1>12, <1>13 DEF JitInv

\* The three ways a recording ends in a fragment.
LEMMA RecordEndInv ==
  ASSUME JitInv, RecordLoop \/ RecordInner \/ RecordLink
  PROVE  JitInv' /\ LinksStay
<1>1. Len(fragments) \in Nat /\ 0 \in Nat /\ pc \in Pc
  BY TypeFacts
<1>2. CASE RecordLoop
  <2>1. Recording /\ Finish("loop", 0) /\ rec.btb[1] = pc
    BY <1>2 DEF RecordLoop, LoopEntries
  <2>2. rec.startPc = pc
    BY <2>1, KeptFacts DEF Recording, RecOK
  <2> QED BY <1>1, <2>1, <2>2, FinishInv
<1>3. CASE RecordInner
  BY <1>1, <1>3, FinishInv DEF RecordInner
<1>4. CASE RecordLink
  <2>1. Recording /\ jfunc[pc] # 0 /\ Finish("link", fragmentMap[pc])
    BY <1>4 DEF RecordLink
  <2>2. /\ fragmentMap[pc] \in Fragment /\ fragmentMap[pc] \in Nat
        /\ fragments[fragmentMap[pc]].startPc = pc
    BY <1>1, <2>1, TypeFacts
  <2> QED BY <2>1, <2>2, FinishInv
<1> QED BY <1>2, <1>3, <1>4

-----------------------------------------------------------------------------
(***************************************************************************)
(* Fragments at work.                                                      *)
(***************************************************************************)

\* What restoreSnapshot does to the fragments: a snapshot that was not
\* linked is overwritten by new.
LEMMA RestoreLinks ==
  ASSUME JitInv, NEW f \in Fragment, NEW e \in 1..Len(fragments[f].snaps),
         fragments[f].snaps[e].to = 0,
         NEW new \in SnapType, KeptSnap(fragments[f].snaps[e], new),
         fragments' = SetSnap(fragments, f, e, new)
  PROVE  /\ fragments' \in Seq(FragmentType)
         /\ Len(fragments') = Len(fragments)
         /\ ExitsInv' /\ LinksAtPc' /\ LinksStay
         /\ \A x \in Fragment : fragments'[x].startPc = fragments[x].startPc
         /\ Len(fragments'[f].snaps) = Len(fragments[f].snaps)
         /\ fragments'[f].snaps[e] = new
<1>1. /\ fragments \in Seq(FragmentType) /\ Len(fragments) \in Nat
      /\ Fragment = 1..Len(fragments)
  BY TypeFacts
<1>2. /\ fragments' \in Seq(FragmentType)
      /\ Len(fragments') = Len(fragments)
      /\ \A x \in 1..Len(fragments) :
          /\ fragments'[x].startPc = fragments[x].startPc
          /\ fragments'[x].type = fragments[x].type
          /\ fragments'[x].tail = fragments[x].tail
          /\ fragments'[x].link = fragments[x].link
          /\ Len(fragments'[x].snaps) = Len(fragments[x].snaps)
          /\ \A y \in 1..Len(fragments[x].snaps) :
               fragments'[x].snaps[y] = IF x = f /\ y = e THEN new
                                        ELSE fragments[x].snaps[y]
  <2>1. f \in 1..Len(fragments)
    BY <1>1
  <2>2. SnapSet(fragments', fragments, f, e, new)
    BY <1>1, <2>1, SnapUpdate
  <2> QED BY <2>2 DEF SnapSet
<1>3. \A x \in 1..Len(fragments) : KeptFragment(x)
  BY <1>2 DEF KeptFragment
<1>4. ASSUME NEW x \in 1..Len(fragments),
             NEW y \in 1..Len(fragments[x].snaps)
      PROVE  /\ KeptSnap(fragments[x].snaps[y], fragments'[x].snaps[y])
             /\ fragments[x].snaps[y].to # 0 =>
                  fragments'[x].snaps[y] = fragments[x].snaps[y]
  <2>1. CASE x = f /\ y = e
    BY <1>2, <2>1
  <2>2. CASE ~ (x = f /\ y = e)
    <3>1. fragments'[x].snaps[y] = fragments[x].snaps[y]
      BY <1>2, <2>2
    <3> QED BY <3>1 DEF KeptSnap
  <2> QED BY <2>1, <2>2
<1>5. ExitsInv' /\ LinksAtPc'
  <2>1. \A x \in (Len(fragments) + 1)..Len(fragments') :
          AddedFragment(fragments'[x])
    BY <1>1, <1>2
  <2>2. Len(fragments) <= Len(fragments')
    BY <1>1, <1>2
  <2> QED BY <1>2, <1>3, <1>4, <2>1, <2>2, LinksKept
<1>6. LinksStay
  <2>1. \A x \in Fragment : Exits(x) = 1..Len(fragments[x].snaps)
    BY <1>1, FragmentFacts DEF Exits
  <2> QED BY <1>1, <1>4, <2>1 DEF LinksStay
<1> QED BY <1>1, <1>2, <1>5, <1>6

\* To leave a trace by an exit, which may begin a side trace, keeps it, and
\* removes no link.
LEMMA RestoreInv ==
  ASSUME JitInv, mode = "trace", NEW f \in Fragment,
         NEW e \in 1..Len(fragments[f].snaps),
         fragments[f].snaps[e].to = 0,
         Restore(f, e)
  PROVE  JitInv' /\ LinksStay
<1> DEFINE sn == fragments[f].snaps[e]
           hot == sn.op # "heapchk" /\ sn.exitCounter = 1
           falls == sn.op = "save" /\ fragments[f].tail = "exit"
           c == IF hot THEN HotSideExit
                ELSE IF sn.op = "heapchk" THEN sn.exitCounter
                ELSE sn.exitCounter - 1
           new == [sn EXCEPT !.exitCounter = c]
           counted == SetSnap(fragments, f, e, new)
           rs == IF falls
                 THEN Fallthrough(sn.pc, sn.pc \notin Func \cup IFunc, f, e)
                 ELSE BeginSideTrace(sn.pc, f, e)
<1>1. /\ fragments \in Seq(FragmentType) /\ Len(fragments) \in Nat
      /\ Fragment = 1..Len(fragments) /\ rec \in RecType
      /\ state \in {"INTERP", "RECORD"}
  BY TypeFacts
<1>2. ~ rec.cap /\ state = "INTERP"
  BY <1>1, KeptFacts
<1>3. /\ sn \in SnapType /\ sn.pc \in Pc
      /\ sn.exitCounter \in 1..HotSideExit
  <2>1. sn \in SnapType
    BY <1>1, FragmentFacts
  <2> HIDE DEF sn
  <2> QED BY <2>1, SnapFacts
<1>4. [fragments EXCEPT ![f].snaps[e].exitCounter =
         IF hot THEN HotSideExit
         ELSE IF sn.op = "heapchk" THEN @ ELSE @ - 1] = counted
  BY DEF SetSnap
<1>5. /\ mode' = "interp" /\ pc' = sn.pc /\ running' = 0 /\ F_id' = 0
      /\ UNCHANGED <<jfunc, counters, fragmentMap>>
      /\ \/ /\ jfunc[sn.pc] # 0
            /\ fragments' = PatchGuard(counted, f, e, fragmentMap[sn.pc], TRUE)
            /\ UNCHANGED <<state, rec>>
         \/ /\ fragments' = counted
            /\ StartRecording(rs) \/ UNCHANGED <<state, rec>>
  BY <1>4 DEF Restore
<1>6. e = Len(fragments[f].snaps) \/ ~ falls
  <2>1. DOMAIN fragments[f].snaps = 1..Len(fragments[f].snaps)
    BY <1>1, FragmentFacts
  <2>2. e < Len(fragments[f].snaps) => sn.op # "save"
    BY <2>1 DEF JitInv, ExitsInv, Exits
  <2> QED BY <1>1, <2>2, FragmentFacts
<1>7. falls => sn.pc \notin IFunc
  BY <1>6 DEF JitInv, ExitsInv
<1> HIDE DEF sn, falls
<1>8. c \in 1..HotSideExit
  BY <1>3, TraceJitAssumption
<1> HIDE DEF c
<1>9. /\ new \in SnapType /\ new.pc = sn.pc /\ new.op = sn.op
      /\ new.to = sn.to /\ new.setsId = sn.setsId
  BY <1>3, <1>8 DEF SnapType
<1> HIDE DEF new
<1>10. ASSUME fragments' \in Seq(FragmentType),
              Len(fragments') = Len(fragments), ExitsInv', LinksAtPc',
              \A x \in Fragment : fragments'[x].startPc = fragments[x].startPc,
              rec' \in RecType, Len(rec'.btb) <= MaxTargets,
              rec'.cap => RecOK(rec', fragments'),
              rec'.cap <=> state' = "RECORD", state' \in {"INTERP", "RECORD"}
       PROVE  JitInv'
  <2>1. JfuncExact'
    <3>1. fragmentMap \in [Pc -> 0..Len(fragments)]
      BY TypeFacts
    <3>2. \A p \in Pc : fragmentMap[p] # 0 => fragmentMap[p] \in Fragment
      BY <1>1, <3>1
    <3> QED BY <1>5, <1>10, <3>2 DEF JitInv, JfuncExact
  <2>2. TypeInv'
    <3>1. counters' \in [{Hash[p] : p \in Pc} -> 1..HotThreshold]
      BY <1>5, KeptFacts
    <3>2. \A x \in Fragment' : \A y \in Exits(x)' :
            fragments'[x].snaps[y].exitCounter \in 1..HotSideExit
      <4> SUFFICES ASSUME NEW x \in 1..Len(fragments'),
                          NEW y \in DOMAIN fragments'[x].snaps
                   PROVE  fragments'[x].snaps[y].exitCounter \in 1..HotSideExit
        BY DEF Fragment, Exits
      <4>1. fragments'[x].snaps[y] \in SnapType
        BY <1>10, FragmentFacts
      <4> QED BY <4>1, SnapFacts
    <3>3. /\ jfunc' \in [Pc -> 0..Len(fragments')]
          /\ fragmentMap' \in [Pc -> 0..Len(fragments')]
      BY <1>5, <1>10, TypeFacts
    <3>4. 0 \in 0..Len(fragments') /\ pc' \in Pc
      BY <1>1, <1>3, <1>5, <1>10
    <3> QED BY <1>5, <1>10, <3>1, <3>2, <3>3, <3>4 DEF TypeInv, TypeOK
  <2>3. RecInv' /\ TraceIdExact' /\ OneRecording'
    BY <1>5, <1>10 DEF RecInv, TraceIdExact, OneRecording
  <2> QED BY <1>10, <2>1, <2>2, <2>3 DEF JitInv
<1>11. CASE /\ jfunc[sn.pc] # 0
            /\ fragments' = PatchGuard(counted, f, e, fragmentMap[sn.pc], TRUE)
            /\ UNCHANGED <<state, rec>>
  <2> DEFINE g == fragmentMap[sn.pc]
             linked == [new EXCEPT !.to = g, !.setsId = TRUE]
  <2>1. /\ g \in Fragment /\ g \in 1..Len(fragments) /\ g \in Nat
        /\ fragments[g].startPc = sn.pc
    BY <1>1, <1>3, <1>11, TypeFacts
  <2> HIDE DEF g
  <2>2. /\ linked \in SnapType /\ linked.pc = sn.pc /\ linked.op = sn.op
        /\ linked.to = g /\ linked.setsId = TRUE
    BY <1>9, <2>1 DEF SnapType
  <2>3. fragments' = SetSnap(fragments, f, e, linked)
    <3>1. f \in DOMAIN fragments /\ e \in DOMAIN fragments[f].snaps
      BY <1>1, FragmentFacts
    <3>2. "snaps" \in DOMAIN fragments[f]
      <4>1. fragments[f] \in FragmentType
        BY <1>1
      <4> QED BY <4>1 DEF FragmentType
    <3>3. fragments' = [counted EXCEPT ![f].snaps[e] =
                          [counted[f].snaps[e] EXCEPT !.to = g, !.setsId = TRUE]]
      BY <1>11 DEF PatchGuard, g
    <3>4. counted[f].snaps = [fragments[f].snaps EXCEPT ![e] = new]
      BY <3>1, <3>2 DEF SetSnap
    <3>5. counted[f].snaps[e] = new
      BY <3>1, <3>4
    <3>6. fragments' = SetSnap(counted, f, e, linked)
      BY <3>3, <3>5 DEF SetSnap
    <3> QED BY <3>6 DEF SetSnap
  <2> HIDE DEF linked
  <2>4. fragments'[g].startPc = fragments[g].startPc
        /\ Len(fragments') = Len(fragments)
    <3>1. SnapSet(fragments', fragments, f, e, linked)
      BY <1>1, <2>1, <2>2, <2>3, SnapUpdate
    <3> QED BY <1>1, <2>1, <3>1 DEF SnapSet
  <2>5. KeptSnap(sn, linked)
    BY <2>1, <2>2, <2>4 DEF KeptSnap
  <2>6. /\ fragments' \in Seq(FragmentType)
        /\ Len(fragments') = Len(fragments)
        /\ ExitsInv' /\ LinksAtPc' /\ LinksStay
        /\ \A x \in Fragment : fragments'[x].startPc = fragments[x].startPc
    BY <2>2, <2>3, <2>5, RestoreLinks DEF sn
  <2>7. /\ rec' \in RecType /\ Len(rec'.btb) <= MaxTargets /\ ~ rec'.cap
        /\ state' = "INTERP"
    BY <1>1, <1>2, <1>11, KeptFacts
  <2> QED BY <1>10, <2>6, <2>7
<1>12. CASE /\ fragments' = counted
            /\ StartRecording(rs) \/ UNCHANGED <<state, rec>>
  <2>1. KeptSnap(sn, new)
    BY <1>9 DEF KeptSnap
  <2>2. /\ fragments' \in Seq(FragmentType)
        /\ Len(fragments') = Len(fragments)
        /\ ExitsInv' /\ LinksAtPc' /\ LinksStay
        /\ \A x \in Fragment : fragments'[x].startPc = fragments[x].startPc
        /\ Len(fragments'[f].snaps) = Len(fragments[f].snaps)
        /\ fragments'[f].snaps[e] = new
    BY <1>9, <1>12, <2>1, RestoreLinks DEF sn
  <2>3. CASE UNCHANGED <<state, rec>>
    <3>1. /\ rec' \in RecType /\ Len(rec'.btb) <= MaxTargets /\ ~ rec'.cap
          /\ state' = "INTERP"
      BY <1>1, <1>2, <2>3, KeptFacts
    <3> QED BY <1>10, <2>2, <3>1
  <2>4. CASE rec' = rs /\ state' = "RECORD"
    <3>1. f \in Nat /\ e \in Nat /\ f # 0 /\ f \in 1..Len(fragments')
          /\ e \in 1..Len(fragments'[f].snaps)
      BY <1>1, <2>2, FragmentFacts
    <3>2. fragments'[f].snaps[e].pc = sn.pc /\ fragments'[f].snaps[e].to = 0
      BY <1>9, <2>2 DEF sn
    <3>3. /\ Fresh(rs, sn.pc) /\ rs.parent = f /\ rs.exit = e
          /\ rs.type # "root"
          /\ rs.type # "side" => (rs.isReturn <=> rs.startPc \notin Func)
      <4> HIDE DEF rs
      <4>1. CASE ~ falls
        <5>1. rs = BeginSideTrace(sn.pc, f, e)
          BY <4>1 DEF rs
        <5> QED BY <1>3, <3>1, <5>1, SideTraceFacts
      <4>2. CASE falls
        <5>1. ASSUME NEW b \in BOOLEAN, b <=> sn.pc \notin Func,
                     rs = Fallthrough(sn.pc, b, f, e)
              PROVE  /\ Fresh(rs, sn.pc) /\ rs.parent = f /\ rs.exit = e
                     /\ rs.type = "fallthrough"
                     /\ rs.isReturn <=> rs.startPc \notin Func
          <6>1. /\ Fresh(rs, sn.pc) /\ rs.parent = f /\ rs.exit = e
                /\ rs.type = "fallthrough" /\ rs.isReturn = b
            BY <1>3, <3>1, <5>1, FallthroughFacts
          <6>2. rs.startPc = sn.pc
            BY <6>1 DEF Fresh
          <6> QED BY <5>1, <6>1, <6>2
        <5>2. CASE sn.pc \notin Func
          <6>1. (sn.pc \notin Func \cup IFunc) = TRUE
            BY <1>7, <4>2, <5>2
          <6>2. rs = Fallthrough(sn.pc, TRUE, f, e)
            BY <4>2, <6>1 DEF rs
          <6> QED BY <5>1, <5>2, <6>2
        <5>3. CASE sn.pc \in Func
          <6>1. (sn.pc \notin Func \cup IFunc) = FALSE
            BY <5>3
          <6>2. rs = Fallthrough(sn.pc, FALSE, f, e)
            BY <4>2, <6>1 DEF rs
          <6> QED BY <5>1, <5>3, <6>2
        <5> QED BY <5>2, <5>3
      <4> QED BY <4>1, <4>2
    <3> HIDE DEF rs
    <3>4. rs \in RecType /\ rs.cap = TRUE /\ Len(rs.btb) <= MaxTargets
      BY <3>3, TraceJitAssumption DEF Fresh, RecType
    <3>5. RecOK(rs, fragments')
      BY <1>3, <3>1, <3>2, <3>3 DEF RecOK, Fresh
    <3> QED BY <1>10, <2>2, <2>4, <3>4, <3>5
  <2> QED BY <1>12, <2>3, <2>4 DEF StartRecording
<1> QED BY <1>5, <1>11, <1>12

\* A step that leaves the fragments alone keeps the links.
LEMMA SameLinks == UNCHANGED fragments => LinksStay
BY DEF LinksStay

\* Leaving the running fragment at an exit.
LEMMA LeaveInv ==
  ASSUME JitInv, mode = "trace",
         NEW e \in 1..Len(fragments[running].snaps), Leave(e)
  PROVE  JitInv' /\ LinksStay
<1> DEFINE sn == fragments[running].snaps[e]
<1>1. /\ fragments \in Seq(FragmentType) /\ Len(fragments) \in Nat
      /\ Fragment = 1..Len(fragments) /\ pc \in Pc
      /\ F_id = running /\ running \in Fragment /\ ~ rec.cap
      /\ F_id \in 0..Len(fragments)
  BY TypeFacts, KeptFacts
<1>2. CASE sn.to = 0
  <2>1. Restore(running, e)
    BY <1>1, <1>2 DEF Leave
  <2> QED BY <1>1, <1>2, <2>1, RestoreInv
<1>3. CASE sn.to # 0
  <2>1. /\ JumpTo(sn.to, IF sn.setsId THEN sn.to ELSE F_id)
        /\ UNCHANGED <<pc, jfunc, counters, fragments, fragmentMap, state,
                       rec>>
    BY <1>3 DEF Leave
  <2>2. e \in Exits(running)
    BY <1>1, FragmentFacts DEF Exits
  <2>3. /\ sn.to \in 0..Len(fragments)
        /\ sn.setsId \/ SetsTraceId(fragments[sn.to])
    BY <1>1, <1>3, <2>2 DEF JitInv, ExitsInv
  <2>4. sn.to \in Fragment
    BY <1>1, <1>3, <2>3
  <2> HIDE DEF sn
  <2>5. JitInv'
    <3>1. CASE sn.setsId
      BY <1>1, <2>1, <2>3, <2>4, <3>1, JumpInv, KeptFacts
    <3>2. CASE ~ sn.setsId
      BY <1>1, <2>1, <2>3, <2>4, <3>2, JumpInv, KeptFacts
    <3> QED BY <3>1, <3>2
  <2> QED BY <2>1, <2>5, SameLinks
<1> QED BY <1>2, <1>3

\* So does a guard that fails,
LEMMA GuardFailsInv ==
  ASSUME JitInv, NEW e \in 1..MaxSnaps, GuardFails(e)
  PROVE  JitInv' /\ LinksStay
<1>1. running \in 1..Len(fragments) /\ fragments \in Seq(FragmentType)
  BY TypeFacts, KeptFacts DEF GuardFails
<1>2. Len(fragments[running].snaps) \in Nat
  BY <1>1, FragmentFacts
<1>3. e \in 1..Len(fragments[running].snaps)
  BY <1>2, TraceJitAssumption DEF GuardFails
<1> QED BY <1>3, LeaveInv DEF GuardFails

\* and so does the end of a fragment.
LEMMA FragmentEndInv ==
  ASSUME JitInv, FragmentEnd
  PROVE  JitInv' /\ LinksStay
<1> DEFINE f == fragments[running]
<1>1. /\ mode = "trace" /\ running \in 1..Len(fragments)
      /\ running \in Fragment /\ pc \in Pc /\ ~ rec.cap
      /\ fragments \in Seq(FragmentType)
  BY TypeFacts, KeptFacts DEF FragmentEnd
<1>2. f \in FragmentType /\ Len(f.snaps) \in Nat
  BY <1>1, FragmentFacts
<1>3. f.tail \in {"exit", "link", "loop"}
  BY <1>2 DEF FragmentType
<1>4. CASE f.tail = "exit"
  <2>1. Leave(Len(f.snaps))
    BY <1>4 DEF FragmentEnd
  <2>2. Len(f.snaps) \in 1..Len(f.snaps)
    BY <1>1, <1>2 DEF JitInv, ExitsInv
  <2> QED BY <1>1, <2>1, <2>2, LeaveInv
<1>5. CASE f.tail = "link"
  <2>1. /\ JumpTo(f.link, f.link)
        /\ UNCHANGED <<pc, jfunc, counters, fragments, fragmentMap,
                       state, rec>>
    BY <1>5 DEF FragmentEnd
  <2>2. f.link \in Fragment /\ f.link \in 0..Len(fragments)
    BY <1>1, <1>5 DEF JitInv, ExitsInv, Fragment
  <2> HIDE DEF f
  <2> QED BY <1>1, <2>1, <2>2, JumpInv, KeptFacts, SameLinks
<1>6. CASE f.tail = "loop"
  <2>1. UNCHANGED vars
    BY <1>6 DEF FragmentEnd
  <2>2. JitInv'
    BY <2>1, KeepFragments, KeptFacts, TypeFacts DEF vars
  <2> QED BY <2>1, <2>2, SameLinks DEF vars
<1> QED BY <1>3, <1>4, <1>5, <1>6

\* Every step keeps the invariant, and the links of all exits.
LEMMA NextInv == JitInv /\ [Next]_vars => JitInv' /\ LinksStay
<1> SUFFICES ASSUME JitInv, [Next]_vars
             PROVE  JitInv' /\ LinksStay
  OBVIOUS
<1>1. ASSUME NEW q \in Inner, Execute(q) PROVE JitInv' /\ LinksStay
  BY <1>1, ExecuteInv, SameLinks DEF Execute
<1>2. ASSUME NEW q \in Target, Branch(q) PROVE JitInv' /\ LinksStay
  BY <1>2, BranchInv, SameLinks DEF Branch
<1>3. CASE EnterJfunc
  BY <1>3, EnterJfuncInv, SameLinks DEF EnterJfunc
<1>4. ASSUME NEW q \in Inner, RecordExecute(q) PROVE JitInv' /\ LinksStay
  BY <1>4, RecordStepInv, SameLinks DEF RecordExecute
<1>5. ASSUME NEW q \in Target, NEW overflow \in BOOLEAN,
             RecordBranch(q, overflow)
      PROVE  JitInv' /\ LinksStay
  BY <1>5, RecordStepInv, SameLinks DEF RecordBranch
<1>6. CASE HeapOverflow
  BY <1>6, RecordStepInv, SameLinks DEF HeapOverflow
<1>7. CASE RecordAbort
  BY <1>7, RecordAbortInv, SameLinks DEF RecordAbort
<1>8. CASE RecordLoop \/ RecordInner \/ RecordLink
  BY <1>8, RecordEndInv
<1>9. ASSUME NEW e \in 1..MaxSnaps, GuardFails(e) PROVE JitInv' /\ LinksStay
  BY <1>9, GuardFailsInv
<1>10. CASE FragmentEnd
  BY <1>10, FragmentEndInv
<1>11. CASE UNCHANGED vars
  <2>1. JitInv'
    BY <1>11, KeepFragments, KeptFacts, TypeFacts DEF vars
  <2> QED BY <1>11, <2>1, SameLinks DEF vars
<1> QED BY <1>1, <1>2, <1>3, <1>4, <1>5, <1>6, <1>7, <1>8, <1>9, <1>10, <1>11
        DEF Next

-----------------------------------------------------------------------------
(***************************************************************************)
(* Theorems.                                                               *)
(***************************************************************************)

\* The inductive invariant of the interpreter, the recorder and the compiled
\* fragments holds in every reachable state.
THEOREM JitInvariance == Spec => []JitInv
<1>1. JitInv /\ [Next]_vars => JitInv'
  BY NextInv
<1> QED BY <1>1, InitInv, PTL DEF Spec

\* However a fragment was reached (JFUNC, a return, a patched guard, the
\* bridge of a fall-through, a link), the trace id in asmEnter's frame names
\* it, so an exit is decoded with the snapshots of the fragment it left.
THEOREM TraceIds == Spec => []TraceIdExact
<1>1. JitInv => TraceIdExact
  BY DEF JitInv
<1> QED BY <1>1, JitInvariance, PTL

\* Machine code continues where the bytecode would: patchGuard,
\* patchFallthrough and the end of a fragment lead to the fragment of the
\* address at which the exit's snapshot would resume.
THEOREM Links == Spec => []LinksAtPc
<1>1. JitInv => LinksAtPc
  BY DEF JitInv
<1> QED BY <1>1, JitInvariance, PTL

\* The assertions of JFUNC, recordIns and restoreSnapshot: the operand of a
\* JFUNC is the fragment that fragmentMap_ has for its address.
THEOREM Jfuncs == Spec => []JfuncExact
<1>1. JitInv => JfuncExact
  BY DEF JitInv
<1> QED BY <1>1, JitInvariance, PTL

\* beginRecording and beginSideTrace find the recorder free, and the
\* capability is in its recording state exactly if the recorder is.
THEOREM Recordings == Spec => []OneRecording
<1>1. JitInv => OneRecording
  BY DEF JitInv
<1> QED BY <1>1, JitInvariance, PTL

\* patchGuard and patchFallthrough never overwrite the link of an exit.
THEOREM LinksPermanent == Spec => PatchedOnce
<1>1. JitInv /\ [Next]_vars => [LinksStay]_vars
  BY NextInv
<1> QED BY <1>1, JitInvariance, PTL DEF Spec, PatchedOnce

-----------------------------------------------------------------------------
(***************************************************************************)
(* The literals of a trace. Every request stays answered by the cell it    *)
(* got, and no two cells hold the same literal.                            *)
(***************************************************************************)

\* Literals of unsigned types have no sign to lose.
NoUnsignedSign ==
  \A l \in Literals : checki32(l[2]) => l[1] \in SignedTypes \/ l[2] < HalfWord \div 2

LitTypes == {l[1] : l \in Literals}
Cells == [o : {"KINT", "KWORD", "KWORDHI", "KBASEO"}, t : LitTypes \cup {"PTR"},
          u : 0..(HalfWord - 1) \cup BaseOffsets]

\* The second half of a word is behind the first, and no two cells hold the
\* same literal.
CellsInv(ls) ==
  /\ ls \in Seq(Cells)
  /\ \A i \in DOMAIN ls : ls[i].o = "KWORD" => i + 1 \in DOMAIN ls
  /\ \A t : \A w \in Word : \A i, j \in Find(ls, t, w) : i = j
  /\ \A i, j \in DOMAIN ls : ls[i].o = "KBASEO" /\ ls[i] = ls[j] => i = j

\* The cell i answers the request r.
Answers(ls, r, i) ==
  /\ i \in DOMAIN ls /\ r.ref = -i
  /\ \/ r.t = "base" /\ ls[i] = Cell("KBASEO", "PTR", r.w)
     \/ <<r.t, r.w>> \in Literals /\ Holds(ls, i, r.t, r.w)

LitInv ==
  /\ CellsInv(lits)
  /\ asked \in Seq([t : LitTypes \cup {"base"}, w : Word \cup BaseOffsets, ref : Int])
  /\ \A k \in DOMAIN asked : \E i \in DOMAIN lits : Answers(lits, asked[k], i)

\* The halves of a word.
LEMMA Halves ==
  ASSUME NEW w \in Word
  PROVE  Low(w) \in 0..(HalfWord - 1) /\ High(w) \in 0..(HalfWord - 1) /\ w = Low(w) + HalfWord * High(w)
<1>1. PICK H \in Nat : H = HalfWord /\ H > 1
  BY LiteralsAssumption
<1>2. w \in Nat /\ w < H * H
  BY <1>1 DEF Word
<1>3. PICK r : r = w % H
  OBVIOUS
<1>4. PICK q : q = w \div H
  OBVIOUS
<1>5. r \in 0..(H - 1) /\ q \in Int /\ w = (H * q) + r
  BY <1>1, <1>2, <1>3, <1>4
<1>6. q >= 0
  BY <1>1, <1>2, <1>5, SMTT(30)
<1>7. q < H
  <2>1. SUFFICES ASSUME q >= H PROVE FALSE
    BY <1>1, <1>5
  <2>2. H * q >= H * H
    BY <1>1, <1>5, <2>1, SMTT(30)
  <2> QED BY <1>1, <1>2, <1>5, <2>2
<1> QED BY <1>1, <1>3, <1>4, <1>5, <1>6, <1>7 DEF Low, High

\* A cell holds one literal only, and it is a literal of the cell's type.
LEMMA OneLiteral ==
  ASSUME NEW ls, NEW i, NEW t, NEW w \in Word, Holds(ls, i, t, w),
         NEW t2, NEW w2 \in Word, Holds(ls, i, t2, w2)
  PROVE  t = t2 /\ w = w2
<1>1. t = t2 /\ Low(w) = Low(w2)
  BY DEF Holds, Cell
<1>2. checki32(w) <=> checki32(w2)
  BY DEF Holds, Cell
<1>3. CASE checki32(w)
  BY <1>1, <1>2, <1>3 DEF checki32
<1>4. CASE ~ checki32(w)
  <2>1. High(w) = High(w2)
    BY <1>2, <1>4 DEF Holds
  <2>2. w = Low(w) + HalfWord * High(w) /\ w2 = Low(w2) + HalfWord * High(w2)
    BY Halves
  <2>3. PICK a, b : a = Low(w) /\ b = High(w)
    OBVIOUS
  <2> QED BY <1>1, <2>1, <2>2
<1> QED BY <1>1, <1>3, <1>4

\* The value of a cell that holds a literal.
LEMMA HeldValue ==
  ASSUME NoUnsignedSign, NEW ls, NEW i \in Nat, NEW t, NEW w, <<t, w>> \in Literals, Holds(ls, i, t, w)
  PROVE  literalValue(ls, -i, 0) = w
<1>1. w \in Word /\ (checki32(w) => t \in SignedTypes \/ w < HalfWord \div 2)
  BY LiteralsAssumption DEF NoUnsignedSign
<1>2. -(-i) = i /\ 1 - (-i) = i + 1
  OBVIOUS
<1>3. CASE checki32(w)
  <2>1. ls[i] = Cell("KINT", t, Low(w))
    BY <1>3 DEF Holds
  <2>2. literalValue(ls, -i, 0) = IF t \in SignedTypes THEN SignExtend(Low(w)) ELSE ZeroExtend(Low(w))
    BY <1>2, <2>1 DEF literalValue, Cell
  <2>3. ASSUME t \notin SignedTypes PROVE Low(w) = w
    <3>1. PICK H \in Nat : H = HalfWord /\ H > 1
      BY LiteralsAssumption
    <3>2. w \in Nat /\ w < H \div 2
      BY <1>1, <1>3, <2>3, <3>1 DEF Word
    <3>3. w < H
      BY <3>1, <3>2
    <3> QED BY <3>1, <3>2, <3>3 DEF Low
  <2> QED BY <1>3, <2>2, <2>3 DEF checki32, ZeroExtend
<1>4. CASE ~ checki32(w)
  <2>1. ls[i] = Cell("KWORD", t, Low(w)) /\ ls[i + 1].u = High(w)
    BY <1>4 DEF Holds
  <2>2. literalValue(ls, -i, 0) = Low(w) + HalfWord * High(w)
    BY <1>2, <2>1 DEF literalValue, Cell
  <2> QED BY <1>1, <2>2, Halves
<1> QED BY <1>3, <1>4

\* What the invariant says of the literals that were asked for.
LEMMA LitInvExact == NoUnsignedSign /\ LitInv => LiteralsExact
<1> SUFFICES ASSUME NoUnsignedSign, LitInv PROVE LiteralsExact
  OBVIOUS
<1>1. \A k \in DOMAIN asked : \E i \in DOMAIN lits : Answers(lits, asked[k], i)
  BY DEF LitInv
<1>2. lits \in Seq(Cells) /\ DOMAIN lits \subseteq Nat
  BY DEF LitInv, CellsInv
<1>3. \A l \in Literals : l[1] # "base" /\ l[2] \in Word
  BY LiteralsAssumption
<1>4. LiteralExact
  <2> SUFFICES ASSUME NEW k \in DOMAIN asked, asked[k].t # "base"
               PROVE  literalValue(lits, asked[k].ref, 0) = asked[k].w
    BY DEF LiteralExact
  <2>1. PICK i \in DOMAIN lits : Answers(lits, asked[k], i)
    BY <1>1
  <2>2. /\ i \in Nat /\ asked[k].ref = -i /\ <<asked[k].t, asked[k].w>> \in Literals
        /\ Holds(lits, i, asked[k].t, asked[k].w)
    BY <1>2, <2>1 DEF Answers
  <2> QED BY <2>2, HeldValue
<1>5. BaseLiteralMoves
  <2> SUFFICES ASSUME NEW k \in DOMAIN asked, NEW base \in 0..HalfWord, asked[k].t = "base"
               PROVE  literalValue(lits, asked[k].ref, base) = base + asked[k].w
    BY DEF BaseLiteralMoves
  <2>1. PICK i \in DOMAIN lits : Answers(lits, asked[k], i)
    BY <1>1
  <2>2. i \in Nat /\ asked[k].ref = -i /\ lits[i] = Cell("KBASEO", "PTR", asked[k].w)
    BY <1>2, <1>3, <2>1 DEF Answers
  <2>3. -(-i) = i
    BY <2>2
  <2> QED BY <2>2, <2>3 DEF literalValue, Cell
<1>6. LiteralsShared
  <2> SUFFICES ASSUME NEW j \in DOMAIN asked, NEW k \in DOMAIN asked
               PROVE  (asked[j].ref = asked[k].ref) <=> (asked[j].t = asked[k].t /\ asked[j].w = asked[k].w)
    BY DEF LiteralsShared
  <2>1. PICK x \in DOMAIN lits : Answers(lits, asked[j], x)
    BY <1>1
  <2>2. PICK y \in DOMAIN lits : Answers(lits, asked[k], y)
    BY <1>1
  <2>3. x \in Nat /\ y \in Nat /\ asked[j].ref = -x /\ asked[k].ref = -y
    BY <1>2, <2>1, <2>2 DEF Answers
  <2>4. asked[j].ref = asked[k].ref <=> x = y
    BY <2>3
  <2>5. CASE asked[j].t = "base" /\ asked[k].t = "base"
    <3>1. lits[x] = Cell("KBASEO", "PTR", asked[j].w) /\ lits[y] = Cell("KBASEO", "PTR", asked[k].w)
      BY <1>3, <2>1, <2>2, <2>5 DEF Answers
    <3>2. lits[x] = lits[y] => x = y
      BY <3>1 DEF LitInv, CellsInv, Cell
    <3>3. lits[x] = lits[y] <=> asked[j].w = asked[k].w
      BY <3>1 DEF Cell
    <3> QED BY <2>4, <2>5, <3>2, <3>3
  <2>6. CASE asked[j].t # "base" /\ asked[k].t # "base"
    <3>1. Holds(lits, x, asked[j].t, asked[j].w) /\ Holds(lits, y, asked[k].t, asked[k].w)
      BY <2>1, <2>2, <2>6 DEF Answers
    <3>2. asked[j].w \in Word /\ asked[k].w \in Word
      BY <1>3, <2>1, <2>2, <2>6 DEF Answers
    <3>3. x = y => asked[j].t = asked[k].t /\ asked[j].w = asked[k].w
      BY <3>1, <3>2, OneLiteral
    <3>4. ASSUME asked[j].t = asked[k].t, asked[j].w = asked[k].w PROVE x = y
      <4>1. x \in Find(lits, asked[j].t, asked[j].w) /\ y \in Find(lits, asked[j].t, asked[j].w)
        BY <3>1, <3>4 DEF Find
      <4> QED BY <3>2, <4>1 DEF LitInv, CellsInv
    <3> QED BY <2>4, <3>3, <3>4
  <2>7. CASE asked[j].t = "base" /\ asked[k].t # "base"
    <3>1. lits[x].o = "KBASEO" /\ lits[y].o \in {"KINT", "KWORD"}
      BY <1>3, <2>1, <2>2, <2>7 DEF Answers, Cell, Holds
    <3> QED BY <2>4, <2>7, <3>1
  <2>8. CASE asked[j].t # "base" /\ asked[k].t = "base"
    <3>1. lits[y].o = "KBASEO" /\ lits[x].o \in {"KINT", "KWORD"}
      BY <1>3, <2>1, <2>2, <2>8 DEF Answers, Cell, Holds
    <3> QED BY <2>4, <2>8, <3>1
  <2> QED BY <2>5, <2>6, <2>7, <2>8
<1> QED BY <1>4, <1>5, <1>6 DEF LiteralsExact

\* The cells of ls are the first of ls2.
Grown(ls, ls2) == \A i \in DOMAIN ls : i \in DOMAIN ls2 /\ ls2[i] = ls[i]

\* Which keep what they hold,
LEMMA HoldsGrown ==
  ASSUME NEW ls, NEW ls2, CellsInv(ls), Grown(ls, ls2), NEW i \in DOMAIN ls, NEW t, NEW w
  PROVE  Holds(ls, i, t, w) <=> Holds(ls2, i, t, w)
<1>1. ls2[i] = ls[i]
  BY DEF Grown
<1>2. ls[i].o = "KWORD" => ls2[i + 1] = ls[i + 1]
  BY DEF CellsInv, Grown
<1>3. ASSUME ls[i] = Cell("KWORD", t, Low(w)) PROVE ls2[i + 1] = ls[i + 1]
  BY <1>2, <1>3 DEF Cell
<1> QED BY <1>1, <1>3 DEF Holds

\* and so do the requests.
LEMMA AnswersGrown ==
  ASSUME NEW ls, NEW ls2, CellsInv(ls), Grown(ls, ls2), NEW r, NEW i, Answers(ls, r, i)
  PROVE  Answers(ls2, r, i)
<1>1. i \in DOMAIN ls /\ i \in DOMAIN ls2 /\ ls2[i] = ls[i]
  BY DEF Answers, Grown
<1> QED BY <1>1, HoldsGrown DEF Answers

\* What a request returns: the cells it leaves, and a cell that answers it.
LEMMA RequestKeeps ==
  ASSUME LitInv, NEW ls2, CellsInv(ls2), Grown(lits, ls2), lits' = ls2,
         NEW r \in [t : LitTypes \cup {"base"}, w : Word \cup BaseOffsets, ref : Int],
         NEW i \in DOMAIN ls2, Answers(ls2, r, i),
         asked' = Append(asked, r)
  PROVE  LitInv'
<1>1. PICK n \in Nat : n = Len(asked) /\ DOMAIN asked = 1..n
  BY DEF LitInv
<1>2. PICK a : a = asked'
  OBVIOUS
<1>3. /\ a \in Seq([t : LitTypes \cup {"base"}, w : Word \cup BaseOffsets, ref : Int])
      /\ DOMAIN a = 1..(n + 1) /\ a[n + 1] = r /\ \A k \in 1..n : a[k] = asked[k]
  BY <1>1, <1>2 DEF LitInv
<1>4. ASSUME NEW k \in 1..(n + 1) PROVE \E j \in DOMAIN ls2 : Answers(ls2, a[k], j)
  <2>1. CASE k = n + 1
    BY <1>3, <2>1
  <2>2. CASE k # n + 1
    <3>1. k \in 1..n
      BY <1>1, <2>2
    <3>2. PICK j \in DOMAIN lits : Answers(lits, asked[k], j)
      BY <1>1, <3>1 DEF LitInv
    <3>3. Answers(ls2, asked[k], j) /\ j \in DOMAIN ls2
      BY <3>2, AnswersGrown DEF LitInv, Grown
    <3> QED BY <1>3, <3>1, <3>3
  <2> QED BY <2>1, <2>2
<1> QED BY <1>2, <1>3, <1>4 DEF LitInv

\* literal, for a literal of the recorder's.
LEMMA LiteralAnswers ==
  ASSUME NEW ls, CellsInv(ls), NEW t, NEW w, <<t, w>> \in Literals, NEW r, r = literal(ls, t, w)
  PROVE  /\ CellsInv(r.lits) /\ Grown(ls, r.lits)
         /\ \E i \in DOMAIN r.lits : r.ref = -i /\ Holds(r.lits, i, t, w)
<1>1. w \in Word /\ t \in LitTypes
  BY LiteralsAssumption DEF LitTypes
<1>2. PICK found : found = Find(ls, t, w)
  OBVIOUS
<1>3. CASE found # {}
  <2>1. PICK i : i = CHOOSE j \in found : TRUE
    OBVIOUS
  <2>2. i \in found
    BY <1>3, <2>1
  <2>3. r.lits = ls /\ r.ref = -i
    BY <1>2, <1>3, <2>1 DEF literal
  <2>4. i \in DOMAIN ls /\ Holds(ls, i, t, w)
    BY <1>2, <2>2 DEF Find
  <2> QED BY <2>3, <2>4 DEF Grown
<1>4. CASE found = {}
  <2>1. PICK n \in Nat : n = Len(ls) /\ DOMAIN ls = 1..n
    BY DEF CellsInv
  <2>2. Low(w) \in 0..(HalfWord - 1) /\ High(w) \in 0..(HalfWord - 1)
    BY <1>1, Halves
  <2>3. PICK ls2 : ls2 = r.lits
    OBVIOUS
  <2>4. /\ ls2 \in Seq(Cells) /\ \A i \in 1..n : i \in DOMAIN ls2 /\ ls2[i] = ls[i]
        /\ n + 1 \in DOMAIN ls2 /\ r.ref = -(n + 1)
        /\ \/ /\ checki32(w) /\ DOMAIN ls2 = 1..(n + 1) /\ ls2[n + 1] = Cell("KINT", t, Low(w))
           \/ /\ ~ checki32(w) /\ DOMAIN ls2 = 1..(n + 2)
              /\ ls2[n + 1] = Cell("KWORD", t, Low(w)) /\ ls2[n + 2] = Cell("KWORDHI", t, High(w))
    <3>1. CASE checki32(w)
      <4>1. PICK c : c = Cell("KINT", t, Low(w))
        OBVIOUS
      <4>2. c \in Cells
        BY <1>1, <2>2, <4>1 DEF Cell, Cells
      <4>3. ls2 = ls \o <<c>> /\ r.ref = -(n + 1)
        BY <1>2, <1>4, <2>1, <2>3, <3>1, <4>1 DEF literal, Added
      <4>4. ls \in Seq(Cells)
        BY DEF CellsInv
      <4>5. ls2 \in Seq(Cells) /\ DOMAIN ls2 = 1..(n + 1) /\ ls2[n + 1] = c /\ \A i \in 1..n : ls2[i] = ls[i]
        BY <2>1, <4>2, <4>3, <4>4
      <4> QED BY <3>1, <4>1, <4>3, <4>5
    <3>2. CASE ~ checki32(w)
      <4>1. PICK c : c = Cell("KWORD", t, Low(w))
        OBVIOUS
      <4>2. PICK d : d = Cell("KWORDHI", t, High(w))
        OBVIOUS
      <4>3. c \in Cells /\ d \in Cells
        BY <1>1, <2>2, <4>1, <4>2 DEF Cell, Cells
      <4>4. ls2 = ls \o <<c, d>> /\ r.ref = -(n + 1)
        BY <1>2, <1>4, <2>1, <2>3, <3>2, <4>1, <4>2 DEF literal, Added
      <4>5. ls \in Seq(Cells)
        BY DEF CellsInv
      <4>6. ls2 \in Seq(Cells) /\ DOMAIN ls2 = 1..(n + 2) /\ \A i \in 1..n : ls2[i] = ls[i]
        BY <2>1, <4>3, <4>4, <4>5
      <4>7. ls2[n + 1] = c /\ ls2[n + 2] = d
        BY <2>1, <4>4, <4>5
      <4> QED BY <3>2, <4>1, <4>2, <4>4, <4>6, <4>7
    <3> QED BY <3>1, <3>2
  <2>5. Grown(ls, ls2)
    BY <2>1, <2>4 DEF Grown
  <2>6. Holds(ls2, n + 1, t, w)
    BY <2>4 DEF Holds, Cell
  <2>7. \A i \in DOMAIN ls2 : i \in 1..n \/ i = n + 1 \/ (i = n + 2 /\ ls2[i].o = "KWORDHI")
    BY <2>4 DEF Cell
  <2>8. ASSUME NEW i \in DOMAIN ls2, ls2[i].o = "KWORD" PROVE i + 1 \in DOMAIN ls2
    <3>1. CASE i \in 1..n
      BY <2>1, <2>4, <2>8, <3>1 DEF CellsInv
    <3>2. CASE i = n + 1
      BY <2>4, <2>8, <3>2 DEF Cell
    <3> QED BY <2>7, <2>8, <3>1, <3>2
  <2>9. ASSUME NEW t2, NEW w2, NEW i \in Find(ls2, t2, w2)
        PROVE  i \in Find(ls, t2, w2) \/ i = n + 1
    <3>1. i \in DOMAIN ls2 /\ Holds(ls2, i, t2, w2)
      BY <2>9 DEF Find
    <3>2. ls2[i].o # "KWORDHI"
      BY <3>1 DEF Holds, Cell
    <3>3. CASE i \in 1..n
      <4>1. Holds(ls, i, t2, w2)
        BY <2>1, <2>5, <3>1, <3>3, HoldsGrown
      <4> QED BY <2>1, <3>3, <4>1 DEF Find
    <3> QED BY <2>7, <3>1, <3>2, <3>3
  <2>10. ASSUME NEW t2, NEW w2 \in Word, NEW i \in Find(ls2, t2, w2), NEW j \in Find(ls2, t2, w2)
         PROVE  i = j
    <3>1. CASE n + 1 \in Find(ls2, t2, w2)
      <4>1. Holds(ls2, n + 1, t2, w2)
        BY <3>1 DEF Find
      <4>2. t = t2 /\ w = w2
        BY <1>1, <2>6, <4>1, OneLiteral
      <4>3. Find(ls, t2, w2) = {}
        BY <1>2, <1>4, <4>2
      <4> QED BY <2>9, <4>3
    <3>2. CASE n + 1 \notin Find(ls2, t2, w2)
      <4>1. i \in Find(ls, t2, w2) /\ j \in Find(ls, t2, w2)
        BY <2>9, <3>2
      <4> QED BY <4>1 DEF CellsInv
    <3> QED BY <3>1, <3>2
  <2>11. ASSUME NEW i \in DOMAIN ls2, NEW j \in DOMAIN ls2, ls2[i].o = "KBASEO", ls2[i] = ls2[j]
         PROVE  i = j
    <3>1. ls2[n + 1].o # "KBASEO"
      BY <2>4 DEF Cell
    <3>2. i \in 1..n
      BY <2>7, <2>11, <3>1
    <3>3. j \in 1..n
      BY <2>7, <2>11, <3>1
    <3>4. ls[i].o = "KBASEO" /\ ls[i] = ls[j]
      BY <2>4, <2>11, <3>2, <3>3
    <3> QED BY <2>1, <3>2, <3>3, <3>4 DEF CellsInv
  <2>12. CellsInv(ls2)
    BY <2>4, <2>8, <2>10, <2>11 DEF CellsInv
  <2> QED BY <2>3, <2>4, <2>5, <2>6, <2>12
<1> QED BY <1>3, <1>4

\* baseLiteral.
LEMMA BaseAnswers ==
  ASSUME NEW ls, CellsInv(ls), NEW ofs \in BaseOffsets, NEW r, r = baseLiteral(ls, ofs)
  PROVE  /\ CellsInv(r.lits) /\ Grown(ls, r.lits)
         /\ \E i \in DOMAIN r.lits : r.ref = -i /\ r.lits[i] = Cell("KBASEO", "PTR", ofs)
<1>1. PICK c : c = Cell("KBASEO", "PTR", ofs)
  OBVIOUS
<1>2. PICK found : found = {i \in DOMAIN ls : ls[i] = c}
  OBVIOUS
<1>3. CASE found # {}
  <2>1. PICK i : i = CHOOSE j \in found : TRUE
    OBVIOUS
  <2>2. i \in found
    BY <1>3, <2>1
  <2>3. r.lits = ls /\ r.ref = -i
    BY <1>1, <1>2, <1>3, <2>1 DEF baseLiteral
  <2>4. i \in DOMAIN ls /\ ls[i] = c
    BY <1>2, <2>2
  <2> QED BY <1>1, <2>3, <2>4 DEF Grown
<1>4. CASE found = {}
  <2>1. PICK n \in Nat : n = Len(ls) /\ DOMAIN ls = 1..n /\ ls \in Seq(Cells)
    BY DEF CellsInv
  <2>2. PICK ls2 : ls2 = r.lits
    OBVIOUS
  <2>3. c \in Cells
    BY <1>1 DEF Cell, Cells
  <2>4. ls2 = ls \o <<c>> /\ r.ref = -(n + 1)
    BY <1>1, <1>2, <1>4, <2>1, <2>2 DEF baseLiteral, Added
  <2>5. ls2 \in Seq(Cells) /\ DOMAIN ls2 = 1..(n + 1) /\ ls2[n + 1] = c /\ \A i \in 1..n : ls2[i] = ls[i]
    BY <2>1, <2>3, <2>4
  <2>6. \A i \in 1..(n + 1) : i \in 1..n \/ i = n + 1
    OBVIOUS
  <2>7. \A i \in 1..n : i \in 1..(n + 1)
    OBVIOUS
  <2>8. Grown(ls, ls2)
    BY <2>1, <2>5, <2>7 DEF Grown
  <2>9. c.o = "KBASEO"
    BY <1>1 DEF Cell
  <2>10. ASSUME NEW i \in DOMAIN ls2, ls2[i].o = "KWORD" PROVE i + 1 \in DOMAIN ls2
    <3>1. i \in 1..n
      BY <2>5, <2>6, <2>9, <2>10
    <3> QED BY <2>1, <2>5, <2>7, <2>10, <3>1 DEF CellsInv
  <2>11. ASSUME NEW t, NEW w, NEW i \in Find(ls2, t, w) PROVE i \in Find(ls, t, w)
    <3>1. i \in DOMAIN ls2 /\ Holds(ls2, i, t, w)
      BY <2>11 DEF Find
    <3>2. ls2[i].o # "KBASEO"
      BY <3>1 DEF Holds, Cell
    <3>3. i \in 1..n
      BY <2>5, <2>6, <2>9, <3>1, <3>2
    <3>4. Holds(ls, i, t, w)
      BY <2>1, <2>8, <3>1, <3>3, HoldsGrown
    <3> QED BY <2>1, <3>3, <3>4 DEF Find
  <2>12. \A t : \A w \in Word : \A i, j \in Find(ls2, t, w) : i = j
    BY <2>11 DEF CellsInv
  <2>13. ASSUME NEW i \in DOMAIN ls2, NEW j \in DOMAIN ls2, ls2[i].o = "KBASEO", ls2[i] = ls2[j]
         PROVE  i = j
    <3>1. CASE i \in 1..n /\ j \in 1..n
      BY <2>1, <2>5, <2>13, <3>1 DEF CellsInv
    <3>2. \A k \in 1..n : ls[k] # c
      BY <1>2, <1>4, <2>1
    <3> QED BY <2>5, <2>6, <2>13, <3>1, <3>2
  <2>14. CellsInv(ls2)
    BY <2>5, <2>10, <2>12, <2>13 DEF CellsInv
  <2>15. n + 1 \in DOMAIN ls2
    BY <2>5
  <2> QED BY <1>1, <2>2, <2>4, <2>5, <2>8, <2>14, <2>15
<1> QED BY <1>3, <1>4

\* No literal yet.
LEMMA LitInitial == LitInit => LitInv
<1> SUFFICES ASSUME LitInit PROVE LitInv
  OBVIOUS
<1>1. lits = << >> /\ asked = << >>
  BY DEF LitInit
<1>2. CellsInv(<< >>)
  BY DEF CellsInv, Find
<1> QED BY <1>1, <1>2 DEF LitInv

\* Every request keeps the invariant.
LEMMA LitKept ==
  ASSUME LitInv, [LitNext]_litVars
  PROVE  LitInv'
<1>1. CellsInv(lits)
  BY DEF LitInv
<1>2. ASSUME NEW l \in Literals, AskLiteral(l[1], l[2]) PROVE LitInv'
  <2>1. PICK t : t = l[1]
    OBVIOUS
  <2>2. PICK w : w = l[2]
    OBVIOUS
  <2>3. <<t, w>> \in Literals /\ t \in LitTypes /\ w \in Word
    BY <1>2, <2>1, <2>2, LiteralsAssumption DEF LitTypes
  <2>4. PICK r : r = literal(lits, t, w)
    OBVIOUS
  <2>5. lits' = r.lits /\ asked' = Append(asked, [t |-> t, w |-> w, ref |-> r.ref])
    BY <1>2, <2>1, <2>2, <2>4 DEF AskLiteral
  <2>6. PICK q : q = [t |-> t, w |-> w, ref |-> r.ref]
    OBVIOUS
  <2>7. PICK ls2 : ls2 = r.lits
    OBVIOUS
  <2>8. CellsInv(ls2) /\ Grown(lits, ls2) /\ \E i \in DOMAIN ls2 : r.ref = -i /\ Holds(ls2, i, t, w)
    BY <1>1, <2>3, <2>4, <2>7, LiteralAnswers
  <2>9. PICK i \in DOMAIN ls2 : r.ref = -i /\ Holds(ls2, i, t, w)
    BY <2>8
  <2>10. Answers(ls2, q, i)
    BY <2>3, <2>6, <2>9 DEF Answers
  <2>11. q \in [t : LitTypes \cup {"base"}, w : Word \cup BaseOffsets, ref : Int]
    <3>1. i \in Int
      BY <2>8 DEF CellsInv
    <3> QED BY <2>3, <2>6, <2>9, <3>1
  <2> QED BY <2>5, <2>6, <2>7, <2>8, <2>10, <2>11, RequestKeeps
<1>3. ASSUME NEW ofs \in BaseOffsets, AskBase(ofs) PROVE LitInv'
  <2>1. PICK r : r = baseLiteral(lits, ofs)
    OBVIOUS
  <2>2. lits' = r.lits /\ asked' = Append(asked, [t |-> "base", w |-> ofs, ref |-> r.ref])
    BY <1>3, <2>1 DEF AskBase
  <2>3. PICK q : q = [t |-> "base", w |-> ofs, ref |-> r.ref]
    OBVIOUS
  <2>4. PICK ls2 : ls2 = r.lits
    OBVIOUS
  <2>5. /\ CellsInv(ls2) /\ Grown(lits, ls2)
        /\ \E i \in DOMAIN ls2 : r.ref = -i /\ ls2[i] = Cell("KBASEO", "PTR", ofs)
    BY <1>1, <2>1, <2>4, BaseAnswers
  <2>6. PICK i \in DOMAIN ls2 : r.ref = -i /\ ls2[i] = Cell("KBASEO", "PTR", ofs)
    BY <2>5
  <2>7. Answers(ls2, q, i)
    BY <2>3, <2>6 DEF Answers
  <2>8. q \in [t : LitTypes \cup {"base"}, w : Word \cup BaseOffsets, ref : Int]
    <3>1. i \in Int
      BY <2>5 DEF CellsInv
    <3> QED BY <2>3, <2>6, <3>1
  <2> QED BY <2>2, <2>3, <2>4, <2>5, <2>7, <2>8, RequestKeeps
<1>4. CASE UNCHANGED litVars
  BY <1>4 DEF LitInv, litVars
<1> QED BY <1>2, <1>3, <1>4, LiteralsAssumption DEF LitNext

\* For every width of words and whatever literals and offsets the recorder asks
\* for, literals keep their value, move with the base and are shared exactly if
\* they are equal (literal, baseLiteral, literalValue of ir.cc): the property
\* LiteralsExact. The hypothesis excludes what the run literal_value shows.
THEOREM LiteralsAlwaysExact == NoUnsignedSign => (LitSpec => []LiteralsExact)
<1> SUFFICES ASSUME NoUnsignedSign PROVE LitSpec => []LiteralsExact
  OBVIOUS
<1>1. LitInv => LiteralsExact
  BY LitInvExact
<1>2. LitInv /\ [LitNext]_litVars => LitInv'
  BY LitKept
<1> QED BY <1>1, <1>2, LitInitial, PTL DEF LitSpec

-----------------------------------------------------------------------------
(***************************************************************************)
(* The loop filter. Every node of the tree of calls stands for a whole     *)
(* stack of the interpreter: the frame of a node comes on top of its       *)
(* parent's stack, and the root stands for the lowest stack so far, which  *)
(* is below all the others. That is how frames that are learnt late are    *)
(* right for the nodes that were made before.                              *)
(***************************************************************************)

\* Induction over the naturals, for a set of them.
LEMMA SetInduction ==
  ASSUME NEW T \in SUBSET Nat, 0 \in T, \A n \in T : n + 1 \in T
  PROVE  T = Nat
<1>1. PICK R : R = {ss \in Nat \X Nat : ss[1] < ss[2]}
  OBVIOUS
<1>2. \A x, y \in Nat : <<x, y>> \in R <=> x < y
  BY <1>1
<1>3. IsWellFoundedOn(R, Nat)
  BY <1>1, NatLessThanWellFounded DEF OpToRel
<1>4. SUFFICES ASSUME Nat \ T # {} PROVE FALSE
  OBVIOUS
<1>5. PICK x \in Nat \ T : \A y \in Nat \ T : ~ (<<y, x>> \in R)
  BY <1>3, <1>4, WFMin
<1>6. CASE x = 0
  BY <1>6
<1>7. CASE x # 0
  <2>1. x - 1 \in Nat /\ x - 1 < x
    BY <1>7
  <2>2. x - 1 \in T
    BY <1>2, <1>5, <2>1
  <2> QED BY <2>2
<1> QED BY <1>6, <1>7

\* A set of naturals has a least element.
LEMMA LeastOne ==
  ASSUME NEW T \in SUBSET Nat, T # {}
  PROVE  Min(T) \in T /\ \A y \in T : Min(T) <= y
<1>1. PICK R : R = {ss \in Nat \X Nat : ss[1] < ss[2]}
  OBVIOUS
<1>2. \A x, y \in Nat : <<x, y>> \in R <=> x < y
  BY <1>1
<1>3. IsWellFoundedOn(R, Nat)
  BY <1>1, NatLessThanWellFounded DEF OpToRel
<1>4. PICK x \in T : \A y \in T : ~ (<<y, x>> \in R)
  BY <1>3, WFMin
<1>5. ASSUME NEW y \in T PROVE x <= y
  <2>1. ~ (y < x) /\ x \in Nat /\ y \in Nat
    BY <1>2, <1>4
  <2> QED BY <2>1
<1> QED BY <1>5 DEF Min

\* The walk down the tree begins at its node, goes to the parent, and stays
\* without one.
LEMMA PathSteps ==
  ASSUME NEW cs, NEW n, Len(cs.nodes) \in Nat
  PROVE  /\ DOMAIN Path(cs, n) = 1..Len(cs.nodes)
         /\ \A d \in 1..Len(cs.nodes) :
              Path(cs, n)[d] = IF d = 1 THEN n
                               ELSE IF Path(cs, n)[d - 1] = NoRef THEN NoRef
                               ELSE cs.nodes[Path(cs, n)[d - 1]].parent
<1> DEFINE L == Len(cs.nodes)
           Step(p) == IF p = NoRef THEN NoRef ELSE cs.nodes[p].parent
           F(f, m) == f = [d \in 1..m |-> IF d = 1 THEN n ELSE Step(f[d - 1])]
           T == {m \in Nat : \E f : F(f, m)}
<1> HIDE DEF Step
<1>1. 0 \in T
  <2>1. PICK f : f = [d \in 1..0 |-> n]
    OBVIOUS
  <2>2. f = [d \in 1..0 |-> IF d = 1 THEN n ELSE Step(f[d - 1])]
    BY <2>1
  <2> QED BY <2>2
<1>2. ASSUME NEW m \in T PROVE m + 1 \in T
  <2>1. PICK f : F(f, m)
    OBVIOUS
  <2>2. PICK g : g = [d \in 1..(m + 1) |->
                        IF d = m + 1 THEN IF d = 1 THEN n ELSE Step(f[m]) ELSE f[d]]
    OBVIOUS
  <2>3. ASSUME NEW d \in 1..(m + 1)
        PROVE  g[d] = IF d = 1 THEN n ELSE Step(g[d - 1])
    <3>1. CASE d = m + 1 /\ d # 1
      <4>1. d - 1 = m /\ m \in 1..(m + 1) /\ m # m + 1
        BY <3>1
      <4>2. g[m] = f[m] /\ g[d] = Step(f[m])
        BY <2>2, <3>1, <4>1
      <4> QED BY <3>1, <4>1, <4>2
    <3>2. CASE d # m + 1 /\ d # 1
      <4>1. d \in 1..m /\ d - 1 \in 1..m /\ d - 1 # m + 1 /\ d - 1 \in 1..(m + 1)
        BY <3>2
      <4>2. f[d] = Step(f[d - 1])
        BY <2>1, <3>2, <4>1
      <4>3. g[d - 1] = f[d - 1] /\ g[d] = f[d]
        BY <2>2, <3>2, <4>1
      <4> QED BY <3>2, <4>2, <4>3
    <3>3. CASE d = 1 /\ d # m + 1
      <4>1. d \in 1..m
        BY <3>3
      <4>2. f[d] = n
        BY <2>1, <3>3, <4>1
      <4>3. g[d] = f[d]
        BY <2>2, <3>3
      <4> QED BY <3>3, <4>2, <4>3
    <3>4. CASE d = 1 /\ d = m + 1
      <4>1. g[d] = n
        BY <2>2, <3>4
      <4> QED BY <3>4, <4>1
    <3> QED BY <3>1, <3>2, <3>3, <3>4
  <2>4. F(g, m + 1)
    <3>1. g = [d \in 1..(m + 1) |-> g[d]]
      BY <2>2
    <3> QED BY <2>3, <3>1
  <2> QED BY <2>4
<1>3. T = Nat
  <2> HIDE DEF T
  <2>1. T \in SUBSET Nat
    BY DEF T
  <2> QED BY <1>1, <1>2, <2>1, SetInduction
<1>4. L \in Nat
  OBVIOUS
<1>5. PICK p : p = CHOOSE f : F(f, L)
  OBVIOUS
<1>6. Path(cs, n) = p
  BY ONLY <1>5, ZenonT(60) DEF Path, F, Step, L
<1> HIDE DEF L
<1>7. \E f : F(f, L)
  <2> HIDE DEF F
  <2>1. L \in T
    <3> HIDE DEF T
    <3> QED BY <1>3, <1>4
  <2>2. \A m \in T : \E f : F(f, m)
    OBVIOUS
  <2> HIDE DEF T
  <2> QED BY <2>1, <2>2
<1>8. F(p, L)
  BY <1>5, <1>7
<1>9. DOMAIN p = 1..L /\ \A d \in 1..L : p[d] = IF d = 1 THEN n ELSE Step(p[d - 1])
  BY <1>8
<1> QED BY <1>6, <1>9 DEF L, Step

CallNodes == [parent : Nat, addr : ReturnAddrs \cup {NoAddr}]

\* The node n stands for the stack S[n], and the root r for the lowest.
Tree(cs, S, r) ==
  /\ cs.nodes \in Seq(CallNodes) /\ cs.curr \in DOMAIN cs.nodes
  /\ S \in [DOMAIN cs.nodes -> Seq(ReturnAddrs)]
  /\ r \in DOMAIN cs.nodes /\ cs.nodes[r].parent = NoRef
  /\ \A n \in DOMAIN cs.nodes \ {r} :
       /\ cs.nodes[n].parent \in DOMAIN cs.nodes
       /\ S[n] # << >> /\ cs.nodes[n].addr = Head(S[n])
       /\ S[cs.nodes[n].parent] = Tail(S[n])
  /\ \A n \in DOMAIN cs.nodes :
       Len(S[r]) <= Len(S[n]) /\ Len(S[n]) - Len(S[r]) < Len(cs.nodes)

\* How many frames the node knows of its stack.
Seen(S, r, n) == Len(S[n]) - Len(S[r])

\* The node p stands for the stack of n without its d top frames.
Below(S, n, d, p) ==
  /\ Len(S[p]) = Len(S[n]) - d
  /\ \A i \in 1..Len(S[p]) : S[p][i] = S[n][i + d]

\* Types and bounds.
LEMMA TreeFacts ==
  ASSUME NEW cs, NEW S, NEW r, Tree(cs, S, r), NEW n \in DOMAIN cs.nodes
  PROVE  /\ Len(cs.nodes) \in Nat \ {0} /\ DOMAIN cs.nodes = 1..Len(cs.nodes)
         /\ S[n] \in Seq(ReturnAddrs) /\ Len(S[n]) \in Nat /\ Len(S[r]) \in Nat
         /\ S[r] \in Seq(ReturnAddrs)
         /\ Seen(S, r, n) \in 0..(Len(cs.nodes) - 1)
         /\ n \in Nat \ {0} /\ n # NoRef
<1>1. /\ cs.nodes \in Seq(CallNodes) /\ S \in [DOMAIN cs.nodes -> Seq(ReturnAddrs)]
      /\ r \in DOMAIN cs.nodes
      /\ Len(S[r]) <= Len(S[n]) /\ Len(S[n]) - Len(S[r]) < Len(cs.nodes)
  BY DEF Tree
<1>2. Len(cs.nodes) \in Nat /\ DOMAIN cs.nodes = 1..Len(cs.nodes)
  BY <1>1
<1>3. S[n] \in Seq(ReturnAddrs) /\ S[r] \in Seq(ReturnAddrs)
  BY <1>1
<1>4. Len(S[n]) \in Nat /\ Len(S[r]) \in Nat
  BY <1>3
<1>5. Len(cs.nodes) # 0
  BY <1>1, <1>2
<1>6. n \in Nat \ {0}
  BY <1>2
<1>7. Len(S[n]) - Len(S[r]) \in 0..(Len(cs.nodes) - 1)
  <2>1. PICK a \in Nat, b \in Nat, m \in Nat :
          a = Len(S[n]) /\ b = Len(S[r]) /\ m = Len(cs.nodes)
    BY <1>2, <1>4
  <2>2. b <= a /\ a - b < m
    BY <1>1, <2>1
  <2>3. a - b \in 0..(m - 1)
    BY <2>2
  <2> QED BY <2>1, <2>3
<1> QED BY <1>2, <1>3, <1>4, <1>5, <1>6, <1>7 DEF Seen, NoRef

\* Only the root is as low as the root.
LEMMA RootLowest ==
  ASSUME NEW cs, NEW S, NEW r, Tree(cs, S, r), NEW n \in DOMAIN cs.nodes,
         Seen(S, r, n) = 0
  PROVE  n = r
<1> SUFFICES ASSUME n # r PROVE FALSE
  OBVIOUS
<1>1. PICK p : p = cs.nodes[n].parent
  OBVIOUS
<1>2. /\ p \in DOMAIN cs.nodes /\ S[n] # << >> /\ S[p] = Tail(S[n])
  BY <1>1 DEF Tree
<1>3. Len(S[r]) <= Len(S[p])
  BY <1>2 DEF Tree
<1>4. S[n] \in Seq(ReturnAddrs) /\ Len(S[n]) \in Nat /\ Len(S[r]) \in Nat
  BY TreeFacts
<1>5. Len(S[p]) = Len(S[n]) - 1
  BY <1>2, <1>4
<1> QED BY <1>3, <1>4, <1>5 DEF Seen

\* The parent of a node stands for one frame less.
LEMMA ParentBelow ==
  ASSUME NEW cs, NEW S, NEW r, Tree(cs, S, r), NEW n \in DOMAIN cs.nodes,
         NEW p \in DOMAIN cs.nodes, NEW d \in Nat, d < Seen(S, r, n), Below(S, n, d, p)
  PROVE  /\ p # r /\ cs.nodes[p].parent \in DOMAIN cs.nodes
         /\ Below(S, n, d + 1, cs.nodes[p].parent)
         /\ cs.nodes[p].addr = S[n][d + 1]
<1> DEFINE q == cs.nodes[p].parent
<1>1. q = cs.nodes[p].parent
  OBVIOUS
<1> HIDE DEF q
<1>2. /\ S[n] \in Seq(ReturnAddrs) /\ S[p] \in Seq(ReturnAddrs)
      /\ Len(S[n]) \in Nat /\ Len(S[r]) \in Nat /\ Len(S[p]) \in Nat
  BY TreeFacts
<1>3. Len(S[p]) = Len(S[n]) - d
  BY DEF Below
<1>4. p # r
  <2>1. PICK a \in Nat, b \in Nat : a = Len(S[n]) /\ b = Len(S[r])
    BY <1>2
  <2>2. d < a - b
    BY <2>1 DEF Seen
  <2>3. Len(S[p]) = a - d
    BY <1>3, <2>1
  <2>4. a - d > b
    BY <2>2
  <2>5. Len(S[p]) > Len(S[r])
    BY <2>1, <2>3, <2>4
  <2> QED BY <1>2, <2>5
<1>5. /\ q \in DOMAIN cs.nodes /\ S[p] # << >> /\ S[q] = Tail(S[p])
      /\ cs.nodes[p].addr = Head(S[p])
  BY <1>1, <1>4 DEF Tree
<1>6. Len(S[q]) = Len(S[p]) - 1 /\ \A i \in 1..Len(S[q]) : S[q][i] = S[p][i + 1]
  BY <1>2, <1>5
<1>7. Len(S[q]) = Len(S[n]) - (d + 1)
  BY <1>2, <1>3, <1>6
<1>8. ASSUME NEW i \in 1..Len(S[q]) PROVE S[q][i] = S[n][i + (d + 1)]
  <2>1. i + 1 \in 1..Len(S[p]) /\ (i + 1) + d = i + (d + 1)
    BY <1>2, <1>6
  <2>2. S[p][i + 1] = S[n][(i + 1) + d]
    BY <2>1 DEF Below
  <2> QED BY <1>6, <2>1, <2>2
<1>9. Below(S, n, d + 1, q)
  BY <1>7, <1>8 DEF Below
<1>10. cs.nodes[p].addr = S[n][d + 1]
  <2>1. 1 \in 1..Len(S[p]) /\ Head(S[p]) = S[p][1] /\ 1 + d = d + 1
    BY <1>2, <1>5
  <2>2. S[p][1] = S[n][1 + d]
    BY <2>1 DEF Below
  <2> QED BY <1>5, <2>1, <2>2
<1> QED BY <1>4, <1>5, <1>9, <1>10 DEF q

\* The walk from n meets, step by step, the nodes of its stack down to the
\* root, and then none.
LEMMA PathStands ==
  ASSUME NEW cs, NEW S, NEW r, Tree(cs, S, r), NEW n \in DOMAIN cs.nodes
  PROVE  /\ \A d \in 0..Seen(S, r, n) :
              /\ Path(cs, n)[d + 1] \in DOMAIN cs.nodes
              /\ Below(S, n, d, Path(cs, n)[d + 1])
         /\ \A d \in (Seen(S, r, n) + 2)..Len(cs.nodes) : Path(cs, n)[d] = NoRef
         /\ DOMAIN Path(cs, n) = 1..Len(cs.nodes)
<1>1. PICK K : K = Seen(S, r, n)
  OBVIOUS
<1>2. PICK p : p = Path(cs, n)
  OBVIOUS
<1>3. PICK L \in Nat : L = Len(cs.nodes) /\ L > 0 /\ K \in 0..(L - 1) /\ n # NoRef
  BY <1>1, TreeFacts
<1>4. /\ DOMAIN p = 1..L
      /\ \A d \in 1..L : p[d] = IF d = 1 THEN n ELSE IF p[d - 1] = NoRef THEN NoRef
                                ELSE cs.nodes[p[d - 1]].parent
  BY <1>2, <1>3, PathSteps
<1> DEFINE T == {d \in Nat : d <= K => p[d + 1] \in DOMAIN cs.nodes /\ Below(S, n, d, p[d + 1])}
<1>5. 0 \in T
  <2>1. p[1] = n
    BY <1>3, <1>4
  <2>2. S[n] \in Seq(ReturnAddrs) /\ Len(S[n]) \in Nat
    BY TreeFacts
  <2>3. Below(S, n, 0, n)
    BY <2>2 DEF Below
  <2> QED BY <2>1, <2>3
<1>6. ASSUME NEW d \in T, d + 1 <= K
      PROVE  p[(d + 1) + 1] \in DOMAIN cs.nodes /\ Below(S, n, d + 1, p[(d + 1) + 1])
  <2>1. d \in Nat /\ d < K /\ p[d + 1] \in DOMAIN cs.nodes /\ Below(S, n, d, p[d + 1])
    BY <1>3, <1>6
  <2>2. /\ cs.nodes[p[d + 1]].parent \in DOMAIN cs.nodes
        /\ Below(S, n, d + 1, cs.nodes[p[d + 1]].parent)
    BY <1>1, <2>1, ParentBelow
  <2>3. p[d + 1] # NoRef
    BY <2>1, TreeFacts
  <2>4. (d + 1) + 1 \in 1..L /\ (d + 1) + 1 # 1 /\ ((d + 1) + 1) - 1 = d + 1
    BY <1>3, <1>6, <2>1
  <2>5. p[(d + 1) + 1] = cs.nodes[p[d + 1]].parent
    BY <1>4, <2>3, <2>4
  <2> QED BY <2>2, <2>5
<1>7. T = Nat
  <2>1. \A d \in T : d + 1 \in T
    BY <1>6
  <2> HIDE DEF T
  <2>2. T \in SUBSET Nat
    BY DEF T
  <2> QED BY <1>5, <2>1, <2>2, SetInduction
<1>8. ASSUME NEW d \in 0..K PROVE p[d + 1] \in DOMAIN cs.nodes /\ Below(S, n, d, p[d + 1])
  <2>1. d \in Nat /\ d <= K
    BY <1>3
  <2>2. d \in T
    BY <1>7, <2>1
  <2> QED BY <2>1, <2>2
<1>9. p[K + 1] = r
  <2>1. p[K + 1] \in DOMAIN cs.nodes /\ Below(S, n, K, p[K + 1])
    BY <1>3, <1>8
  <2>2. Seen(S, r, p[K + 1]) = 0
    <3>1. Len(S[p[K + 1]]) = Len(S[n]) - K
      BY <2>1 DEF Below
    <3>2. Len(S[n]) \in Nat /\ Len(S[r]) \in Nat
      BY TreeFacts
    <3> QED BY <1>1, <3>1, <3>2 DEF Seen
  <2> QED BY <2>1, <2>2, RootLowest
<1> DEFINE U == {d \in Nat : (K + 2) + d <= L => p[(K + 2) + d] = NoRef}
<1>10. 0 \in U
  <2> SUFFICES ASSUME K + 2 <= L PROVE p[K + 2] = NoRef
    BY <1>3
  <2>1. K + 2 \in 1..L /\ K + 2 # 1 /\ (K + 2) - 1 = K + 1
    BY <1>3
  <2>2. cs.nodes[r].parent = NoRef
    BY DEF Tree
  <2> QED BY <1>4, <1>9, <2>1, <2>2
<1>11. ASSUME NEW d \in U, (K + 2) + (d + 1) <= L PROVE p[(K + 2) + (d + 1)] = NoRef
  <2>1. d \in Nat /\ p[(K + 2) + d] = NoRef
    BY <1>3, <1>11
  <2>2. /\ (K + 2) + (d + 1) \in 1..L /\ (K + 2) + (d + 1) # 1
        /\ ((K + 2) + (d + 1)) - 1 = (K + 2) + d
    BY <1>3, <1>11, <2>1
  <2> QED BY <1>4, <2>1, <2>2
<1>12. U = Nat
  <2>1. \A d \in U : d + 1 \in U
    BY <1>11
  <2> HIDE DEF U
  <2>2. U \in SUBSET Nat
    BY DEF U
  <2> QED BY <1>10, <2>1, <2>2, SetInduction
<1>13. ASSUME NEW d \in (K + 2)..L PROVE p[d] = NoRef
  <2>1. PICK x \in Nat : (K + 2) + x = d
    <3>1. d - (K + 2) \in Nat /\ (K + 2) + (d - (K + 2)) = d
      BY <1>3
    <3> QED BY <3>1
  <2>2. x \in U
    BY <1>12
  <2> QED BY <1>13, <2>1, <2>2
<1> QED BY <1>1, <1>2, <1>3, <1>4, <1>8, <1>13

\* So depth counts what it knows and the root, and the chain holds that.
LEMMA ChainStands ==
  ASSUME NEW cs, NEW S, NEW r, Tree(cs, S, r), NEW n \in DOMAIN cs.nodes
  PROVE  /\ depth(cs, n) = Seen(S, r, n) + 1
         /\ Len(Chain(cs, n)) = Seen(S, r, n) + 1
         /\ DOMAIN Chain(cs, n) = 1..(Seen(S, r, n) + 1)
         /\ \A d \in 0..Seen(S, r, n) :
              /\ Chain(cs, n)[d + 1] \in DOMAIN cs.nodes
              /\ Below(S, n, d, Chain(cs, n)[d + 1])
         /\ Chain(cs, n)[Seen(S, r, n) + 1] = r
         /\ \A d \in 1..Seen(S, r, n) : cs.nodes[Chain(cs, n)[d]].addr = S[n][d]
<1>1. PICK K : K = Seen(S, r, n)
  OBVIOUS
<1>2. PICK p : p = Path(cs, n)
  OBVIOUS
<1>3. PICK L \in Nat : L = Len(cs.nodes) /\ L > 0 /\ K \in 0..(L - 1) /\ NoRef \notin DOMAIN cs.nodes
  BY <1>1, TreeFacts
<1>4. /\ \A d \in 0..K : p[d + 1] \in DOMAIN cs.nodes /\ Below(S, n, d, p[d + 1])
      /\ \A d \in (K + 2)..L : p[d] = NoRef
      /\ DOMAIN p = 1..L
  BY <1>1, <1>2, <1>3, PathStands
<1>5. {d \in DOMAIN p : p[d] # NoRef} = 1..(K + 1)
  <2>1. ASSUME NEW d \in 1..(K + 1) PROVE d \in DOMAIN p /\ p[d] # NoRef
    <3>1. d - 1 \in 0..K /\ (d - 1) + 1 = d /\ d \in 1..L
      BY <1>3
    <3>2. p[d] \in DOMAIN cs.nodes
      BY <1>4, <3>1
    <3> QED BY <1>3, <1>4, <3>1, <3>2
  <2>2. ASSUME NEW d \in DOMAIN p, p[d] # NoRef PROVE d \in 1..(K + 1)
    BY <1>3, <1>4, <2>2
  <2> QED BY <2>1, <2>2
<1>6. depth(cs, n) = K + 1
  <2>1. Cardinality(1..(K + 1)) = K + 1
    BY <1>3, FS_Interval
  <2> QED BY <1>2, <1>5, <2>1 DEF depth
<1>7. PICK c : c = Chain(cs, n)
  OBVIOUS

<1>8. c = [d \in 1..(K + 1) |-> p[d]]
  BY <1>2, <1>6, <1>7 DEF Chain
<1>9. Len(c) = K + 1 /\ DOMAIN c = 1..(K + 1) /\ \A d \in 1..(K + 1) : c[d] = p[d]
  BY <1>3, <1>8
<1>10. ASSUME NEW d \in 0..K PROVE c[d + 1] \in DOMAIN cs.nodes /\ Below(S, n, d, c[d + 1])
  BY <1>3, <1>4, <1>9
<1>11. c[K + 1] = r
  <2>1. c[K + 1] \in DOMAIN cs.nodes /\ Below(S, n, K, c[K + 1])
    BY <1>3, <1>10
  <2>2. Seen(S, r, c[K + 1]) = 0
    <3>1. Len(S[c[K + 1]]) = Len(S[n]) - K
      BY <2>1 DEF Below
    <3>2. Len(S[n]) \in Nat /\ Len(S[r]) \in Nat
      BY TreeFacts
    <3> QED BY <1>1, <3>1, <3>2 DEF Seen
  <2> QED BY <2>1, <2>2, RootLowest
<1>12. ASSUME NEW d \in 1..K PROVE cs.nodes[c[d]].addr = S[n][d]
  <2>1. d - 1 \in 0..K /\ (d - 1) + 1 = d /\ d - 1 < K /\ d - 1 \in Nat
    BY <1>3
  <2>2. c[d] \in DOMAIN cs.nodes /\ Below(S, n, d - 1, c[d])
    BY <1>10, <2>1
  <2>3. cs.nodes[c[d]].addr = S[n][(d - 1) + 1]
    BY <1>1, <2>1, <2>2, ParentBelow
  <2> QED BY <2>1, <2>3
<1> QED BY <1>1, <1>6, <1>7, <1>9, <1>10, <1>11, <1>12

\* Where the comparison of two nodes stops, at the depth D: before that both
\* have a frame, with the same address in different nodes.
StopsAt(cs, S, r, n1, n2, D) ==
  LET c1 == Chain(cs, n1)
      c2 == Chain(cs, n2)
      Both1(i) == i <= Seen(S, r, n1) /\ i <= Seen(S, r, n2)
      Both2(i) == i <= Seen(S, r, n1) + 1 /\ i <= Seen(S, r, n2) + 1
  IN  /\ \A i \in 1..(D - 1) : /\ Both2(i) /\ c1[i] # c2[i]
                               /\ Both1(i) => S[n1][i] = S[n2][i]
      /\ \/ compare(cs, n1, n2) = -1 /\ Both2(D) /\ c1[D] = c2[D]
         \/ /\ compare(cs, n1, n2) = -1
            /\ D > Seen(S, r, n1) + 1 /\ D > Seen(S, r, n2) + 1
         \/ /\ compare(cs, n1, n2) = D - 1
            /\ Both1(D) => S[n1][D] # S[n2][D]
            /\ Both2(D) => c1[D] # c2[D]

\* It stops somewhere.
LEMMA CompareStops ==
  ASSUME NEW cs, NEW S, NEW r, Tree(cs, S, r),
         NEW n1 \in DOMAIN cs.nodes, NEW n2 \in DOMAIN cs.nodes
  PROVE  \E D \in Nat \ {0} : StopsAt(cs, S, r, n1, n2, D)
<1> DEFINE c1 == Chain(cs, n1)
           c2 == Chain(cs, n2)
           K1 == Seen(S, r, n1)
           K2 == Seen(S, r, n2)
           L == Len(cs.nodes)
           nd == cs.nodes
           At(c, d) == IF d \in DOMAIN c THEN c[d] ELSE NoRef
           Stops(d) == \/ At(c1, d) = At(c2, d)
                       \/ At(c1, d) = NoRef \/ At(c2, d) = NoRef
                       \/ nd[c1[d]].addr # nd[c2[d]].addr
           T == {i \in 1..(L + 1) : Stops(i)}
           D == Min(T)
<1>1. compare(cs, n1, n2) = IF At(c1, D) = At(c2, D) THEN -1 ELSE D - 1
  BY DEF compare
<1>2. L \in Nat \ {0} /\ K1 \in 0..(L - 1) /\ K2 \in 0..(L - 1) /\ NoRef \notin DOMAIN nd
  BY TreeFacts
<1>3. /\ DOMAIN c1 = 1..(K1 + 1)
      /\ \A d \in 0..K1 : c1[d + 1] \in DOMAIN nd
      /\ \A d \in 1..K1 : nd[c1[d]].addr = S[n1][d]
  BY ChainStands
<1>4. /\ DOMAIN c2 = 1..(K2 + 1)
      /\ \A d \in 0..K2 : c2[d + 1] \in DOMAIN nd
      /\ \A d \in 1..K2 : nd[c2[d]].addr = S[n2][d]
  BY ChainStands
<1> HIDE DEF c1, c2, K1, K2, L, nd
<1>5. /\ \A i \in 1..(K1 + 1) : At(c1, i) = c1[i] /\ c1[i] \in DOMAIN nd
      /\ \A i \in Nat : i > K1 + 1 => At(c1, i) = NoRef
  <2>1. ASSUME NEW i \in 1..(K1 + 1) PROVE At(c1, i) = c1[i] /\ c1[i] \in DOMAIN nd
    <3>1. i - 1 \in 0..K1 /\ (i - 1) + 1 = i
      BY <1>2
    <3> QED BY <1>3, <3>1
  <2> QED BY <1>2, <1>3, <2>1
<1>6. /\ \A i \in 1..(K2 + 1) : At(c2, i) = c2[i] /\ c2[i] \in DOMAIN nd
      /\ \A i \in Nat : i > K2 + 1 => At(c2, i) = NoRef
  <2>1. ASSUME NEW i \in 1..(K2 + 1) PROVE At(c2, i) = c2[i] /\ c2[i] \in DOMAIN nd
    <3>1. i - 1 \in 0..K2 /\ (i - 1) + 1 = i
      BY <1>2
    <3> QED BY <1>4, <3>1
  <2> QED BY <1>2, <1>4, <2>1
<1>7. D \in T /\ \A y \in T : D <= y
  <2>1. T \in SUBSET Nat
    BY <1>2
  <2>2. L + 1 \in T
    <3>1. L + 1 \in 1..(L + 1) /\ L + 1 > K1 + 1
      BY <1>2
    <3>2. At(c1, L + 1) = NoRef
      BY <1>2, <1>5, <3>1
    <3> QED BY <3>1, <3>2
  <2> HIDE DEF T
  <2> QED BY <2>1, <2>2, LeastOne
<1>8. D \in 1..(L + 1) /\ Stops(D)
  BY <1>7
<1> HIDE DEF D
<1>9. ASSUME NEW i \in 1..(D - 1)
      PROVE  /\ i <= K1 + 1 /\ i <= K2 + 1 /\ c1[i] # c2[i]
             /\ nd[c1[i]].addr = nd[c2[i]].addr
  <2>1. i \in 1..(L + 1) /\ i < D /\ i \in Nat
    BY <1>2, <1>8
  <2>2. ~ Stops(i)
    <3>1. i \notin T
      <4> HIDE DEF T
      <4> QED BY <1>7, <1>8, <2>1
    <3> QED BY <2>1, <3>1
  <2>3. i <= K1 + 1 /\ i <= K2 + 1
    BY <1>2, <1>5, <1>6, <2>1, <2>2
  <2> QED BY <1>2, <1>5, <1>6, <2>1, <2>2, <2>3
<1>10. ASSUME NEW i \in 1..(D - 1), i <= K1, i <= K2 PROVE S[n1][i] = S[n2][i]
  <2>1. i \in 1..K1 /\ i \in 1..K2
    BY <1>2, <1>8, <1>10
  <2> QED BY <1>3, <1>4, <1>9, <2>1
<1>11. CASE At(c1, D) = At(c2, D) /\ D <= K1 + 1
  <2>1. At(c1, D) = c1[D] /\ c1[D] # NoRef
    BY <1>2, <1>5, <1>8, <1>11
  <2>2. D <= K2 + 1
    BY <1>2, <1>6, <1>8, <1>11, <2>1
  <2>3. At(c2, D) = c2[D]
    BY <1>2, <1>6, <1>8, <2>2
  <2>4. compare(cs, n1, n2) = -1 /\ c1[D] = c2[D]
    BY <1>1, <1>11, <2>1, <2>3
  <2>5. StopsAt(cs, S, r, n1, n2, D)
    BY <1>9, <1>10, <1>11, <2>2, <2>4 DEF StopsAt, c1, c2, K1, K2
  <2> QED BY <1>2, <1>8, <2>5
<1>12. CASE At(c1, D) = At(c2, D) /\ ~ (D <= K1 + 1)
  <2>1. At(c1, D) = NoRef /\ D > K1 + 1
    BY <1>2, <1>5, <1>8, <1>12
  <2>2. D > K2 + 1
    BY <1>2, <1>6, <1>8, <1>12, <2>1
  <2>3. compare(cs, n1, n2) = -1
    BY <1>1, <1>12
  <2>4. StopsAt(cs, S, r, n1, n2, D)
    BY <1>9, <1>10, <2>1, <2>2, <2>3 DEF StopsAt, c1, c2, K1, K2
  <2> QED BY <1>2, <1>8, <2>4
<1>13. CASE At(c1, D) # At(c2, D)
  <2>1. compare(cs, n1, n2) = D - 1
    BY <1>1, <1>13
  <2>2. ASSUME D <= K1 + 1, D <= K2 + 1 PROVE c1[D] # c2[D]
    BY <1>2, <1>5, <1>6, <1>8, <1>13, <2>2
  <2>3. ASSUME D <= K1, D <= K2 PROVE S[n1][D] # S[n2][D]
    <3>1. D \in 1..(K1 + 1) /\ D \in 1..(K2 + 1) /\ D \in 1..K1 /\ D \in 1..K2
      BY <1>2, <1>8, <2>3
    <3>2. At(c1, D) # NoRef /\ At(c2, D) # NoRef
      BY <1>2, <1>5, <1>6, <3>1
    <3>3. nd[c1[D]].addr # nd[c2[D]].addr
      BY <1>8, <1>13, <3>2
    <3> QED BY <1>3, <1>4, <3>1, <3>3
  <2>4. StopsAt(cs, S, r, n1, n2, D)
    BY <1>9, <1>10, <2>1, <2>2, <2>3 DEF StopsAt, c1, c2, K1, K2
  <2> QED BY <1>2, <1>8, <2>4
<1> QED BY <1>11, <1>12, <1>13

\* If it finds no difference in the first k frames, there is none.
LEMMA CompareAgrees ==
  ASSUME NEW cs, NEW S, NEW r, Tree(cs, S, r),
         NEW n1 \in DOMAIN cs.nodes, NEW n2 \in DOMAIN cs.nodes,
         NEW k \in Nat, k <= Seen(S, r, n1), k <= Seen(S, r, n2),
         compare(cs, n1, n2) = -1 \/ compare(cs, n1, n2) >= k,
         NEW i \in 1..k
  PROVE  S[n1][i] = S[n2][i]
<1> DEFINE c1 == Chain(cs, n1)
           c2 == Chain(cs, n2)
           K1 == Seen(S, r, n1)
           K2 == Seen(S, r, n2)
<1>1. PICK D \in Nat \ {0} : StopsAt(cs, S, r, n1, n2, D)
  BY CompareStops
<1>2. K1 \in Nat /\ K2 \in Nat /\ k <= K1 /\ k <= K2
  BY TreeFacts
<1>3. /\ \A d \in 0..K1 : Below(S, n1, d, c1[d + 1])
      /\ \A d \in 0..K2 : Below(S, n2, d, c2[d + 1])
  BY ChainStands
<1>4. /\ Len(S[n1]) \in Nat /\ Len(S[n2]) \in Nat /\ Len(S[r]) \in Nat
      /\ K1 = Len(S[n1]) - Len(S[r]) /\ K2 = Len(S[n2]) - Len(S[r])
  BY TreeFacts DEF Seen
<1> HIDE DEF c1, c2, K1, K2
<1>5. CASE i < D
  <2>1. i \in 1..(D - 1) /\ i <= K1 /\ i <= K2
    BY <1>2, <1>5
  <2> QED BY <1>1, <2>1 DEF StopsAt, c1, c2, K1, K2
<1>6. CASE ~ (i < D)
  <2>1. D <= i /\ i <= K1 /\ D <= k
    BY <1>2, <1>6
  <2>2. compare(cs, n1, n2) # D - 1 \/ D - 1 = -1
    BY <2>1
  <2>3. compare(cs, n1, n2) # D - 1
    BY <2>1
  <2>4. D <= K1 + 1 /\ D <= K2 + 1 /\ c1[D] = c2[D]
    <3>1. ~ (D > K1 + 1)
      BY <1>2, <2>1
    <3> QED BY <1>1, <2>3, <3>1 DEF StopsAt, c1, c2, K1, K2
  <2>5. PICK q : q = c1[D]
    OBVIOUS
  <2>6. PICK e \in Nat : e = D - 1 /\ e + 1 = D /\ e \in 0..K1 /\ e \in 0..K2
    <3>1. D - 1 \in Nat /\ (D - 1) + 1 = D /\ D - 1 \in 0..K1 /\ D - 1 \in 0..K2
      BY <1>2, <2>1
    <3> QED BY <3>1
  <2>7. Below(S, n1, e, q) /\ Below(S, n2, e, q)
    BY <1>3, <2>4, <2>5, <2>6
  <2>8. Len(S[q]) = Len(S[n1]) - e
    BY <2>7 DEF Below
  <2>9. i - e \in 1..Len(S[q]) /\ (i - e) + e = i
    <3>1. PICK x \in Nat, y \in Nat : x = Len(S[n1]) /\ y = Len(S[r])
      BY <1>4
    <3>2. K1 = x - y
      BY <1>4, <3>1
    <3>3. K1 <= x
      <4>1. x - y <= x
        OBVIOUS
      <4> QED BY <3>2, <4>1
    <3>4. e < i /\ i <= x /\ i \in Nat
      BY <1>2, <2>1, <2>6, <3>3
    <3>5. i - e \in 1..(x - e) /\ (i - e) + e = i
      BY <3>4
    <3> QED BY <2>8, <3>1, <3>5
  <2> QED BY <2>7, <2>9 DEF Below
<1> QED BY <1>5, <1>6

\* The nodes of one stack do not differ.
LEMMA CompareSame ==
  ASSUME NEW cs, NEW S, NEW r, Tree(cs, S, r),
         NEW n1 \in DOMAIN cs.nodes, NEW n2 \in DOMAIN cs.nodes, S[n1] = S[n2]
  PROVE  compare(cs, n1, n2) = -1
<1> DEFINE c1 == Chain(cs, n1)
           c2 == Chain(cs, n2)
           K == Seen(S, r, n1)
<1>1. PICK D \in Nat \ {0} : StopsAt(cs, S, r, n1, n2, D)
  BY CompareStops
<1>2. K \in Nat /\ Seen(S, r, n2) = K
  <2>1. K \in Nat
    BY TreeFacts
  <2> QED BY <2>1 DEF Seen
<1>3. c1[K + 1] = r /\ c2[K + 1] = r
  BY <1>2, ChainStands
<1> HIDE DEF c1, c2, K
<1>4. D <= K + 1
  <2> SUFFICES ASSUME D > K + 1 PROVE FALSE
    BY <1>2
  <2>1. K + 1 \in 1..(D - 1)
    BY <1>2
  <2>2. c1[K + 1] # c2[K + 1]
    BY <1>1, <2>1 DEF StopsAt, c1, c2, K
  <2> QED BY <1>3, <2>2
<1>5. CASE compare(cs, n1, n2) = D - 1
  <2>1. D \in 1..(K + 1)
    BY <1>2, <1>4
  <2>2. compare(cs, n1, n2) # -1
    BY <1>5
  <2>3. (D <= K => S[n1][D] # S[n2][D]) /\ c1[D] # c2[D]
    <3>1. D <= Seen(S, r, n1) + 1 /\ D <= Seen(S, r, n2) + 1
      BY <1>2, <1>4 DEF K
    <3>2. ~ (D > Seen(S, r, n1) + 1)
      BY <1>2, <1>4 DEF K
    <3> QED BY <1>1, <1>2, <1>5, <2>2, <3>1, <3>2 DEF StopsAt, c1, c2, K
  <2>4. D = K + 1
    BY <1>2, <2>1, <2>3
  <2> QED BY <1>3, <2>3, <2>4
<1>6. CASE compare(cs, n1, n2) # D - 1
  BY <1>1, <1>6 DEF StopsAt
<1> QED BY <1>5, <1>6

\* The nodes of cs stand for the same stacks as in the smaller tree.
Extends(cs0, S0, cs, S) ==
  \A n \in DOMAIN cs0.nodes : n \in DOMAIN cs.nodes /\ S[n] = S0[n]

\* CallStack::reset
LEMMA EmptyTree ==
  ASSUME NEW s \in Seq(ReturnAddrs)
  PROVE  \E S : Tree(EmptyCalls, S, 1) /\ S[EmptyCalls.curr] = s
<1>1. PICK nodes : nodes = <<Node(NoRef, NoAddr)>>
  OBVIOUS
<1>2. PICK S : S = [n \in 1..1 |-> s]
  OBVIOUS
<1>3. EmptyCalls.nodes = nodes /\ EmptyCalls.curr = 1
  BY <1>1 DEF EmptyCalls
<1>4. Node(NoRef, NoAddr) \in CallNodes /\ Node(NoRef, NoAddr).parent = NoRef
  BY DEF Node, CallNodes, NoRef
<1>5. nodes \in Seq(CallNodes) /\ Len(nodes) = 1 /\ DOMAIN nodes = 1..1 /\ nodes[1].parent = NoRef
  BY <1>1, <1>4
<1>6. S \in [1..1 -> Seq(ReturnAddrs)] /\ S[1] = s /\ Len(s) \in Nat
  BY <1>2
<1> QED BY <1>3, <1>5, <1>6 DEF Tree

\* pushFrame
LEMMA PushTree ==
  ASSUME NEW cs, NEW S, NEW r, Tree(cs, S, r), NEW ret \in ReturnAddrs
  PROVE  \E S2 : /\ Tree(pushFrame(cs, ret), S2, r)
                 /\ S2[pushFrame(cs, ret).curr] = <<ret>> \o S[cs.curr]
                 /\ Extends(cs, S, pushFrame(cs, ret), S2)
<1>1. PICK c2 : c2 = pushFrame(cs, ret)
  OBVIOUS
<1>2. PICK L : L = Len(cs.nodes)
  OBVIOUS
<1>3. PICK new : new = Node(cs.curr, ret)
  OBVIOUS
<1>4. PICK s : s = <<ret>> \o S[cs.curr]
  OBVIOUS
<1>5. PICK S2 : S2 = [n \in 1..(L + 1) |-> IF n = L + 1 THEN s ELSE S[n]]
  OBVIOUS
<1>6. /\ cs.nodes \in Seq(CallNodes) /\ cs.curr \in DOMAIN cs.nodes
      /\ S \in [DOMAIN cs.nodes -> Seq(ReturnAddrs)] /\ r \in DOMAIN cs.nodes
      /\ cs.nodes[r].parent = NoRef
  BY DEF Tree
<1>7. L \in Nat \ {0} /\ DOMAIN cs.nodes = 1..L /\ cs.curr \in Nat
  BY <1>2, <1>6, TreeFacts
<1>8. new \in CallNodes /\ new.parent = cs.curr /\ new.addr = ret
  BY <1>3, <1>7 DEF Node, CallNodes
<1>9. c2.nodes = Append(cs.nodes, new) /\ c2.curr = L + 1
  BY <1>1, <1>2, <1>3 DEF pushFrame
<1>10. /\ c2.nodes \in Seq(CallNodes) /\ Len(c2.nodes) = L + 1 /\ DOMAIN c2.nodes = 1..(L + 1)
       /\ c2.nodes[L + 1] = new /\ \A n \in 1..L : c2.nodes[n] = cs.nodes[n]
  BY <1>2, <1>6, <1>7, <1>8, <1>9
<1>11. /\ S[cs.curr] \in Seq(ReturnAddrs) /\ s \in Seq(ReturnAddrs) /\ s # << >>
       /\ Head(s) = ret /\ Tail(s) = S[cs.curr]
       /\ Len(s) = Len(S[cs.curr]) + 1 /\ Len(S[cs.curr]) \in Nat
  BY <1>4, <1>6
<1>12. /\ S2 \in [1..(L + 1) -> Seq(ReturnAddrs)] /\ S2[L + 1] = s
       /\ \A n \in 1..L : S2[n] = S[n]
  BY <1>5, <1>6, <1>7, <1>11
<1>13. ASSUME NEW n \in 1..(L + 1), n # r
       PROVE  /\ c2.nodes[n].parent \in DOMAIN c2.nodes
              /\ S2[n] # << >> /\ c2.nodes[n].addr = Head(S2[n])
              /\ S2[c2.nodes[n].parent] = Tail(S2[n])
  <2>1. CASE n = L + 1
    <3>1. c2.nodes[n] = new /\ S2[n] = s
      BY <1>10, <1>12, <2>1
    <3>2. cs.curr \in 1..L /\ cs.curr \in 1..(L + 1)
      BY <1>6, <1>7
    <3>3. S2[cs.curr] = S[cs.curr]
      BY <1>12, <3>2
    <3> QED BY <1>8, <1>10, <1>11, <3>1, <3>2, <3>3
  <2>2. CASE n # L + 1
    <3>1. n \in 1..L
      BY <1>7, <2>2
    <3>2. /\ cs.nodes[n].parent \in 1..L /\ S[n] # << >> /\ cs.nodes[n].addr = Head(S[n])
          /\ S[cs.nodes[n].parent] = Tail(S[n])
      BY <1>7, <1>13, <3>1 DEF Tree
    <3>3. c2.nodes[n] = cs.nodes[n] /\ S2[n] = S[n] /\ 1..L \subseteq 1..(L + 1)
      BY <1>7, <1>10, <1>12, <3>1
    <3> QED BY <1>10, <1>12, <3>2, <3>3
  <2> QED BY <2>1, <2>2
<1>14. ASSUME NEW n \in 1..(L + 1)
       PROVE  Len(S2[r]) <= Len(S2[n]) /\ Len(S2[n]) - Len(S2[r]) < L + 1
  <2>1. S2[r] = S[r] /\ Len(S[r]) \in Nat
    BY <1>6, <1>7, <1>12, TreeFacts
  <2>2. CASE n = L + 1
    <3>1. Len(S[r]) <= Len(S[cs.curr]) /\ Len(S[cs.curr]) - Len(S[r]) < L
      BY <1>2, <1>6 DEF Tree
    <3>2. S2[n] = s
      BY <1>12, <2>2
    <3>3. PICK x \in Nat, y \in Nat : x = Len(S[r]) /\ y = Len(S[cs.curr])
      BY <1>11, <2>1
    <3>4. x <= y /\ y - x < L
      BY <3>1, <3>3
    <3>5. x <= y + 1 /\ (y + 1) - x < L + 1
      BY <1>7, <3>4
    <3> QED BY <1>11, <2>1, <3>2, <3>3, <3>5
  <2>3. CASE n # L + 1
    <3>1. n \in 1..L
      BY <1>7, <2>3
    <3>2. Len(S[r]) <= Len(S[n]) /\ Len(S[n]) - Len(S[r]) < L /\ Len(S[n]) \in Nat
      <4>1. Len(S[r]) <= Len(S[n]) /\ Len(S[n]) - Len(S[r]) < L
        BY <1>2, <1>7, <3>1 DEF Tree
      <4> QED BY <1>7, <3>1, <4>1, TreeFacts
    <3>3. S2[n] = S[n]
      BY <1>12, <3>1
    <3>4. PICK x \in Nat, y \in Nat : x = Len(S[r]) /\ y = Len(S[n])
      BY <2>1, <3>2
    <3>5. x <= y /\ y - x < L
      BY <3>2, <3>4
    <3>6. y - x < L + 1
      BY <1>7, <3>5
    <3> QED BY <2>1, <3>3, <3>4, <3>5, <3>6
  <2> QED BY <2>2, <2>3
<1>15. r \in 1..(L + 1) /\ c2.nodes[r].parent = NoRef /\ c2.curr \in 1..(L + 1)
  BY <1>6, <1>7, <1>9, <1>10
<1>16. Tree(c2, S2, r)
  BY <1>10, <1>12, <1>13, <1>14, <1>15 DEF Tree
<1>17. Extends(cs, S, c2, S2)
  BY <1>7, <1>10, <1>12 DEF Extends
<1>18. S2[c2.curr] = s
  BY <1>9, <1>12
<1> QED BY <1>1, <1>4, <1>16, <1>17, <1>18

\* returnTo above the root: the parent becomes the current frame.
LEMMA PopTree ==
  ASSUME NEW cs, NEW S, NEW r, Tree(cs, S, r), cs.curr # r, NEW a
  PROVE  /\ Tree(returnTo(cs, a), S, r)
         /\ S[returnTo(cs, a).curr] = Tail(S[cs.curr])
         /\ Extends(cs, S, returnTo(cs, a), S)
<1>1. PICK c2 : c2 = returnTo(cs, a)
  OBVIOUS
<1>2. cs.curr \in DOMAIN cs.nodes
  BY DEF Tree
<1>3. cs.nodes[cs.curr].parent \in DOMAIN cs.nodes /\ S[cs.nodes[cs.curr].parent] = Tail(S[cs.curr])
  BY <1>2 DEF Tree
<1>4. cs.nodes[cs.curr].parent # NoRef
  BY <1>3, TreeFacts
<1>5. c2.nodes = cs.nodes /\ c2.curr = cs.nodes[cs.curr].parent
  BY <1>1, <1>4 DEF returnTo
<1>6. Tree(c2, S, r)
  BY <1>3, <1>5 DEF Tree
<1>7. Extends(cs, S, c2, S)
  BY <1>5 DEF Extends
<1> QED BY <1>1, <1>3, <1>5, <1>6, <1>7

\* returnTo at the root: the frame is learnt, and a new root stands for what
\* is below it.
LEMMA LearnTree ==
  ASSUME NEW cs, NEW S, NEW r, Tree(cs, S, r), cs.curr = r, S[r] # << >>
  PROVE  LET c2 == returnTo(cs, Head(S[r]))
         IN  \E S2, r2 : /\ Tree(c2, S2, r2)
                         /\ S2[c2.curr] = Tail(S[cs.curr])
                         /\ Extends(cs, S, c2, S2)
<1>1. PICK L : L = Len(cs.nodes)
  OBVIOUS
<1>2. PICK a : a = Head(S[r])
  OBVIOUS
<1>3. PICK c2 : c2 = returnTo(cs, a)
  OBVIOUS
<1>4. PICK new : new = Node(L + 1, a)
  OBVIOUS
<1>5. PICK root : root = Node(NoRef, NoAddr)
  OBVIOUS
<1>6. PICK s : s = Tail(S[r])
  OBVIOUS
<1>7. PICK S2 : S2 = [n \in 1..(L + 1) |-> IF n = L + 1 THEN s ELSE S[n]]
  OBVIOUS
<1>8. /\ cs.nodes \in Seq(CallNodes) /\ S \in [DOMAIN cs.nodes -> Seq(ReturnAddrs)]
      /\ r \in DOMAIN cs.nodes /\ cs.nodes[r].parent = NoRef
  BY DEF Tree
<1>9. L \in Nat \ {0} /\ DOMAIN cs.nodes = 1..L
  BY <1>1, <1>8, TreeFacts
<1>10. /\ S[r] \in Seq(ReturnAddrs) /\ a \in ReturnAddrs /\ s \in Seq(ReturnAddrs)
       /\ Len(S[r]) = Len(s) + 1 /\ Len(s) \in Nat
  BY <1>2, <1>6, <1>8
<1>11. /\ new \in CallNodes /\ new.parent = L + 1 /\ new.addr = a
       /\ root \in CallNodes /\ root.parent = NoRef
  BY <1>4, <1>5, <1>9, <1>10 DEF Node, CallNodes, NoRef
<1>12. PICK mid : mid = [cs.nodes EXCEPT ![r] = new]
  OBVIOUS
<1>13. /\ mid \in Seq(CallNodes) /\ Len(mid) = L /\ mid[r] = new
       /\ \A n \in 1..L : n # r => mid[n] = cs.nodes[n]
  BY <1>1, <1>8, <1>9, <1>11, <1>12
<1>14. PICK nodes : nodes = Append(mid, root)
  OBVIOUS
<1>15. /\ nodes \in Seq(CallNodes) /\ Len(nodes) = L + 1 /\ DOMAIN nodes = 1..(L + 1)
       /\ nodes[L + 1] = root /\ nodes[r] = new
       /\ \A n \in 1..L : n # r => nodes[n] = cs.nodes[n]
  <2>1. /\ nodes \in Seq(CallNodes) /\ Len(nodes) = L + 1 /\ DOMAIN nodes = 1..(L + 1)
        /\ nodes[L + 1] = root /\ \A n \in 1..L : nodes[n] = mid[n]
    BY <1>9, <1>11, <1>13, <1>14
  <2> QED BY <1>8, <1>9, <1>13, <2>1
<1>16. c2.nodes = nodes /\ c2.curr = L + 1
  <2>1. c2.nodes = nodes /\ c2.curr = nodes[r].parent
    BY <1>1, <1>3, <1>4, <1>5, <1>8, <1>12, <1>14 DEF returnTo
  <2> QED BY <1>11, <1>15, <2>1
<1>17. /\ S2 \in [1..(L + 1) -> Seq(ReturnAddrs)] /\ S2[L + 1] = s
       /\ \A n \in 1..L : S2[n] = S[n]
  BY <1>7, <1>8, <1>9, <1>10
<1>18. ASSUME NEW n \in 1..(L + 1), n # L + 1
       PROVE  /\ nodes[n].parent \in 1..(L + 1)
              /\ S2[n] # << >> /\ nodes[n].addr = Head(S2[n])
              /\ S2[nodes[n].parent] = Tail(S2[n])
  <2>1. n \in 1..L
    BY <1>9, <1>18
  <2>2. CASE n = r
    <3>1. nodes[n].parent = L + 1 /\ nodes[n].addr = a /\ S2[n] = S[r]
      BY <1>11, <1>15, <1>17, <2>1, <2>2
    <3> QED BY <1>2, <1>6, <1>9, <1>17, <3>1
  <2>3. CASE n # r
    <3>1. /\ cs.nodes[n].parent \in 1..L /\ S[n] # << >> /\ cs.nodes[n].addr = Head(S[n])
          /\ S[cs.nodes[n].parent] = Tail(S[n])
      BY <1>9, <2>1, <2>3 DEF Tree
    <3>2. nodes[n] = cs.nodes[n] /\ S2[n] = S[n] /\ 1..L \subseteq 1..(L + 1)
      BY <1>9, <1>15, <1>17, <2>1, <2>3
    <3> QED BY <1>17, <3>1, <3>2
  <2> QED BY <2>2, <2>3
<1>19. ASSUME NEW n \in 1..(L + 1)
       PROVE  Len(s) <= Len(S2[n]) /\ Len(S2[n]) - Len(s) < L + 1
  <2>1. CASE n = L + 1
    BY <1>9, <1>10, <1>17, <2>1
  <2>2. CASE n # L + 1
    <3>1. n \in 1..L
      BY <1>9, <2>2
    <3>2. Len(S[r]) <= Len(S[n]) /\ Len(S[n]) - Len(S[r]) < L
      BY <1>1, <1>9, <3>1 DEF Tree
    <3>3. S2[n] = S[n] /\ Len(S[n]) \in Nat
      BY <1>9, <1>17, <3>1, TreeFacts
    <3> QED BY <1>9, <1>10, <3>2, <3>3
  <2> QED BY <2>1, <2>2
<1>20. L + 1 \in 1..(L + 1)
  BY <1>9
<1>21. Tree(c2, S2, L + 1)
  BY <1>11, <1>15, <1>16, <1>17, <1>18, <1>19, <1>20 DEF Tree
<1>22. Extends(cs, S, c2, S2)
  BY <1>9, <1>15, <1>16, <1>17 DEF Extends
<1>23. S2[c2.curr] = Tail(S[cs.curr])
  BY <1>6, <1>16, <1>17
<1> QED BY <1>2, <1>3, <1>21, <1>22, <1>23

BtbEntries == [pc : FunctionPcs \cup ReturnAddrs, node : Nat]

\* Each entry has the node of the stack at its branch.
VisitsInv(cs, S) ==
  /\ btb \in Seq(BtbEntries) /\ stackAt \in Seq(Seq(ReturnAddrs)) /\ lowest \in Seq(Nat)
  /\ Len(stackAt) = Len(btb) /\ Len(lowest) = Len(btb)
  /\ \A e \in DOMAIN btb : btb[e].node \in DOMAIN cs.nodes /\ stackAt[e] = S[btb[e].node]

\* While recording, the lowest stacks are at entries of the buffer.
LowestInv ==
  verdict = -1 =>
    \A e \in DOMAIN btb :
      /\ lowest[e] <= Len(stack)
      /\ \A j \in e..Len(btb) : lowest[e] <= Len(stackAt[j])
      /\ \E j \in e..Len(btb) : lowest[e] = Len(stackAt[j])

LoopInv ==
  /\ verdict \in Int
  /\ \E S, r : Tree(calls, S, r) /\ stack = S[calls.curr] /\ VisitsInv(calls, S)
  /\ LowestInv /\ OnlyTrueLoops /\ NoMissedLoop

\* The least of two integers.
LEMMA MinTwo ==
  ASSUME NEW a \in Int, NEW b \in Int
  PROVE  Min({a, b}) = IF a <= b THEN a ELSE b
<1>1. CASE a <= b
  <2>1. a \in {a, b} /\ \A y \in {a, b} : a <= y
    BY <1>1
  <2>2. ASSUME NEW x \in {a, b}, \A y \in {a, b} : x <= y PROVE x = a
    BY <1>1, <2>2
  <2> QED BY <1>1, <2>1, <2>2 DEF Min
<1>2. CASE ~ (a <= b)
  <2>1. b \in {a, b} /\ \A y \in {a, b} : b <= y
    BY <1>2
  <2>2. ASSUME NEW x \in {a, b}, \A y \in {a, b} : x <= y PROVE x = b
    BY <1>2, <2>2
  <2> QED BY <1>2, <2>1, <2>2 DEF Min
<1> QED BY <1>1, <1>2

\* The same, of two integers whose order is known.
LEMMA MinOfTwo ==
  ASSUME NEW a \in Int, NEW b \in Int
  PROVE  (a <= b => Min({a, b}) = a) /\ (b <= a => Min({a, b}) = b)
<1>1. Min({a, b}) = IF a <= b THEN a ELSE b
  BY MinTwo
<1> QED BY <1>1

\* A loop that isTrueLoop finds is one: the frames above the lowest stack
\* since the entry agree.
LEMMA FoundLoop ==
  ASSUME NEW cs, NEW S, NEW r, Tree(cs, S, r), VisitsInv(cs, S),
         NEW e \in DOMAIN btb, NEW low \in Nat, LoopsTo(cs, btb, e),
         \A j \in e..Len(btb) : low <= Len(stackAt[j]),
         \E j \in e..Len(btb) : low = Len(stackAt[j])
  PROVE  LET k == Min({Len(stackAt[e]), Len(S[cs.curr])}) - Min({low, Len(S[cs.curr])})
         IN  SubSeq(stackAt[e], 1, k) = SubSeq(S[cs.curr], 1, k)
<1>1. PICK n1 : n1 = btb[e].node
  OBVIOUS
<1>2. PICK n2 : n2 = cs.curr
  OBVIOUS
<1>3. /\ btb \in Seq(BtbEntries) /\ Len(btb) \in Nat /\ DOMAIN btb = 1..Len(btb)
      /\ \A j \in DOMAIN btb : btb[j].node \in DOMAIN cs.nodes /\ stackAt[j] = S[btb[j].node]
  BY DEF VisitsInv
<1>4. n1 \in DOMAIN cs.nodes /\ n2 \in DOMAIN cs.nodes /\ stackAt[e] = S[n1]
  BY <1>1, <1>2, <1>3 DEF Tree
<1>5. PICK h1 \in Nat, h2 \in Nat, low0 \in Nat :
        h1 = Len(S[n1]) /\ h2 = Len(S[n2]) /\ low0 = Len(S[r])
  BY <1>4, TreeFacts
<1>6. S[n1] \in Seq(ReturnAddrs) /\ S[n2] \in Seq(ReturnAddrs)
  BY <1>4, TreeFacts
<1>7. Seen(S, r, n1) = h1 - low0 /\ Seen(S, r, n2) = h2 - low0
  BY <1>5 DEF Seen
<1>8. depth(cs, n1) = (h1 - low0) + 1 /\ depth(cs, n2) = (h2 - low0) + 1
  BY <1>4, <1>7, ChainStands
<1>9. \A j \in e..Len(btb) : j \in DOMAIN btb
  BY <1>3
<1>10. ASSUME NEW j \in e..Len(btb)
       PROVE  /\ depth(cs, btb[j].node) = (Len(stackAt[j]) - low0) + 1
              /\ Len(stackAt[j]) \in Nat /\ low0 <= Len(stackAt[j])
  <2>1. btb[j].node \in DOMAIN cs.nodes /\ stackAt[j] = S[btb[j].node]
    BY <1>3, <1>9
  <2>2. depth(cs, btb[j].node) = Seen(S, r, btb[j].node) + 1
    BY <2>1, ChainStands
  <2>3. Len(S[r]) <= Len(S[btb[j].node])
    BY <2>1 DEF Tree
  <2> QED BY <1>5, <2>1, <2>2, <2>3, TreeFacts DEF Seen
<1>11. PICK j0 \in e..Len(btb) : low = Len(stackAt[j0])
  OBVIOUS
<1>12. low0 <= low
  BY <1>10, <1>11
<1> DEFINE T == {depth(cs, btb[j].node) : j \in e..Len(btb)}
<1>13. Min(T) = (low - low0) + 1
  <2>1. T \in SUBSET Nat
    <3>1. ASSUME NEW j \in e..Len(btb) PROVE depth(cs, btb[j].node) \in Nat
      <4>1. PICK h \in Nat : h = Len(stackAt[j])
        BY <1>10
      <4>2. low0 <= h /\ depth(cs, btb[j].node) = (h - low0) + 1
        BY <1>10, <4>1
      <4> QED BY <4>2
    <3> QED BY <3>1
  <2>2. (low - low0) + 1 \in T
    BY <1>10, <1>11
  <2>3. \A y \in T : (low - low0) + 1 <= y
    <3>1. ASSUME NEW j \in e..Len(btb) PROVE (low - low0) + 1 <= depth(cs, btb[j].node)
      <4>1. PICK h \in Nat : h = Len(stackAt[j])
        BY <1>10
      <4>2. low <= h /\ depth(cs, btb[j].node) = (h - low0) + 1
        BY <1>10, <4>1
      <4> QED BY <4>2
    <3> QED BY <3>1
  <2> HIDE DEF T
  <2>4. Min(T) \in T /\ \A y \in T : Min(T) <= y
    BY <2>1, <2>2, LeastOne
  <2>5. Min(T) \in Nat /\ (low - low0) + 1 \in Nat
    BY <2>1, <2>2, <2>4
  <2>6. Min(T) <= (low - low0) + 1 /\ (low - low0) + 1 <= Min(T)
    BY <2>2, <2>3, <2>4
  <2> QED BY <2>5, <2>6
<1> DEFINE m == (low - low0) + 1
           k1 == (h1 - low0) + 1
           k2 == (h2 - low0) + 1
           kc == IF k2 < m THEN k1 - m ELSE Min({k1 - m, k2 - m})
           k == Min({h1, h2}) - Min({low, h2})
<1>14. compare(cs, n1, n2) = -1 \/ compare(cs, n1, n2) >= kc
  BY <1>1, <1>2, <1>8, <1>13 DEF LoopsTo
<1>15. low <= h1
  <2>1. e \in e..Len(btb)
    BY <1>3
  <2> QED BY <1>4, <1>5, <2>1
<1>16. SubSeq(S[n1], 1, k) = SubSeq(S[n2], 1, k)
  <2>1. CASE h2 < low
    <3>1. k = 0
      <4>1. h2 <= h1 /\ h2 <= low /\ {h1, h2, low} \subseteq Int
        BY <1>15, <2>1
      <4>2. Min({h1, h2}) = h2 /\ Min({low, h2}) = h2
        BY <4>1, MinOfTwo
      <4> QED BY <4>2
    <3> HIDE DEF k
    <3>2. SubSeq(S[n1], 1, 0) = << >> /\ SubSeq(S[n2], 1, 0) = << >>
      BY <1>6
    <3> QED BY <3>1, <3>2
  <2>2. CASE ~ (h2 < low)
    <3>0. low <= h2 /\ {h1, h2, low, h1 - low, h2 - low} \subseteq Int
      BY <2>2
    <3>1. Min({low, h2}) = low
      BY <3>0, MinOfTwo
    <3>2. kc = k /\ k \in Nat /\ k <= h1 - low0 /\ k <= h2 - low0 /\ k <= h1 /\ k <= h2
      <4>1. ~ (k2 < m) /\ k1 - m = h1 - low /\ k2 - m = h2 - low
        BY <2>2
      <4>2. kc = Min({h1 - low, h2 - low})
        BY <4>1
      <4>3. CASE h1 <= h2
        <5>0. h1 - low <= h2 - low
          BY <4>3
        <5>1. Min({h1, h2}) = h1 /\ Min({h1 - low, h2 - low}) = h1 - low
          BY <3>0, <4>3, <5>0, MinOfTwo
        <5>2. kc = h1 - low /\ k = h1 - low
          BY <3>1, <4>2, <5>1
        <5>3. /\ h1 - low \in Nat /\ h1 - low <= h1 - low0 /\ h1 - low <= h2 - low0
              /\ h1 - low <= h1 /\ h1 - low <= h2
          BY <1>12, <1>15, <4>3
        <5> HIDE DEF k, kc
        <5> QED BY <5>2, <5>3
      <4>4. CASE ~ (h1 <= h2)
        <5>0. h2 <= h1 /\ h2 - low <= h1 - low
          BY <4>4
        <5>1. Min({h1, h2}) = h2 /\ Min({h1 - low, h2 - low}) = h2 - low
          BY <3>0, <5>0, MinOfTwo
        <5>2. kc = h2 - low /\ k = h2 - low
          BY <3>1, <4>2, <5>1
        <5>3. /\ h2 - low \in Nat /\ h2 - low <= h1 - low0 /\ h2 - low <= h2 - low0
              /\ h2 - low <= h1 /\ h2 - low <= h2
          BY <1>12, <2>2, <4>4
        <5> HIDE DEF k, kc
        <5> QED BY <5>2, <5>3
      <4> QED BY <4>3, <4>4
    <3>3. compare(cs, n1, n2) = -1 \/ compare(cs, n1, n2) >= k
      BY <1>14, <3>2
    <3> HIDE DEF k, kc
    <3>4. ASSUME NEW i \in 1..k PROVE S[n1][i] = S[n2][i]
      <4>1. k <= Seen(S, r, n1) /\ k <= Seen(S, r, n2) /\ k \in Nat
        BY <1>7, <3>2
      <4>2. i \in Nat /\ 1 <= i /\ i <= k
        BY <4>1
      <4>3. i \in 1..Seen(S, r, n1) /\ i \in 1..Seen(S, r, n2)
        BY <1>5, <1>7, <4>1, <4>2
      <4> QED BY <1>4, <3>3, <4>1, <4>2, <4>3, CompareAgrees
    <3>5. SubSeq(S[n1], 1, k) = [i \in 1..k |-> S[n1][i]]
      BY <1>5, <1>6, <3>2
    <3>6. SubSeq(S[n2], 1, k) = [i \in 1..k |-> S[n2][i]]
      BY <1>5, <1>6, <3>2
    <3> QED BY <3>4, <3>5, <3>6
  <2> QED BY <2>1, <2>2
<1> QED BY <1>2, <1>4, <1>5, <1>16

\* The lengths and types of the buffer's parts.
LEMMA BufferFacts ==
  ASSUME NEW cs, NEW S, VisitsInv(cs, S)
  PROVE  \E n \in Nat :
           /\ btb \in Seq(BtbEntries) /\ stackAt \in Seq(Seq(ReturnAddrs)) /\ lowest \in Seq(Nat)
           /\ Len(btb) = n /\ Len(stackAt) = n /\ Len(lowest) = n
           /\ DOMAIN btb = 1..n /\ DOMAIN stackAt = 1..n /\ DOMAIN lowest = 1..n
           /\ \A e \in 1..n : btb[e].node \in DOMAIN cs.nodes /\ stackAt[e] = S[btb[e].node]
<1>1. /\ btb \in Seq(BtbEntries) /\ stackAt \in Seq(Seq(ReturnAddrs)) /\ lowest \in Seq(Nat)
      /\ Len(stackAt) = Len(btb) /\ Len(lowest) = Len(btb)
      /\ \A e \in DOMAIN btb : btb[e].node \in DOMAIN cs.nodes /\ stackAt[e] = S[btb[e].node]
  BY DEF VisitsInv
<1>2. PICK n \in Nat : n = Len(btb)
  BY <1>1
<1>3. DOMAIN btb = 1..n
  BY <1>1, <1>2
<1>4. DOMAIN stackAt = 1..n
  BY <1>1, <1>2
<1>5. DOMAIN lowest = 1..n
  BY <1>1, <1>2
<1> QED BY <1>1, <1>2, <1>3, <1>4, <1>5

\* The least of two naturals.
LEMMA MinNat ==
  ASSUME NEW a \in Nat, NEW b \in Nat
  PROVE  /\ Min({a, b}) \in Nat /\ Min({a, b}) <= a /\ Min({a, b}) <= b
         /\ (Min({a, b}) = a \/ Min({a, b}) = b)
<1>1. CASE a <= b
  <2>1. Min({a, b}) = a
    BY <1>1, MinTwo
  <2> QED BY <1>1, <2>1
<1>2. CASE ~ (a <= b)
  <2>1. Min({a, b}) = b
    BY <1>2, MinTwo
  <2> QED BY <1>2, <2>1
<1> QED BY <1>1, <1>2

\* The buffer's entries stand for their stacks in the larger tree as well.
LEMMA VisitsKept ==
  ASSUME NEW S, NEW cs, NEW S2, VisitsInv(calls, S), Extends(calls, S, cs, S2)
  PROVE  VisitsInv(cs, S2)
BY DEF VisitsInv, Extends

\* An arrival that is no loop.
LEMMA ArriveFirst ==
  ASSUME NEW cs, NEW to \in FunctionPcs \cup ReturnAddrs, NEW S, NEW r,
         Tree(cs, S, r), VisitsInv(cs, S), stack' = S[cs.curr],
         LowestInv, NoMissedLoop, verdict = -1,
         calls' = cs,
         btb' = Append(btb, Entry(cs, to)), stackAt' = Append(stackAt, stack'),
         lowest' = Append([j \in DOMAIN lowest |-> Min({lowest[j], Len(stack')})], Len(stack')),
         verdict' \in {-1, -2},
         to = UpdReturn \/ isTrueLoop(cs, btb, to) = -1
  PROVE  LoopInv'
<1>1. PICK n \in Nat :
      /\ btb \in Seq(BtbEntries) /\ stackAt \in Seq(Seq(ReturnAddrs)) /\ lowest \in Seq(Nat)
      /\ Len(btb) = n /\ Len(stackAt) = n /\ Len(lowest) = n
      /\ DOMAIN btb = 1..n /\ DOMAIN stackAt = 1..n /\ DOMAIN lowest = 1..n
      /\ \A e \in 1..n : btb[e].node \in DOMAIN cs.nodes /\ stackAt[e] = S[btb[e].node]
  BY BufferFacts
<1>2. PICK new : new = Entry(cs, to)
  OBVIOUS
<1>3. cs.curr \in DOMAIN cs.nodes /\ cs.curr \in Nat
  <2>1. cs.curr \in DOMAIN cs.nodes
    BY DEF Tree
  <2> QED BY <2>1, TreeFacts
<1>4. new \in BtbEntries /\ new.pc = to /\ new.node = cs.curr
  BY <1>2, <1>3 DEF Entry, BtbEntries
<1>5. PICK h \in Nat : h = Len(stack')
  BY <1>3, TreeFacts
<1>6. stack' \in Seq(ReturnAddrs)
  BY <1>3, TreeFacts
<1>7. PICK lows : lows = [j \in 1..n |-> Min({lowest[j], h})]
  OBVIOUS
<1>8. lowest' = Append(lows, h)
  BY <1>1, <1>5, <1>7
<1>9. /\ \A j \in 1..n : /\ lowest[j] \in Nat /\ lows[j] \in Nat
                         /\ lows[j] <= lowest[j] /\ lows[j] <= h
                         /\ (lows[j] = lowest[j] \/ lows[j] = h)
      /\ lows \in Seq(Nat) /\ Len(lows) = n
  <2>1. \A j \in 1..n : lows[j] = Min({lowest[j], h})
    BY <1>7
  <2>2. ASSUME NEW j \in 1..n
        PROVE  /\ lowest[j] \in Nat /\ lows[j] \in Nat
               /\ lows[j] <= lowest[j] /\ lows[j] <= h
               /\ (lows[j] = lowest[j] \/ lows[j] = h)
    <3>1. lowest[j] \in Nat
      BY <1>1
    <3>2. lows[j] = Min({lowest[j], h})
      BY <2>1
    <3> QED BY <3>1, <3>2, MinNat
  <2>3. lows \in [1..n -> Nat]
    BY <1>7, <2>2
  <2> QED BY <2>2, <2>3
<1>10. lows \in Seq(Nat) /\ Len(lows) = n
  BY <1>9
<1>11. /\ btb' \in Seq(BtbEntries) /\ Len(btb') = n + 1 /\ DOMAIN btb' = 1..(n + 1)
       /\ btb'[n + 1] = new /\ \A j \in 1..n : btb'[j] = btb[j]
  BY <1>1, <1>2, <1>4
<1>12. /\ stackAt' \in Seq(Seq(ReturnAddrs)) /\ Len(stackAt') = n + 1
       /\ stackAt'[n + 1] = stack' /\ \A j \in 1..n : stackAt'[j] = stackAt[j]
  BY <1>1, <1>6
<1>13. /\ lowest' \in Seq(Nat) /\ Len(lowest') = n + 1
       /\ lowest'[n + 1] = h /\ \A j \in 1..n : lowest'[j] = lows[j]
  <2>1. /\ Append(lows, h) \in Seq(Nat) /\ Len(Append(lows, h)) = n + 1
        /\ Append(lows, h)[n + 1] = h /\ \A j \in 1..n : Append(lows, h)[j] = lows[j]
    BY <1>10, AppendProperties
  <2> QED BY <1>8, <2>1
<1>14. ASSUME NEW e \in 1..(n + 1)
       PROVE  btb'[e].node \in DOMAIN cs.nodes /\ stackAt'[e] = S[btb'[e].node]
  <2>1. CASE e = n + 1
    BY <1>3, <1>4, <1>11, <1>12, <2>1
  <2>2. CASE e # n + 1
    <3>1. e \in 1..n
      BY <2>2
    <3> QED BY <1>1, <1>11, <1>12, <3>1
  <2> QED BY <2>1, <2>2
<1>15. VisitsInv(cs, S)'
  BY <1>11, <1>12, <1>13, <1>14 DEF VisitsInv
<1>16. LowestInv'
  <2> SUFFICES ASSUME NEW e \in 1..(n + 1)
               PROVE  /\ lowest'[e] <= h
                      /\ \A j \in e..(n + 1) : lowest'[e] <= Len(stackAt'[j])
                      /\ \E j \in e..(n + 1) : lowest'[e] = Len(stackAt'[j])
    <3> HIDE DEF LowestInv
    <3>1. Len(btb)' = n + 1 /\ DOMAIN btb' = 1..(n + 1) /\ Len(stack)' = h
      BY <1>5, <1>11
    <3> QED BY <3>1 DEF LowestInv
  <2>1. CASE e = n + 1
    <3>1. \A j \in e..(n + 1) : j = n + 1
      BY <2>1
    <3>2. n + 1 \in e..(n + 1)
      BY <2>1
    <3> QED BY <1>5, <1>12, <1>13, <2>1, <3>1, <3>2
  <2>2. CASE e # n + 1
    <3>1. e \in 1..n
      BY <2>2
    <3>2. PICK l \in Nat, x \in Nat : l = lowest[e] /\ x = lowest'[e]
      BY <1>9, <1>13, <3>1
    <3>3. x <= l /\ x <= h /\ (x = l \/ x = h)
      BY <1>9, <1>13, <3>1, <3>2
    <3>4. /\ \A j \in e..n : l <= Len(stackAt[j])
          /\ \E j \in e..n : l = Len(stackAt[j])
      BY <1>1, <3>1, <3>2 DEF LowestInv
    <3>5. ASSUME NEW j \in e..(n + 1) PROVE x <= Len(stackAt'[j])
      <4>1. CASE j = n + 1
        <5>1. Len(stackAt'[j]) = h
          BY <1>5, <1>12, <4>1
        <5> QED BY <3>3, <5>1
      <4>2. CASE j # n + 1
        <5>1. j \in e..n /\ j \in 1..n
          BY <3>1, <4>2
        <5>2. PICK y \in Nat : y = Len(stackAt[j])
          BY <1>1, <5>1
        <5>3. l <= y /\ Len(stackAt'[j]) = y
          BY <1>12, <3>4, <5>1, <5>2
        <5>4. x <= y
          BY <3>3, <5>3
        <5> QED BY <5>3, <5>4
      <4> QED BY <4>1, <4>2
    <3>6. \E j \in e..(n + 1) : x = Len(stackAt'[j])
      <4>1. CASE x = l
        <5>1. PICK j \in e..n : l = Len(stackAt[j])
          BY <3>4
        <5>2. j \in e..(n + 1) /\ j \in 1..n
          BY <3>1
        <5> QED BY <1>12, <4>1, <5>1, <5>2
      <4>2. CASE x = h
        <5>1. n + 1 \in e..(n + 1)
          BY <3>1
        <5> QED BY <1>5, <1>12, <4>2, <5>1
      <4> QED BY <3>3, <4>1, <4>2
    <3> QED BY <3>2, <3>3, <3>5, <3>6
  <2> QED BY <2>1, <2>2
<1>17. NoMissedLoop'
  <2> SUFFICES ASSUME NEW e \in 1..(n + 1), NEW f \in 1..(n + 1), e < f,
                      btb'[e].pc = btb'[f].pc, stackAt'[e] = stackAt'[f]
               PROVE  btb'[e].pc = UpdReturn
    BY <1>11 DEF NoMissedLoop
  <2>1. e \in 1..n
    OBVIOUS
  <2>2. btb'[e] = btb[e] /\ stackAt'[e] = stackAt[e]
    BY <1>11, <1>12, <2>1
  <2>3. CASE f = n + 1
    <3> SUFFICES ASSUME to # UpdReturn PROVE FALSE
      BY <1>4, <1>11, <2>3
    <3>1. btb[e].pc = to /\ stackAt[e] = S[cs.curr]
      BY <1>4, <1>11, <1>12, <2>2, <2>3
    <3>2. btb[e].node \in DOMAIN cs.nodes /\ S[btb[e].node] = S[cs.curr]
      BY <1>1, <2>1, <3>1
    <3>3. compare(cs, btb[e].node, cs.curr) = -1
      BY <1>3, <3>2, CompareSame
    <3>4. LoopsTo(cs, btb, e)
      BY <3>3 DEF LoopsTo
    <3> DEFINE loops == {i \in DOMAIN btb : btb[i].pc = to /\ LoopsTo(cs, btb, i)}
    <3>5. e \in loops /\ loops \in SUBSET Nat /\ -1 \notin loops
      BY <1>1, <2>1, <3>1, <3>4
    <3>6. isTrueLoop(cs, btb, to) = IF loops = {} THEN -1 ELSE Min(loops)
      BY DEF isTrueLoop
    <3> HIDE DEF loops
    <3>7. Min(loops) \in loops
      BY <3>5, LeastOne
    <3> QED BY <3>5, <3>6, <3>7
  <2>4. CASE f # n + 1
    <3>1. f \in 1..n
      <4>1. \A x \in 1..(n + 1) : x # n + 1 => x \in 1..n
        OBVIOUS
      <4> QED BY <2>4, <4>1
    <3>2. btb'[f] = btb[f] /\ stackAt'[f] = stackAt[f]
      BY <1>11, <1>12, <3>1
    <3> QED BY <1>1, <2>1, <2>2, <3>1, <3>2 DEF NoMissedLoop
  <2> QED BY <2>3, <2>4
<1>18. OnlyTrueLoops'
  BY DEF OnlyTrueLoops
<1>19. Tree(calls, S, r)' /\ VisitsInv(calls, S)'
  <2>1. Tree(calls, S, r)'
    BY DEF Tree
  <2>2. VisitsInv(calls, S)'
    BY <1>15 DEF VisitsInv
  <2> QED BY <2>1, <2>2
<1> QED BY <1>16, <1>17, <1>18, <1>19 DEF LoopInv

\* An arrival that is a loop to the entry e.
LEMMA ArriveAgain ==
  ASSUME NEW cs, NEW to, NEW S, NEW r,
         Tree(cs, S, r), VisitsInv(cs, S), stack' = S[cs.curr], stack \in Seq(ReturnAddrs),
         LowestInv, NoMissedLoop, verdict = -1,
         calls' = cs, NEW e, e # -1, e = isTrueLoop(cs, btb, to),
         btb' = btb, stackAt' = stackAt,
         lowest' = [j \in DOMAIN lowest |-> Min({lowest[j], Len(stack')})],
         verdict' = IF e = 1 \/ to \notin IFuncs THEN e ELSE -1,
         to \in IFuncs => Len(stack) <= Len(stack')
  PROVE  LoopInv'
<1>1. PICK n \in Nat :
      /\ btb \in Seq(BtbEntries) /\ stackAt \in Seq(Seq(ReturnAddrs)) /\ lowest \in Seq(Nat)
      /\ Len(btb) = n /\ Len(stackAt) = n /\ Len(lowest) = n
      /\ DOMAIN btb = 1..n /\ DOMAIN stackAt = 1..n /\ DOMAIN lowest = 1..n
      /\ \A i \in 1..n : btb[i].node \in DOMAIN cs.nodes /\ stackAt[i] = S[btb[i].node]
  BY BufferFacts
<1>2. cs.curr \in DOMAIN cs.nodes
  BY DEF Tree
<1>3. PICK h \in Nat : h = Len(stack')
  BY <1>2, TreeFacts
<1>4. lowest' = [j \in 1..n |-> Min({lowest[j], h})]
  BY <1>1, <1>3
<1>5. /\ lowest' \in Seq(Nat) /\ Len(lowest') = n
      /\ \A j \in 1..n : /\ lowest[j] \in Nat /\ lowest'[j] \in Nat
                         /\ lowest'[j] <= lowest[j] /\ lowest'[j] <= h
                         /\ (lowest'[j] = lowest[j] \/ lowest'[j] = h)
  <2>1. PICK lows : lows = lowest'
    OBVIOUS
  <2>2. \A j \in 1..n : lows[j] = Min({lowest[j], h})
    BY <1>4, <2>1
  <2>3. PICK ls \in Seq(Nat) : ls = lowest /\ DOMAIN ls = 1..n
    BY <1>1
  <2>4. ASSUME NEW j \in 1..n
        PROVE  /\ ls[j] \in Nat /\ lows[j] \in Nat /\ lows[j] <= ls[j] /\ lows[j] <= h
               /\ (lows[j] = ls[j] \/ lows[j] = h)
    <3>1. ls[j] \in Nat
      BY <2>3
    <3>2. lows[j] = Min({ls[j], h})
      BY <2>2, <2>3
    <3> QED BY <3>1, <3>2, MinNat
  <2>5. lows \in [1..n -> Nat]
    BY <1>4, <2>1, <2>4
  <2>6. lows \in Seq(Nat) /\ Len(lows) = n
    BY <2>5
  <2>7. \A j \in 1..n : /\ lowest[j] \in Nat /\ lowest'[j] \in Nat
                         /\ lowest'[j] <= lowest[j] /\ lowest'[j] <= h
                         /\ (lowest'[j] = lowest[j] \/ lowest'[j] = h)
    BY <2>1, <2>3, <2>4
  <2> QED BY <2>1, <2>6, <2>7
<1>6. e \in 1..n /\ btb[e].pc = to /\ LoopsTo(cs, btb, e)
  <2> DEFINE loops == {i \in DOMAIN btb : btb[i].pc = to /\ LoopsTo(cs, btb, i)}
  <2>1. e = IF loops = {} THEN -1 ELSE Min(loops)
    BY DEF isTrueLoop
  <2>2. loops \in SUBSET Nat
    BY <1>1
  <2>3. e \in loops
    <3> HIDE DEF loops
    <3> QED BY <2>1, <2>2, LeastOne
  <2> QED BY <1>1, <2>3
<1>7. VisitsInv(calls, S)'
  BY <1>1, <1>5 DEF VisitsInv
<1>8. Tree(calls, S, r)'
  BY DEF Tree
<1>9. NoMissedLoop'
  BY DEF NoMissedLoop
<1>10. verdict' \in Int
  BY <1>6
<1>11. LowestInv'
  <2> SUFFICES ASSUME verdict' = -1 PROVE LowestInv'
    BY DEF LowestInv
  <2>1. to \in IFuncs /\ Len(stack) <= h
    BY <1>3
  <2>2. ASSUME NEW i \in 1..n PROVE lowest'[i] = lowest[i] /\ lowest[i] <= h
    <3>1. lowest[i] <= Len(stack)
      BY <1>1 DEF LowestInv
    <3>2. PICK x \in Nat, y \in Nat : x = lowest[i] /\ y = lowest'[i]
      BY <1>5
    <3>3. PICK z \in Nat : z = Len(stack)
      OBVIOUS
    <3>4. x <= z /\ z <= h /\ y <= x /\ y <= h /\ (y = x \/ y = h)
      BY <1>5, <2>1, <3>1, <3>2, <3>3
    <3>5. y = x /\ x <= h
      BY <3>4
    <3> QED BY <3>2, <3>5
  <2>3. ASSUME NEW i \in 1..n
        PROVE  /\ lowest'[i] <= Len(stack')
               /\ \A j \in i..n : lowest'[i] <= Len(stackAt'[j])
               /\ \E j \in i..n : lowest'[i] = Len(stackAt'[j])
    <3>1. /\ \A j \in i..n : lowest[i] <= Len(stackAt[j])
          /\ \E j \in i..n : lowest[i] = Len(stackAt[j])
      BY <1>1 DEF LowestInv
    <3> QED BY <1>3, <2>2, <3>1
  <2> QED BY <1>1, <2>3 DEF LowestInv
<1>12. OnlyTrueLoops'
  <2> SUFFICES ASSUME verdict' > 0
               PROVE  LET k == Min({Len(stackAt[verdict']), Len(S[cs.curr])}) - lowest'[verdict']
                      IN  SubSeq(stackAt[verdict'], 1, k) = SubSeq(S[cs.curr], 1, k)
    BY DEF OnlyTrueLoops
  <2>1. verdict' = e
    BY <1>10
  <2>2. PICK low \in Nat : low = lowest[e]
    BY <1>5, <1>6
  <2>3. lowest'[e] = Min({low, Len(S[cs.curr])})
    BY <1>4, <1>3, <1>6, <2>2
  <2>4. /\ \A j \in e..Len(btb) : low <= Len(stackAt[j])
        /\ \E j \in e..Len(btb) : low = Len(stackAt[j])
    BY <1>1, <1>6, <2>2 DEF LowestInv
  <2>5. e \in DOMAIN btb
    BY <1>1, <1>6
  <2> DEFINE k == Min({Len(stackAt[e]), Len(S[cs.curr])}) - Min({low, Len(S[cs.curr])})
  <2>6. SubSeq(stackAt[e], 1, k) = SubSeq(S[cs.curr], 1, k)
    BY <1>6, <2>4, <2>5, FoundLoop
  <2> QED BY <2>1, <2>3, <2>6
<1> QED BY <1>7, <1>8, <1>9, <1>10, <1>11, <1>12 DEF LoopInv

\* recordIns at the target of a branch.
LEMMA ArriveKeeps ==
  ASSUME NEW cs, NEW to \in FunctionPcs \cup ReturnAddrs, NEW S, NEW r, NEW S2, NEW r2,
         VisitsInv(calls, S), LoopInv, verdict = -1, stack \in Seq(ReturnAddrs),
         Tree(cs, S2, r2), Extends(calls, S, cs, S2), stack' = S2[cs.curr],
         to \in IFuncs => Len(stack) <= Len(stack'), Arrive(cs, to)
  PROVE  LoopInv'
<1>1. VisitsInv(cs, S2)
  BY VisitsKept
<1>2. LowestInv /\ NoMissedLoop
  BY DEF LoopInv
<1>3. PICK e : /\ e = IF to = UpdReturn THEN -1 ELSE isTrueLoop(cs, btb, to)
               /\ calls' = cs
               /\ \/ /\ e = -1
                     /\ btb' = Append(btb, Entry(cs, to))
                     /\ stackAt' = Append(stackAt, stack')
                     /\ lowest' = Append([j \in DOMAIN lowest |-> Min({lowest[j], Len(stack')})],
                                         Len(stack'))
                     /\ verdict' \in {-1, -2}
                  \/ /\ e # -1
                     /\ verdict' = IF e = 1 \/ to \notin IFuncs THEN e ELSE -1
                     /\ lowest' = [j \in DOMAIN lowest |-> Min({lowest[j], Len(stack')})]
                     /\ UNCHANGED <<btb, stackAt>>
  BY DEF Arrive
<1>4. CASE e = -1
  <2>1. to = UpdReturn \/ isTrueLoop(cs, btb, to) = -1
    BY <1>3, <1>4
  <2> QED BY <1>1, <1>2, <1>3, <1>4, <2>1, ArriveFirst
<1>5. CASE e # -1
  <2>1. e = isTrueLoop(cs, btb, to)
    BY <1>3, <1>5
  <2> QED BY <1>1, <1>2, <1>3, <1>5, <2>1, ArriveAgain
<1> QED BY <1>4, <1>5

\* The recorder knows nothing of the stack yet.
LEMMA LoopInvInit == LoopInit => LoopInv
<1> SUFFICES ASSUME LoopInit PROVE LoopInv
  OBVIOUS
<1>1. stack \in Seq(ReturnAddrs)
  <2>1. PICK n \in 0..StackBelow : stack \in [1..n -> ReturnAddrs]
    BY DEF LoopInit
  <2>2. n \in Nat
    BY LoopAssumption
  <2> QED BY <2>1, <2>2
<1>2. PICK to \in FunctionPcs \cup ReturnAddrs : btb = <<Entry(EmptyCalls, to)>>
  BY DEF LoopInit
<1>3. calls = EmptyCalls /\ stackAt = <<stack>> /\ lowest = <<Len(stack)>> /\ verdict = -1
  BY DEF LoopInit
<1>4. PICK S : Tree(EmptyCalls, S, 1) /\ S[EmptyCalls.curr] = stack
  BY <1>1, EmptyTree
<1>5. EmptyCalls.curr = 1
  BY DEF EmptyCalls
<1>6. PICK new : new = Entry(EmptyCalls, to)
  OBVIOUS
<1>7. new \in BtbEntries /\ new.node = 1
  BY <1>5, <1>6 DEF Entry, BtbEntries
<1>8. /\ btb \in Seq(BtbEntries) /\ Len(btb) = 1 /\ DOMAIN btb = 1..1 /\ btb[1] = new
  BY <1>2, <1>6, <1>7
<1>9. stackAt \in Seq(Seq(ReturnAddrs)) /\ Len(stackAt) = 1 /\ stackAt[1] = stack
  BY <1>1, <1>3
<1>10. PICK h \in Nat : h = Len(stack)
  BY <1>1
<1>11. lowest \in Seq(Nat) /\ Len(lowest) = 1 /\ lowest[1] = h
  BY <1>3, <1>10
<1>12. 1 \in DOMAIN EmptyCalls.nodes
  BY <1>4 DEF Tree
<1>13. \A e \in DOMAIN btb : e = 1
  BY <1>8
<1>14. VisitsInv(calls, S)
  BY <1>3, <1>4, <1>5, <1>7, <1>8, <1>9, <1>11, <1>12, <1>13 DEF VisitsInv
<1>15. LowestInv
  <2>1. \A j \in 1..1 : j = 1
    OBVIOUS
  <2>2. 1 \in 1..1
    OBVIOUS
  <2> QED BY <1>8, <1>9, <1>10, <1>11, <1>13, <2>1, <2>2 DEF LowestInv
<1>16. NoMissedLoop
  BY <1>13 DEF NoMissedLoop
<1>17. OnlyTrueLoops
  BY <1>3 DEF OnlyTrueLoops
<1> QED BY <1>3, <1>4, <1>14, <1>15, <1>16, <1>17 DEF LoopInv

\* Calls, tail calls and returns keep the invariant.
LEMMA LoopInvNext == LoopInv /\ [LoopNext]_loopVars => LoopInv'
<1> SUFFICES ASSUME LoopInv, [LoopNext]_loopVars PROVE LoopInv'
  OBVIOUS
<1>1. PICK S, r : Tree(calls, S, r) /\ stack = S[calls.curr] /\ VisitsInv(calls, S)
  BY DEF LoopInv
<1>2. calls.curr \in DOMAIN calls.nodes
  BY <1>1 DEF Tree
<1>3. stack \in Seq(ReturnAddrs)
  BY <1>1, <1>2, TreeFacts
<1>4. ASSUME NEW to \in FunctionPcs, NEW ret \in ReturnAddrs, Call(to, ret) PROVE LoopInv'
  <2>1. verdict = -1 /\ stack' = <<ret>> \o stack /\ Arrive(pushFrame(calls, ret), to)
    BY <1>4 DEF Call
  <2>2. PICK S2 : /\ Tree(pushFrame(calls, ret), S2, r)
                  /\ S2[pushFrame(calls, ret).curr] = <<ret>> \o S[calls.curr]
                  /\ Extends(calls, S, pushFrame(calls, ret), S2)
    BY <1>1, PushTree
  <2>3. Len(stack) <= Len(stack')
    BY <1>3, <2>1
  <2>4. stack' = S2[pushFrame(calls, ret).curr]
    BY <1>1, <2>1, <2>2
  <2>5. to \in FunctionPcs \cup ReturnAddrs
    OBVIOUS
  <2> QED BY <1>1, <1>3, <2>1, <2>2, <2>3, <2>4, <2>5, ArriveKeeps
<1>5. ASSUME NEW to \in FunctionPcs, TailCall(to) PROVE LoopInv'
  <2>1. verdict = -1 /\ stack' = stack /\ Arrive(calls, to)
    BY <1>5 DEF TailCall
  <2>2. Extends(calls, S, calls, S)
    BY DEF Extends
  <2>3. Len(stack) <= Len(stack')
    BY <1>3, <2>1
  <2>4. stack' = S[calls.curr]
    BY <1>1, <2>1
  <2>5. to \in FunctionPcs \cup ReturnAddrs
    OBVIOUS
  <2> QED BY <1>1, <1>3, <2>1, <2>2, <2>3, <2>4, <2>5, ArriveKeeps
<1>6. ASSUME Return PROVE LoopInv'
  <2>1. /\ verdict = -1 /\ stack # << >> /\ stack' = Tail(stack)
        /\ Arrive(returnTo(calls, Head(stack)), Head(stack))
    BY <1>6 DEF Return
  <2>2. PICK S2, r2 : /\ Tree(returnTo(calls, Head(stack)), S2, r2)
                      /\ S2[returnTo(calls, Head(stack)).curr] = Tail(stack)
                      /\ Extends(calls, S, returnTo(calls, Head(stack)), S2)
    <3>1. CASE calls.curr = r
      <4>1. S[r] = stack /\ S[r] # << >>
        BY <1>1, <2>1, <3>1
      <4>2. \E S2, r2 : /\ Tree(returnTo(calls, Head(S[r])), S2, r2)
                        /\ S2[returnTo(calls, Head(S[r])).curr] = Tail(S[calls.curr])
                        /\ Extends(calls, S, returnTo(calls, Head(S[r])), S2)
        BY <1>1, <3>1, <4>1, LearnTree
      <4> QED BY <1>1, <4>1, <4>2
    <3>2. CASE calls.curr # r
      <4>1. PICK a : a = Head(stack)
        OBVIOUS
      <4>2. /\ Tree(returnTo(calls, a), S, r)
            /\ S[returnTo(calls, a).curr] = Tail(S[calls.curr])
            /\ Extends(calls, S, returnTo(calls, a), S)
        BY <1>1, <3>2, PopTree
      <4> QED BY <1>1, <4>1, <4>2
    <3> QED BY <3>1, <3>2
  <2>3. Head(stack) \in ReturnAddrs
    BY <1>3, <2>1
  <2>4. Head(stack) \in FunctionPcs \cup ReturnAddrs /\ Head(stack) \notin IFuncs
    BY <2>3, LoopAssumption
  <2>5. stack' = S2[returnTo(calls, Head(stack)).curr]
    BY <2>1, <2>2
  <2> QED BY <1>1, <1>3, <2>1, <2>2, <2>4, <2>5, ArriveKeeps
<1>7. CASE UNCHANGED loopVars
  <2>1. /\ calls' = calls /\ btb' = btb /\ stack' = stack /\ stackAt' = stackAt
        /\ lowest' = lowest /\ verdict' = verdict
    BY <1>7 DEF loopVars
  <2>2. VisitsInv(calls, S)'
    BY <1>1, <2>1 DEF VisitsInv
  <2>3. LowestInv' /\ OnlyTrueLoops' /\ NoMissedLoop' /\ verdict' \in Int
    BY <2>1 DEF LoopInv, LowestInv, OnlyTrueLoops, NoMissedLoop
  <2>4. Tree(calls, S, r)' /\ (stack = S[calls.curr])'
    BY <1>1, <2>1 DEF Tree
  <2> QED BY <2>2, <2>3, <2>4 DEF LoopInv
<1> QED BY <1>4, <1>5, <1>6, <1>7 DEF LoopNext

\* A node's known frames are the top of its stack.
LEMMA KnownExact ==
  ASSUME NEW cs, NEW S, NEW r, Tree(cs, S, r), NEW n \in DOMAIN cs.nodes
  PROVE  Known(cs, n) = SubSeq(S[n], 1, depth(cs, n) - 1)
<1>1. PICK K : K = Seen(S, r, n)
  OBVIOUS
<1>2. K \in Nat /\ S[n] \in Seq(ReturnAddrs)
  <2>1. Seen(S, r, n) \in 0..(Len(cs.nodes) - 1) /\ S[n] \in Seq(ReturnAddrs)
        /\ Len(cs.nodes) \in Nat
    BY TreeFacts
  <2> QED BY <1>1, <2>1
<1>3. /\ depth(cs, n) = K + 1 /\ Len(Chain(cs, n)) = K + 1
      /\ \A d \in 1..K : cs.nodes[Chain(cs, n)[d]].addr = S[n][d]
  BY <1>1, ChainStands
<1>4. (K + 1) - 1 = K
  BY <1>2
<1>5. Known(cs, n) = [d \in 1..K |-> S[n][d]]
  BY <1>3, <1>4 DEF Known
<1>6. K <= Len(S[n])
  <2>1. PICK x \in Nat, y \in Nat : x = Len(S[n]) /\ y = Len(S[r])
    BY TreeFacts
  <2>2. K = x - y
    BY <1>1, <2>1 DEF Seen
  <2>3. x - y <= x
    OBVIOUS
  <2> QED BY <2>1, <2>2, <2>3
<1>7. SubSeq(S[n], 1, K) = [d \in 1..K |-> S[n][d]]
  BY <1>2, <1>6
<1> QED BY <1>3, <1>4, <1>5, <1>7

\* Whatever is called, entered and returned to, and however large the buffer
\* of branch targets is, the recorder's tree of calls knows the stacks of all
\* branches, a trace is closed on true loops only, and on the first return to
\* an earlier stack (CallStack, isTrueLoop): the property LoopsExact.
THEOREM LoopsAlwaysExact == LoopSpec => []LoopsExact
<1>1. LoopInv => LoopsExact
  <2> SUFFICES ASSUME LoopInv PROVE LoopsExact
    OBVIOUS
  <2>1. PICK S, r : Tree(calls, S, r) /\ stack = S[calls.curr] /\ VisitsInv(calls, S)
    BY DEF LoopInv
  <2>2. Known(calls, calls.curr) = SubSeq(stack, 1, depth(calls, calls.curr) - 1)
    <3>1. calls.curr \in DOMAIN calls.nodes
      BY <2>1 DEF Tree
    <3> QED BY <2>1, <3>1, KnownExact
  <2>3. ASSUME NEW e \in DOMAIN btb
        PROVE  Known(calls, btb[e].node)
                 = SubSeq(stackAt[e], 1, depth(calls, btb[e].node) - 1)
    <3>1. btb[e].node \in DOMAIN calls.nodes /\ stackAt[e] = S[btb[e].node]
      BY <2>1 DEF VisitsInv
    <3> QED BY <2>1, <3>1, KnownExact
  <2> QED BY <2>2, <2>3 DEF LoopInv, LoopsExact, CallsExact
<1> QED BY <1>1, LoopInvInit, LoopInvNext, PTL DEF LoopSpec
=============================================================================
