----------------------------- MODULE LoopFilter -----------------------------
(***************************************************************************)
(* Loop detection while recording (vm/ir.cc CallStack, BranchTargetBuffer; *)
(* the first part of recordIns in vm/jit.cc).                              *)
(*                                                                         *)
(* The recorder does not know the stack below the frame its trace started  *)
(* in.  It keeps the return addresses it has seen as a tree: a node is the *)
(* frame of a call, and the only node without a parent stands for the      *)
(* unknown rest.  A branch to a place the trace has visited is a loop only *)
(* if the frames that both visits have seen agree.                         *)
(***************************************************************************)
EXTENDS Integers, Sequences, FiniteSets, FiniteSetsExt

CONSTANTS
  FunctionPcs,   \* where calls go
  IFuncs,        \* the ones with an IFUNC: generic code
  ReturnAddrs,   \* where returns go
  UpdReturn,     \* the one of update frames, stg_UPD_return_pc
  BtbSize,       \* recordIns gives up when the buffer has more (100)
  StackBelow,    \* bound on the frames that the interpreter starts with
  StackHeight    \* bound on its frames (the abstract stack overflows)

ASSUME LoopAssumption ==
  /\ {BtbSize, StackBelow, StackHeight} \subseteq Nat
  /\ IFuncs \subseteq FunctionPcs /\ UpdReturn \in ReturnAddrs
  /\ IFuncs \cap ReturnAddrs = {}   \* an IFUNC comes first in its function

VARIABLES
  calls,    \* callStack_
  btb,      \* the branch target buffer
  stack,    \* the return addresses on the interpreter's stack, top first
  stackAt,  \* what stack was at each entry of btb
  lowest,   \* the least height of stack since each entry of btb
  verdict   \* -1, or the entry recordIns found a loop to; -2 when it gave up

loopVars == <<calls, btb, stack, stackAt, lowest, verdict>>

NoRef == 0       \* STACK_NO_REF; nodes are numbered from 1
NoAddr == "none"

Node(parent, addr) == [parent |-> parent, addr |-> addr]

\* CallStack::reset
EmptyCalls == [nodes |-> <<Node(NoRef, NoAddr)>>, curr |-> 1]

pushFrame(cs, addr) ==
  [nodes |-> Append(cs.nodes, Node(cs.curr, addr)), curr |-> Len(cs.nodes) + 1]

\* The frame was never seen: its return address is learnt now.
returnTo(cs, addr) ==
  LET root == cs.nodes[cs.curr].parent = NoRef
      nodes == IF root THEN Append([cs.nodes EXCEPT ![cs.curr] =
                                      Node(Len(cs.nodes) + 1, addr)],
                                   Node(NoRef, NoAddr))
               ELSE cs.nodes
  IN  [nodes |-> nodes, curr |-> nodes[cs.curr].parent]

\* The nodes from n down to the root, and STACK_NO_REF from there on.
Path(cs, n) ==
  LET path[d \in 1..Len(cs.nodes)] ==
        IF d = 1 THEN n
        ELSE IF path[d - 1] = NoRef THEN NoRef ELSE cs.nodes[path[d - 1]].parent
  IN  path

depth(cs, n) ==
  LET path == Path(cs, n) IN Cardinality({d \in DOMAIN path : path[d] # NoRef})

Chain(cs, n) == LET path == Path(cs, n) IN [d \in 1..depth(cs, n) |-> path[d]]

\* -1, or how many frames agree before the first difference.
compare(cs, n1, n2) ==
  LET c1 == Chain(cs, n1)
      c2 == Chain(cs, n2)
      At(c, d) == IF d \in DOMAIN c THEN c[d] ELSE NoRef
      Stops(d) == \/ At(c1, d) = At(c2, d)
                  \/ At(c1, d) = NoRef \/ At(c2, d) = NoRef
                  \/ cs.nodes[c1[d]].addr # cs.nodes[c2[d]].addr
      d == Min({i \in 1..(Len(cs.nodes) + 1) : Stops(i)})
  IN  IF At(c1, d) = At(c2, d) THEN -1 ELSE d - 1

\* The entry e is a loop: the frames above the lowest that the buffer has
\* since e agree.  A current frame below all of these is no bound, since
\* k2 - m is unsigned and wraps.
LoopIgnoresStack(cs, b, e) == TRUE
LoopsTo(cs, b, e) ==
  LET n == compare(cs, b[e].node, cs.curr)
      k1 == depth(cs, b[e].node)
      k2 == depth(cs, cs.curr)
      m == Min({depth(cs, b[j].node) : j \in e..Len(b)})
      k == IF k2 < m THEN k1 - m ELSE Min({k1 - m, k2 - m})
  IN  n = -1 \/ n >= k

isTrueLoop(cs, b, pc) ==
  LET loops == {e \in DOMAIN b : b[e].pc = pc /\ LoopsTo(cs, b, e)}
  IN  IF loops = {} THEN -1 ELSE Min(loops)

\* BranchTargetBuffer::emit
Entry(cs, pc) == [pc |-> pc, node |-> cs.curr]

-----------------------------------------------------------------------------

\* BranchTargetBuffer::reset
LoopInit ==
  /\ stack \in UNION {[1..n -> ReturnAddrs] : n \in 0..StackBelow}
  /\ calls = EmptyCalls
  /\ \E pc \in FunctionPcs \cup ReturnAddrs : btb = <<Entry(EmptyCalls, pc)>>
  /\ stackAt = <<stack>>
  /\ lowest = <<Len(stack)>>
  /\ verdict = -1

\* recordIns at the target of a branch.  A loop to the entry, or an inner
\* one, ends the trace; an inner loop of generic code does not.
Arrive(cs, pc) ==
  LET h == Len(stack')
      lows == [j \in DOMAIN lowest |-> Min({lowest[j], h})]
  IN  \E e \in {IF pc = UpdReturn THEN -1 ELSE isTrueLoop(cs, btb, pc)} :
        /\ calls' = cs
        /\ \/ /\ e = -1
              /\ btb' = Append(btb, Entry(cs, pc))
              /\ stackAt' = Append(stackAt, stack')
              /\ lowest' = Append(lows, h)
              /\ verdict' = IF Len(btb') > BtbSize THEN -2 ELSE -1
           \/ /\ e # -1
              /\ verdict' = IF e = 1 \/ pc \notin IFuncs THEN e ELSE -1
              /\ lowest' = lows
              /\ UNCHANGED <<btb, stackAt>>

Call(pc, ret) ==
  /\ verdict = -1 /\ Len(stack) < StackHeight
  /\ stack' = <<ret>> \o stack
  /\ Arrive(pushFrame(calls, ret), pc)

TailCall(pc) ==
  /\ verdict = -1
  /\ UNCHANGED stack
  /\ Arrive(calls, pc)

Return ==
  /\ verdict = -1 /\ stack # << >>
  /\ stack' = Tail(stack)
  /\ Arrive(returnTo(calls, Head(stack)), Head(stack))

LoopNext ==
  \/ \E pc \in FunctionPcs, ret \in ReturnAddrs : Call(pc, ret)
  \/ \E pc \in FunctionPcs : TailCall(pc)
  \/ Return

LoopSpec == LoopInit /\ [][LoopNext]_loopVars

-----------------------------------------------------------------------------

\* The return addresses that a node stands for.
Known(cs, n) ==
  LET c == Chain(cs, n) IN [d \in 1..(Len(c) - 1) |-> cs.nodes[c[d]].addr]

\* Of the current stack, and of the stack at every branch of the trace, the
\* tree knows the top part, and knows it right: frames the trace learnt of
\* only when it returned from them are filled in everywhere (returnTo).
CallsExact ==
  /\ Known(calls, calls.curr) = SubSeq(stack, 1, depth(calls, calls.curr) - 1)
  /\ \A e \in DOMAIN btb :
       Known(calls, btb[e].node) = SubSeq(stackAt[e], 1, depth(calls, btb[e].node) - 1)

\* A trace is closed only on a true loop: all frames that lie above the
\* lowest point the stack had between the two visits have the same return
\* addresses at both (isTrueLoop).
OnlyTrueLoops ==
  verdict > 0 =>
    LET k == Min({Len(stackAt[verdict]), Len(stack)}) - lowest[verdict]
    IN  SubSeq(stackAt[verdict], 1, k) = SubSeq(stack, 1, k)

\* Recursion that returns to where it called from is closed as soon as the
\* whole stack is that of an earlier visit: no trace unrolls such a loop
\* until the buffer is full.
NoMissedLoop ==
  \A e \in DOMAIN btb : \A f \in DOMAIN btb :
    e < f /\ btb[e].pc = btb[f].pc /\ stackAt[e] = stackAt[f] => btb[e].pc = UpdReturn

\* The loop filter knows the stacks it compares and closes a trace exactly on
\* true loops (CallStack, isTrueLoop).
LoopsExact == CallsExact /\ OnlyTrueLoops /\ NoMissedLoop

=============================================================================
