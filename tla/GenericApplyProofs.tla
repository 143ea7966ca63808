------------------------- MODULE GenericApplyProofs -------------------------
(***************************************************************************)
(* Proofs about GenericApply, for every program, every size of the stack   *)
(* and every mask width.                                                   *)
(***************************************************************************)
EXTENDS GenericApply, FiniteSets, FiniteSetTheorems, WellFoundedInduction, SequenceTheorems, TLAPS

-----------------------------------------------------------------------------
(***************************************************************************)
(* The inductive invariant.                                                *)
(***************************************************************************)

FunWord == {"fun"} \X Fun
ThunkWord == {"thunk"} \X Thunk
Arg == FunWord \cup ThunkWord \cup {Unboxed}

\* What is known of the mask m for the arguments as: if no join in its past was
\* too wide, it tells them, and they are no more than it has bits.
Exact(m, as) == Lost \notin m => m = Pointers(as) /\ Len(as) <= MaskBits

IsPap(w) ==
  /\ w[1] = "pap" /\ w[2] \in Fun /\ w[3] \in Seq(Arg) /\ Len(w[3]) < Arity[w[2]]
  /\ Exact(w[4], w[3])
IsValue(w) == w \in Arg \/ IsPap(w)

WordsOf(st, b, n) == [i \in 1..n |-> st[b + i - 1]]

\* The frame at b waits for the one at c, above it.
Waiting(st, b, c) ==
  LET n == st[b - 1] IN
  /\ st[c - 3][2] = b
  /\ \/ /\ st[c - 2][2] = "case"
        /\ n \in FunWord /\ b + Arity[n[2]] <= c - 3
        /\ \A i \in 0..(Arity[n[2]] - 1) : IsValue(st[b + i])
     \/ /\ st[c - 2][2] = "apk"
        /\ n[2] \in Nat \ {0} /\ b + n[2] + 1 <= c - 3
        /\ \A i \in 0..(n[2] - 1) : st[b + i] \in Arg
        /\ Exact(n[3], WordsOf(st, b, n[2]))
     \/ /\ st[c - 2][2] = "upd"
        /\ n[1] = "upd" /\ b + 2 <= c - 3 /\ st[b] \in ThunkWord

\* The frames on the stack st begin at the bases fs.
Linked(fs, st) ==
  /\ fs \in Seq(Nat) /\ Len(fs) > 0 /\ fs[1] = 3
  /\ \A i \in 1..Len(fs) : fs[i] <= StackSize
  /\ \A i, j \in 1..Len(fs) : i < j => fs[i] + 3 <= fs[j]
  /\ st[1][2] = "none" /\ st[2][1] = "stop"
  /\ Len(fs) > 1 => st[fs[2] - 3][2] = 3 /\ st[fs[2] - 2][2] = "stop"
  /\ \A i \in 2..(Len(fs) - 1) : Waiting(st, fs[i], fs[i + 1])

Good(w) == w[1] = "pap" => IsPap(w)
GoodStack(st) ==
  /\ DOMAIN st = 0..(StackSize + Guard - 1)
  /\ \A i \in DOMAIN st : Good(st[i])

StackInv ==
  /\ GoodStack(stack)
  /\ DOMAIN value = Thunk
  /\ \A t \in Thunk : value[t] = Unboxed \/ (IsValue(value[t]) /\ IsHNF(value[t]))

\* Neither the top frame nor what is given to it reaches the end of the stack.
TopInv(fs) ==
  /\ base = fs[Len(fs)]
  /\ mode \in {"start", "stop"} <=> Len(fs) = 1
  /\ Len(fs) > 1 => base + 4 <= StackSize /\ Node[1] # "apk"

BodyInv ==
  /\ Node \in FunWord \cup ThunkWord
  /\ top \in Nat /\ base + NArgs(Node) <= top
  /\ base + NArgs(Node) + 4 <= StackSize
  /\ \A i \in 0..(NArgs(Node) - 1) : IsValue(stack[base + i])

PendingInv ==
  /\ Node \in FunWord \cup ThunkWord \/ IsPap(Node)
  /\ given \in Nat \ {0} /\ base + given + 4 <= StackSize
  /\ \A i \in 0..(given - 1) : stack[base + i] \in Arg
  /\ Exact(mask, WordsOf(stack, base, given))

ModeInv ==
  /\ mode \in {"start", "body", "apply", "ret", "stop"}
  /\ mode = "start" => top = 4 /\ stack[3] = <<"thunk", Main>>
  /\ mode = "body" => BodyInv
  /\ mode = "apply" => PendingInv
  /\ mode = "ret" => IsValue(stack[base]) /\ IsHNF(stack[base])

ApplyInv ==
  /\ StackInv
  /\ mode # "overflow" => ModeInv /\ \E fs \in Seq(Nat) : Linked(fs, stack) /\ TopInv(fs)

-----------------------------------------------------------------------------
(***************************************************************************)
(* Recursion along the stack.  The library states induction for an         *)
(* operator; here it is for the set of the numbers that have a property.   *)
(***************************************************************************)

\* Induction over the naturals, for a set of them.
LEMMA SetInduction ==
  ASSUME NEW T \in SUBSET Nat, 0 \in T, \A n \in T : n + 1 \in T
  PROVE  T = Nat
<1>1. PICK R : R = {ss \in Nat \X Nat : ss[1] < ss[2]}
  OBVIOUS
<1>2. \A x, y \in Nat : <<x, y>> \in R <=> x < y
  BY <1>1
<1>3. IsWellFoundedOn(R, Nat)
  BY <1>1, NatLessThanWellFounded DEF OpToRel
<1>4. SUFFICES ASSUME Nat \ T # {} PROVE FALSE
  OBVIOUS
<1>5. PICK x \in Nat \ T : \A y \in Nat \ T : ~ (<<y, x>> \in R)
  BY <1>3, <1>4, WFMin
<1>6. CASE x = 0
  BY <1>6
<1>7. CASE x # 0
  <2>1. x - 1 \in Nat /\ x - 1 < x
    BY <1>7
  <2>2. x - 1 \in T
    BY <1>2, <1>5, <2>1
  <2> QED BY <2>2
<1> QED BY <1>6, <1>7

\* c goes back from b to the place prev[b] below it, and ends at a place that
\* has none.
Recursive(c, prev, item, end, N) ==
  /\ c = [b \in 3..N |-> c[b]]
  /\ \A b \in 3..N : c[b] = IF prev[b] \in 3..(b - 1)
                            THEN Append(c[prev[b]], item[b]) ELSE end[b]

\* A function on the stack that goes back to the place prev[b] below b, and
\* ends at a place that has none, exists.
LEMMA Recursion ==
  ASSUME NEW prev, NEW item, NEW end, NEW N \in Nat
  PROVE  \E c : Recursive(c, prev, item, end, N)
<1> DEFINE At(c, b) == IF prev[b] \in 3..(b - 1)
                       THEN Append(c[prev[b]], item[b]) ELSE end[b]
           Exists(n) == \E c : c = [b \in 3..n |-> At(c, b)]
           T == {n \in Nat : Exists(n)}
<1>1. 0 \in T
  <2>1. PICK c : c = [b \in {} |-> b]
    OBVIOUS
  <2>2. c = [b \in 3..0 |-> At(c, b)]
    BY <2>1
  <2> QED BY <2>2
<1>2. ASSUME NEW n \in T
      PROVE  n + 1 \in T
  <2>1. PICK c : c = [b \in 3..n |-> At(c, b)]
    OBVIOUS
  <2>2. PICK d : d = [b \in 3..(n + 1) |-> IF b = n + 1 THEN At(c, b) ELSE c[b]]
    OBVIOUS
  <2>3. \A b \in 3..n : d[b] = c[b] /\ c[b] = At(c, b)
    <3> HIDE DEF At
    <3>1. \A b \in 3..n : b \in 3..(n + 1) /\ b # n + 1
      OBVIOUS
    <3> QED BY <2>1, <2>2, <3>1
  <2>4. ASSUME NEW b \in 3..(n + 1)
        PROVE  At(d, b) = At(c, b) /\ d[b] = At(c, b)
    <3>1. prev[b] \in 3..(b - 1) => d[prev[b]] = c[prev[b]]
      <4> SUFFICES ASSUME prev[b] \in 3..(b - 1) PROVE prev[b] \in 3..n
        BY <2>3
      <4> QED OBVIOUS
    <3>2. At(d, b) = At(c, b)
      BY <3>1
    <3>3. d[b] = IF b = n + 1 THEN At(c, b) ELSE c[b]
      BY <2>2
    <3>4. b # n + 1 => b \in 3..n
      OBVIOUS
    <3> QED BY <2>3, <3>2, <3>3, <3>4
  <2>5. d = [b \in 3..(n + 1) |-> At(d, b)]
    <3> HIDE DEF At
    <3>1. DOMAIN d = 3..(n + 1) /\ d = [b \in DOMAIN d |-> d[b]]
      BY <2>2
    <3> QED BY <2>4, <3>1
  <2>6. Exists(n + 1)
    BY <2>5
  <2>7. n + 1 \in Nat
    OBVIOUS
  <2> HIDE DEF Exists
  <2> QED BY <2>6, <2>7
<1>3. T = Nat
  <2> HIDE DEF Exists
  <2> QED BY <1>1, <1>2, SetInduction
<1>4. Exists(N)
  <2> HIDE DEF Exists
  <2> QED BY <1>3
<1>5. PICK c : c = [b \in 3..N |-> At(c, b)]
  BY <1>4
<1>6. c = [b \in 3..N |-> c[b]] /\ \A b \in 3..N : c[b] = At(c, b)
  <2> HIDE DEF At
  <2> QED BY <1>5
<1> QED BY <1>6 DEF Recursive

\* Chain and Kont satisfy their definitions.
LEMMA ChainAt ==
  ASSUME NEW st, NEW b \in 3..StackSize
  PROVE  Chain(st)[b] = IF IsCalled(st, b, {"none"})
                        THEN Append(Chain(st)[CallerOf(st, b)], b) ELSE <<b>>
<1> DEFINE Step(c, e) == IF IsCalled(st, e, {"none"})
                         THEN Append(c[CallerOf(st, e)], e) ELSE <<e>>
<1>1. PICK prev, item, end :
        /\ prev = [e \in 3..StackSize |->
                     IF IsCalled(st, e, {"none"}) THEN CallerOf(st, e) ELSE 0]
        /\ item = [e \in 3..StackSize |-> e]
        /\ end = [e \in 3..StackSize |-> <<e>>]
  OBVIOUS
<1>2. PICK c : Recursive(c, prev, item, end, StackSize)
  <2>1. StackSize \in Nat
    BY GenericApplyAssumption
  <2> QED BY <2>1, Recursion
<1>3. c = [e \in 3..StackSize |-> Step(c, e)]
  <2>1. ASSUME NEW e \in 3..StackSize
        PROVE  c[e] = Step(c, e)
    <3>1. /\ prev[e] = IF IsCalled(st, e, {"none"}) THEN CallerOf(st, e) ELSE 0
          /\ item[e] = e /\ end[e] = <<e>>
      BY <1>1
    <3>2. c[e] = IF prev[e] \in 3..(e - 1)
                 THEN Append(c[prev[e]], item[e]) ELSE end[e]
      BY <1>2 DEF Recursive
    <3>3. prev[e] \in 3..(e - 1) <=> IsCalled(st, e, {"none"})
      BY <3>1 DEF IsCalled, CallerOf
    <3> QED BY <3>1, <3>2, <3>3
  <2> HIDE DEF Step
  <2> QED BY <1>2, <2>1 DEF Recursive
<1>4. Chain(st) = CHOOSE f : f = [e \in 3..StackSize |-> Step(f, e)]
  BY DEF Chain
<1>5. Chain(st) = [e \in 3..StackSize |-> Step(Chain(st), e)]
  <2> HIDE DEF Step
  <2> QED BY <1>3, <1>4
<1> QED BY <1>5

\* What the frames below b stand for, by the frame below b.
LEMMA KontAt ==
  ASSUME NEW st, NEW b \in 3..StackSize
  PROVE  Kont(st)[b] = IF IsCalled(st, b, {"none", "stop"})
                        THEN Append(Kont(st)[CallerOf(st, b)],
                                    AbsFrame(st, CallerOf(st, b), st[b - 2][2]))
                        ELSE << >>
<1> DEFINE Step(c, e) == IF IsCalled(st, e, {"none", "stop"})
                         THEN Append(c[CallerOf(st, e)],
                                       AbsFrame(st, CallerOf(st, e), st[e - 2][2]))
                         ELSE << >>
<1>1. PICK prev, item, end :
        /\ prev = [e \in 3..StackSize |->
                     IF IsCalled(st, e, {"none", "stop"}) THEN CallerOf(st, e) ELSE 0]
        /\ item = [e \in 3..StackSize |->
                     AbsFrame(st, CallerOf(st, e), st[e - 2][2])]
        /\ end = [e \in 3..StackSize |-> << >>]
  OBVIOUS
<1>2. PICK c : Recursive(c, prev, item, end, StackSize)
  <2>1. StackSize \in Nat
    BY GenericApplyAssumption
  <2> QED BY <2>1, Recursion
<1>3. c = [e \in 3..StackSize |-> Step(c, e)]
  <2>1. ASSUME NEW e \in 3..StackSize
        PROVE  c[e] = Step(c, e)
    <3>1. /\ prev[e] = IF IsCalled(st, e, {"none", "stop"}) THEN CallerOf(st, e) ELSE 0
          /\ item[e] = AbsFrame(st, CallerOf(st, e), st[e - 2][2]) /\ end[e] = << >>
      BY <1>1
    <3>2. c[e] = IF prev[e] \in 3..(e - 1)
                 THEN Append(c[prev[e]], item[e]) ELSE end[e]
      BY <1>2 DEF Recursive
    <3>3. prev[e] \in 3..(e - 1) <=> IsCalled(st, e, {"none", "stop"})
      BY <3>1 DEF IsCalled, CallerOf
    <3> QED BY <3>1, <3>2, <3>3
  <2> HIDE DEF Step
  <2> QED BY <1>2, <2>1 DEF Recursive
<1>4. Kont(st) = CHOOSE f : f = [e \in 3..StackSize |-> Step(f, e)]
  BY DEF Kont
<1>5. Kont(st) = [e \in 3..StackSize |-> Step(Kont(st), e)]
  <2> HIDE DEF Step
  <2> QED BY <1>3, <1>4
<1> QED BY <1>5

\* The continuations of the first n frames of fs, but for that of stg_STOP
\* and the last.
KontOf(st, fs, n) == [j \in 1..(n - 2) |-> AbsFrame(st, fs[j + 1], st[fs[j + 2] - 2][2])]

UpTo(fs, n) == [j \in 1..n |-> fs[j]]

\* What two frames that follow each other say of each other.
LEMMA LinkFacts ==
  ASSUME NEW st, NEW fs, Linked(fs, st), NEW i \in 1..(Len(fs) - 1)
  PROVE  /\ fs[i] \in 3..(fs[i + 1] - 3) /\ fs[i + 1] \in 3..StackSize
         /\ fs[i] \in 3..StackSize
         /\ st[fs[i + 1] - 3][2] = fs[i]
         /\ i = 1 => st[fs[i + 1] - 2][2] = "stop"
         /\ i # 1 => st[fs[i + 1] - 2][2] \in {"case", "apk", "upd"}
         /\ CallerOf(st, fs[i + 1]) = fs[i] /\ IsCalled(st, fs[i + 1], {"none"})
         /\ i # 1 => IsCalled(st, fs[i + 1], {"none", "stop"})
         /\ i = 1 => ~ IsCalled(st, fs[i + 1], {"none", "stop"})
<1>1. fs \in Seq(Nat) /\ fs[1] = 3 /\ Len(fs) \in Nat
  BY DEF Linked
<1>2. i \in 1..Len(fs) /\ i + 1 \in 1..Len(fs) /\ 1 \in 1..Len(fs) /\ i < i + 1
  BY <1>1
<1>3. fs[i] \in Nat /\ fs[i + 1] \in Nat /\ StackSize \in Nat
  BY <1>1, <1>2, GenericApplyAssumption, SMTT(40)
<1>4. fs[i] >= 3
  <2>1. i # 1 => fs[1] + 3 <= fs[i]
    <3> SUFFICES ASSUME i # 1 PROVE 1 < i /\ fs[1] + 3 <= fs[i]
      OBVIOUS
    <3> QED BY <1>2, SMTT(40) DEF Linked
  <2> QED BY <1>1, <1>3, <2>1
<1>5. fs[i] + 3 <= fs[i + 1] /\ fs[i] <= StackSize /\ fs[i + 1] <= StackSize
  BY <1>2 DEF Linked
<1>6. st[fs[i + 1] - 3][2] = fs[i]
  <2>1. CASE i = 1
    BY <1>1, <2>1 DEF Linked
  <2>2. CASE i # 1
    <3>1. i \in 2..(Len(fs) - 1)
      BY <1>1, <2>2
    <3> QED BY <3>1 DEF Linked, Waiting
  <2> QED BY <2>1, <2>2
<1>7. i = 1 => st[fs[i + 1] - 2][2] = "stop"
  BY <1>1 DEF Linked
<1>8. ASSUME i # 1
      PROVE  st[fs[i + 1] - 2][2] \in {"case", "apk", "upd"}
  <2>1. i \in 2..(Len(fs) - 1)
    BY <1>1, <1>8
  <2>2. Waiting(st, fs[i], fs[i + 1])
    BY <2>1 DEF Linked
  <2> QED BY <2>2 DEF Waiting
<1>9. CallerOf(st, fs[i + 1]) = fs[i] /\ fs[i] \in 3..(fs[i + 1] - 1)
  BY <1>3, <1>4, <1>5, <1>6 DEF CallerOf
<1>10. /\ IsCalled(st, fs[i + 1], {"none"})
       /\ i # 1 => IsCalled(st, fs[i + 1], {"none", "stop"})
       /\ i = 1 => ~ IsCalled(st, fs[i + 1], {"none", "stop"})
  BY <1>7, <1>8, <1>9 DEF IsCalled, CallerOf
<1> QED BY <1>3, <1>4, <1>5, <1>6, <1>7, <1>8, <1>9, <1>10

\* A sequence is its last element appended to the others.
LEMMA AppendTo ==
  ASSUME NEW n \in Nat, NEW f, f = [j \in 1..(n + 1) |-> f[j]]
  PROVE  f = Append([j \in 1..n |-> f[j]], f[n + 1])
OBVIOUS

\* The frames and the continuation of the frames fs of a stack.
LEMMA Followed ==
  ASSUME NEW st, NEW fs, Linked(fs, st), NEW m \in 1..Len(fs)
  PROVE  Chain(st)[fs[m]] = UpTo(fs, m) /\ Kont(st)[fs[m]] = KontOf(st, fs, m)
<1> DEFINE P(n) == /\ Chain(st)[fs[n]] = UpTo(fs, n)
                   /\ Kont(st)[fs[n]] = KontOf(st, fs, n)
           T == {n \in Nat : n = 0 \/ n > Len(fs) \/ P(n)}
<1>1. fs \in Seq(Nat) /\ Len(fs) \in Nat \ {0} /\ fs[1] = 3 /\ 3 \in 3..StackSize
  BY GenericApplyAssumption DEF Linked
<1>2. P(1)
  <2>1. st[3 - 2][2] = "none"
    BY DEF Linked
  <2>2. Chain(st)[3] = <<3>> /\ Kont(st)[3] = << >>
    BY <1>1, <2>1, ChainAt, KontAt DEF IsCalled
  <2>3. UpTo(fs, 1) = <<3>>
    BY <1>1 DEF UpTo
  <2>4. KontOf(st, fs, 1) = << >>
    BY DEF KontOf
  <2> QED BY <1>1, <2>2, <2>3, <2>4
<1>3. ASSUME NEW i \in 1..(Len(fs) - 1), P(i)
      PROVE  P(i + 1)
  <2>1. /\ fs[i] \in 3..(fs[i + 1] - 3) /\ fs[i + 1] \in 3..StackSize
        /\ CallerOf(st, fs[i + 1]) = fs[i] /\ IsCalled(st, fs[i + 1], {"none"})
        /\ i # 1 => IsCalled(st, fs[i + 1], {"none", "stop"})
        /\ i = 1 => ~ IsCalled(st, fs[i + 1], {"none", "stop"})
    BY LinkFacts
  <2>2. Chain(st)[fs[i + 1]] = Append(UpTo(fs, i), fs[i + 1])
    BY <1>3, <2>1, ChainAt
  <2>3. UpTo(fs, i + 1) = Append(UpTo(fs, i), fs[i + 1])
    BY <1>1 DEF UpTo
  <2>4. CASE i = 1
    <3>1. KontOf(st, fs, i + 1) = << >>
      BY <2>4 DEF KontOf
    <3> QED BY <2>1, <2>2, <2>3, <2>4, <3>1, KontAt
  <2>5. CASE i # 1
    <3>1. Kont(st)[fs[i + 1]] =
            Append(KontOf(st, fs, i), AbsFrame(st, fs[i], st[fs[i + 1] - 2][2]))
      BY <1>3, <2>1, <2>5, KontAt
    <3>2. KontOf(st, fs, i + 1) =
            Append(KontOf(st, fs, i), AbsFrame(st, fs[i], st[fs[i + 1] - 2][2]))
      <4>1. PICK k : k = [j \in 1..(i - 1) |->
                            AbsFrame(st, fs[j + 1], st[fs[j + 2] - 2][2])]
        OBVIOUS
      <4>2. KontOf(st, fs, i + 1) = k
        BY <4>1 DEF KontOf
      <4>3. KontOf(st, fs, i) = [j \in 1..(i - 2) |-> k[j]]
        BY <2>5, <4>1 DEF KontOf
      <4>4. k[i - 1] = AbsFrame(st, fs[i], st[fs[i + 1] - 2][2])
        BY <2>5, <4>1
      <4>5. i - 2 \in Nat /\ i - 1 = (i - 2) + 1 /\ k = [j \in 1..(i - 1) |-> k[j]]
        BY <2>5, <4>1
      <4>6. k = Append([j \in 1..(i - 2) |-> k[j]], k[i - 1])
        BY <4>5, AppendTo
      <4> QED BY <4>2, <4>3, <4>4, <4>6
    <3> QED BY <2>2, <2>3, <3>1, <3>2
  <2> QED BY <2>4, <2>5
<1>4. T = Nat
  <2> HIDE DEF P
  <2>1. 0 \in T
    OBVIOUS
  <2>2. \A n \in T : n + 1 \in T
    BY <1>1, <1>2, <1>3
  <2> QED BY <2>1, <2>2, SetInduction
<1>5. P(m)
  <2> HIDE DEF P
  <2> QED BY <1>1, <1>4
<1> QED BY <1>5

-----------------------------------------------------------------------------
(***************************************************************************)
(* Words, and frames on a stack that changes.                              *)
(***************************************************************************)

\* Words are told apart by their tags.
LEMMA WordFacts ==
  /\ \A w \in FunWord : w = <<"fun", w[2]>> /\ w[1] = "fun" /\ w[2] \in Fun
  /\ \A w \in ThunkWord : w = <<"thunk", w[2]>> /\ w[1] = "thunk" /\ w[2] \in Thunk
  /\ Unboxed[1] = "int"
  /\ \A w : IsPap(w) => w[1] = "pap"
  /\ \A w \in Arg : w[1] \in {"fun", "thunk", "int"} /\ AbsValue(w) = w
  /\ Const = Arg
<1>1. \A w \in FunWord : w = <<"fun", w[2]>> /\ w[1] = "fun" /\ w[2] \in Fun
  BY DEF FunWord
<1>2. \A w \in ThunkWord : w = <<"thunk", w[2]>> /\ w[1] = "thunk" /\ w[2] \in Thunk
  BY DEF ThunkWord
<1>3. Unboxed[1] = "int"
  BY DEF Unboxed
<1>4. \A w : IsPap(w) => w[1] = "pap"
  BY DEF IsPap
<1>5. \A w \in Arg : w[1] \in {"fun", "thunk", "int"} /\ AbsValue(w) = w
  BY <1>1, <1>2, <1>3 DEF Arg, AbsValue
<1>6. Const = Arg
  <2>1. {<<"fun", f>> : f \in Fun} = FunWord
    BY DEF FunWord
  <2>2. {<<"thunk", t>> : t \in Thunk} = ThunkWord
    BY DEF ThunkWord
  <2> QED BY <2>1, <2>2 DEF Const, Arg, Unboxed
<1> QED BY <1>1, <1>2, <1>3, <1>4, <1>5, <1>6

\* The sizes of frames, as far as the program determines them.
LEMMA ArityFacts ==
  /\ \A f \in Fun : Arity[f] \in Nat \ {0} /\ FrameSize[f] \in Nat /\ Arity[f] <= FrameSize[f]
  /\ \A t \in Thunk : FrameSize[t] \in Nat
  /\ \A w \in FunWord : NArgs(w) = Arity[w[2]] /\ NArgs(w) \in Nat \ {0}
                        /\ FrameSize[w[2]] \in Nat /\ NArgs(w) <= FrameSize[w[2]]
  /\ \A w \in ThunkWord : NArgs(w) = 0 /\ FrameSize[w[2]] \in Nat
  /\ StackSize \in Nat /\ StackSize > 3 /\ Guard \in Nat
<1>1. /\ \A f \in Fun : Arity[f] \in Nat \ {0} /\ FrameSize[f] \in Nat /\ Arity[f] <= FrameSize[f]
      /\ \A t \in Thunk : FrameSize[t] \in Nat
      /\ StackSize \in Nat /\ StackSize > 3 /\ Guard \in Nat
  BY GenericApplyAssumption
<1> QED BY <1>1, WordFacts DEF NArgs

\* What a frame that waits stands for, while nothing below the next frame
\* changes.
LEMMA WaitingKept ==
  ASSUME NEW st, NEW new, NEW b \in Nat \ {0}, NEW c \in Nat, Waiting(st, b, c),
         \A j \in 0..(c - 2) : new[j] = st[j]
  PROVE  /\ Waiting(new, b, c) /\ b + 3 <= c
         /\ AbsFrame(new, b, new[c - 2][2]) = AbsFrame(st, b, st[c - 2][2])
<1>1. b + 3 <= c
  <2>1. st[b - 1] \in FunWord => Arity[st[b - 1][2]] \in Nat
    BY ArityFacts, WordFacts
  <2> QED BY <2>1 DEF Waiting
<1>2. new[b - 1] = st[b - 1] /\ new[c - 3] = st[c - 3] /\ new[c - 2] = st[c - 2]
  BY <1>1
<1>3. \A n \in Nat : b + n <= c - 3 =>
        /\ \A i \in 0..(n - 1) : new[b + i] = st[b + i]
        /\ AbsWords(new, b, n) = AbsWords(st, b, n)
        /\ WordsOf(new, b, n) = WordsOf(st, b, n)
  <2> SUFFICES ASSUME NEW n \in Nat, b + n <= c - 3
               PROVE  /\ \A i \in 0..(n - 1) : new[b + i] = st[b + i]
                      /\ AbsWords(new, b, n) = AbsWords(st, b, n)
                      /\ WordsOf(new, b, n) = WordsOf(st, b, n)
    OBVIOUS
  <2>1. \A i \in 0..(n - 1) : new[b + i] = st[b + i]
    OBVIOUS
  <2>2. \A i \in 1..n : new[b + i - 1] = st[b + i - 1]
    OBVIOUS
  <2> QED BY <2>1, <2>2 DEF AbsWords, WordsOf
<1>4. CASE st[c - 2][2] = "case"
  <2>1. /\ st[c - 3][2] = b /\ st[b - 1] \in FunWord
        /\ b + Arity[st[b - 1][2]] <= c - 3
        /\ \A i \in 0..(Arity[st[b - 1][2]] - 1) : IsValue(st[b + i])
    BY <1>4 DEF Waiting
  <2>2. NArgs(st[b - 1]) \in Nat /\ NArgs(st[b - 1]) = Arity[st[b - 1][2]]
    BY <2>1, ArityFacts
  <2>3. Waiting(new, b, c)
    BY <1>2, <1>3, <1>4, <2>1, <2>2 DEF Waiting
  <2>4. AbsWords(new, b, NArgs(st[b - 1])) = AbsWords(st, b, NArgs(st[b - 1]))
    BY <1>3, <2>1, <2>2
  <2>5. AbsFrame(new, b, "case") = AbsFrame(st, b, "case")
    BY <1>2, <2>4 DEF AbsFrame
  <2> QED BY <1>1, <1>2, <1>4, <2>3, <2>5
<1>5. CASE st[c - 2][2] = "apk"
  <2>1. PICK n, m : /\ n = st[b - 1][2] /\ m = st[b - 1][3] /\ n \in Nat \ {0} /\ b + n + 1 <= c - 3
                    /\ \A i \in 0..(n - 1) : st[b + i] \in Arg
                    /\ Exact(m, WordsOf(st, b, n))
    BY <1>5 DEF Waiting
  <2>2. st[c - 3][2] = b
    BY DEF Waiting
  <2>3. /\ \A i \in 0..(n - 1) : new[b + i] \in Arg
        /\ WordsOf(new, b, n) = WordsOf(st, b, n) /\ AbsWords(new, b, n) = AbsWords(st, b, n)
    BY <1>3, <2>1
  <2>4. Waiting(new, b, c)
    BY <1>2, <1>5, <2>1, <2>2, <2>3 DEF Waiting
  <2>5. AbsFrame(new, b, "apk") = AbsFrame(st, b, "apk")
    BY <1>2, <2>1, <2>3 DEF AbsFrame
  <2> QED BY <1>1, <1>2, <1>5, <2>4, <2>5
<1>6. CASE st[c - 2][2] = "upd"
  <2>1. /\ st[c - 3][2] = b
        /\ st[b - 1][1] = "upd" /\ b + 2 <= c - 3 /\ st[b] \in ThunkWord
    BY <1>6 DEF Waiting
  <2>2. new[b] = st[b]
    BY <2>1
  <2>3. Waiting(new, b, c)
    BY <1>2, <1>6, <2>1, <2>2 DEF Waiting
  <2>4. AbsFrame(new, b, "upd") = AbsFrame(st, b, "upd")
    BY <1>2, <2>2 DEF AbsFrame
  <2> QED BY <1>1, <1>2, <1>6, <2>3, <2>4
<1> QED BY <1>4, <1>5, <1>6 DEF Waiting

\* The bases of the frames ascend from the first, which is 3.
LEMMA BaseFacts ==
  ASSUME NEW st, NEW fs, Linked(fs, st)
  PROVE  /\ fs \in Seq(Nat) /\ Len(fs) \in Nat \ {0} /\ fs[1] = 3
         /\ \A i \in 1..Len(fs) : fs[i] \in 3..StackSize
         /\ \A i \in 1..(Len(fs) - 1) : fs[i + 1] <= fs[Len(fs)]
<1>1. fs \in Seq(Nat) /\ Len(fs) \in Nat \ {0} /\ fs[1] = 3
  BY DEF Linked
<1>2. ASSUME NEW i \in 1..Len(fs)
      PROVE  fs[i] \in 3..StackSize
  <2>1. CASE i = Len(fs)
    <3>1. CASE i = 1
      BY <1>1, <3>1, ArityFacts
    <3>2. CASE i # 1
      <4>1. i - 1 \in 1..(Len(fs) - 1) /\ (i - 1) + 1 = i
        BY <1>1, <2>1, <3>2
      <4> QED BY <4>1, LinkFacts
    <3> QED BY <3>1, <3>2
  <2>2. CASE i # Len(fs)
    <3>1. i \in 1..(Len(fs) - 1)
      BY <1>1, <2>2
    <3> QED BY <3>1, LinkFacts
  <2> QED BY <2>1, <2>2
<1>3. ASSUME NEW i \in 1..(Len(fs) - 1)
      PROVE  fs[i + 1] <= fs[Len(fs)]
  <2>1. i + 1 \in 1..Len(fs) /\ Len(fs) \in 1..Len(fs)
    BY <1>1
  <2>2. i + 1 < Len(fs) => fs[i + 1] + 3 <= fs[Len(fs)]
    BY <2>1 DEF Linked
  <2>3. fs[i + 1] \in Nat /\ fs[Len(fs)] \in Nat
    BY <1>1, <2>1
  <2> QED BY <1>1, <2>1, <2>2, <2>3
<1> QED BY <1>1, <1>2, <1>3

\* The frames below the top one stay if nothing below its node changes.
LEMMA Kept ==
  ASSUME NEW st, NEW new, NEW fs, Linked(fs, st),
         \A j \in 0..(fs[Len(fs)] - 2) : new[j] = st[j],
         new[2] = st[2]
  PROVE  Linked(fs, new) /\ KontOf(new, fs, Len(fs)) = KontOf(st, fs, Len(fs))
<1>1. /\ fs \in Seq(Nat) /\ Len(fs) \in Nat \ {0} /\ fs[1] = 3
      /\ \A i \in 1..Len(fs) : fs[i] \in 3..StackSize
      /\ \A i \in 1..(Len(fs) - 1) : fs[i + 1] <= fs[Len(fs)]
  BY BaseFacts
<1>2. ASSUME NEW i \in 2..(Len(fs) - 1)
      PROVE  /\ Waiting(new, fs[i], fs[i + 1])
             /\ AbsFrame(new, fs[i], new[fs[i + 1] - 2][2])
                  = AbsFrame(st, fs[i], st[fs[i + 1] - 2][2])
  <2>1. i \in 1..Len(fs) /\ i + 1 \in 1..Len(fs) /\ i \in 1..(Len(fs) - 1) /\ Len(fs) \in 1..Len(fs)
    BY <1>1
  <2>2. fs[i] \in Nat \ {0} /\ fs[i + 1] \in Nat /\ fs[i + 1] <= fs[Len(fs)] /\ fs[Len(fs)] \in Nat
    BY <1>1, <2>1, SMTT(40)
  <2>3. \A j \in 0..(fs[i + 1] - 2) : new[j] = st[j]
    BY <2>2
  <2>4. Waiting(st, fs[i], fs[i + 1])
    BY DEF Linked
  <2> QED BY <2>2, <2>3, <2>4, WaitingKept
<1>3. ASSUME Len(fs) > 1
      PROVE  new[fs[2] - 3] = st[fs[2] - 3] /\ new[fs[2] - 2] = st[fs[2] - 2]
  <2>1. 2 \in 1..Len(fs) /\ 1 \in 1..(Len(fs) - 1) /\ Len(fs) \in 1..Len(fs)
    BY <1>1, <1>3
  <2>2. fs[2] <= fs[Len(fs)] /\ fs[2] \in 3..StackSize /\ fs[Len(fs)] \in Nat
    BY <1>1, <2>1, SMTT(40)
  <2> QED BY <2>2
<1>4. new[1] = st[1]
  <2>1. Len(fs) \in 1..Len(fs)
    BY <1>1
  <2>2. fs[Len(fs)] \in 3..StackSize
    BY <1>1, <2>1
  <2> QED BY <2>2
<1>5. Linked(fs, new)
  BY <1>2, <1>3, <1>4 DEF Linked
<1>6. KontOf(new, fs, Len(fs)) = KontOf(st, fs, Len(fs))
  <2>1. \A j \in 1..(Len(fs) - 2) : j + 1 \in 2..(Len(fs) - 1) /\ (j + 1) + 1 = j + 2
    BY <1>1
  <2>2. \A j \in 1..(Len(fs) - 2) :
          AbsFrame(new, fs[j + 1], new[fs[j + 2] - 2][2])
            = AbsFrame(st, fs[j + 1], st[fs[j + 2] - 2][2])
    BY <1>2, <2>1
  <2> QED BY <2>2 DEF KontOf
<1> QED BY <1>5, <1>6

\* A frame above the top frame, which waits for it.
LEMMA Pushed ==
  ASSUME NEW st, NEW fs, Linked(fs, st), Len(fs) > 1, NEW c \in Nat,
         c <= StackSize, Waiting(st, fs[Len(fs)], c)
  PROVE  /\ Linked(Append(fs, c), st)
         /\ Len(Append(fs, c)) = Len(fs) + 1 /\ Append(fs, c)[Len(fs) + 1] = c
         /\ Append(fs, c) \in Seq(Nat)
         /\ KontOf(st, Append(fs, c), Len(fs) + 1) =
              Append(KontOf(st, fs, Len(fs)),
                     AbsFrame(st, fs[Len(fs)], st[c - 2][2]))
<1>1. /\ fs \in Seq(Nat) /\ Len(fs) \in Nat \ {0} /\ fs[1] = 3
      /\ \A i \in 1..Len(fs) : fs[i] \in 3..StackSize
      /\ \A i \in 1..(Len(fs) - 1) : fs[i + 1] <= fs[Len(fs)]
  BY BaseFacts
<1>2. PICK gs \in Seq(Nat) : gs = Append(fs, c)
  <2>1. Append(fs, c) \in Seq(Nat)
    BY <1>1
  <2> QED BY <2>1
<1>3. PICK n \in Nat : n = Len(fs)
  BY <1>1
<1>4. /\ Len(gs) = n + 1 /\ gs[n + 1] = c
      /\ \A i \in 1..n : gs[i] = fs[i] /\ i \in 1..Len(fs) /\ fs[i] \in Nat
  BY <1>1, <1>2, <1>3
<1>5. fs[n] \in Nat \ {0} /\ fs[n] + 3 <= c /\ n > 1
  <2>1. fs[n] \in Nat \ {0}
    BY <1>1, <1>3
  <2> QED BY <1>3, <2>1, WaitingKept
<1>6. \A i \in 1..n : fs[i] + 3 <= c
  <2> SUFFICES ASSUME NEW i \in 1..n PROVE fs[i] + 3 <= c
    OBVIOUS
  <2>1. i < n => fs[i] + 3 <= fs[n]
    <3>1. i \in 1..Len(fs) /\ n \in 1..Len(fs)
      BY <1>3, <1>5
    <3> QED BY <3>1 DEF Linked
  <2> QED BY <1>4, <1>5, <2>1
<1>7. \A i, j \in 1..Len(gs) : i < j => gs[i] + 3 <= gs[j]
  <2> SUFFICES ASSUME NEW i \in 1..(n + 1), NEW j \in 1..(n + 1), i < j
               PROVE  gs[i] + 3 <= gs[j]
    BY <1>4
  <2>1. i \in 1..n
    OBVIOUS
  <2>2. CASE j = n + 1
    BY <1>4, <1>6, <2>1, <2>2
  <2>3. CASE j # n + 1
    <3>1. j \in 1..n
      BY <2>3
    <3>2. fs[i] + 3 <= fs[j]
      BY <1>3, <2>1, <3>1 DEF Linked
    <3> QED BY <1>4, <2>1, <3>1, <3>2
  <2> QED BY <2>2, <2>3
<1>8. \A i \in 2..(Len(gs) - 1) : Waiting(st, gs[i], gs[i + 1])
  <2> SUFFICES ASSUME NEW i \in 2..n PROVE Waiting(st, gs[i], gs[i + 1])
    BY <1>4
  <2>1. CASE i = n
    BY <1>3, <1>4, <1>5, <2>1
  <2>2. CASE i # n
    <3>1. i \in 2..(Len(fs) - 1) /\ i \in 1..n /\ i + 1 \in 1..n
      BY <1>3, <2>2
    <3>2. Waiting(st, fs[i], fs[i + 1])
      BY <3>1 DEF Linked
    <3> QED BY <1>4, <3>1, <3>2
  <2> QED BY <2>1, <2>2
<1>9. \A i \in 1..Len(gs) : gs[i] <= StackSize
  <2>1. \A i \in 1..n : gs[i] <= StackSize
    <3>1. \A i \in 1..n : fs[i] <= StackSize
      BY <1>3 DEF Linked
    <3> QED BY <1>4, <3>1
  <2>2. \A i \in 1..Len(gs) : i = n + 1 \/ i \in 1..n
    BY <1>4
  <2> QED BY <1>4, <2>1, <2>2
<1>10. Linked(gs, st)
  <2>1. /\ gs[1] = 3 /\ gs[2] = fs[2] /\ Len(gs) > 0
        /\ st[1][2] = "none" /\ st[2][1] = "stop"
        /\ st[fs[2] - 3][2] = 3 /\ st[fs[2] - 2][2] = "stop"
    <3>1. 1 \in 1..n /\ 2 \in 1..n /\ Len(gs) > 0 /\ Len(fs) > 1
      BY <1>3, <1>4, <1>5
    <3>2. gs[1] = fs[1] /\ gs[2] = fs[2]
      BY <1>4, <3>1
    <3> QED BY <1>1, <3>1, <3>2 DEF Linked
  <2> QED BY <1>7, <1>8, <1>9, <2>1 DEF Linked
<1>11. KontOf(st, gs, n + 1) =
         Append(KontOf(st, fs, n), AbsFrame(st, fs[n], st[c - 2][2]))
  <2>1. PICK k : k = [j \in 1..(n - 1) |-> AbsFrame(st, gs[j + 1], st[gs[j + 2] - 2][2])]
    OBVIOUS
  <2>2. KontOf(st, gs, n + 1) = k
    BY <2>1 DEF KontOf
  <2>3. KontOf(st, fs, n) = [j \in 1..(n - 2) |-> k[j]]
    <3>1. \A j \in 1..(n - 2) : k[j] = AbsFrame(st, fs[j + 1], st[fs[j + 2] - 2][2])
      <4> SUFFICES ASSUME NEW j \in 1..(n - 2)
                   PROVE  k[j] = AbsFrame(st, fs[j + 1], st[fs[j + 2] - 2][2])
        OBVIOUS
      <4>1. j \in 1..(n - 1) /\ j + 1 \in 1..n /\ j + 2 \in 1..n
        BY <1>5
      <4> QED BY <1>4, <2>1, <4>1
    <3> QED BY <3>1 DEF KontOf
  <2>4. k[n - 1] = AbsFrame(st, fs[n], st[c - 2][2])
    <3>1. n - 1 \in 1..(n - 1) /\ n \in 1..n /\ (n - 1) + 1 = n /\ (n - 1) + 2 = n + 1
      BY <1>5
    <3> QED BY <1>4, <2>1, <3>1
  <2>5. n - 2 \in Nat /\ n - 1 = (n - 2) + 1 /\ k = [j \in 1..(n - 1) |-> k[j]]
    BY <1>5, <2>1
  <2>6. k = Append([j \in 1..(n - 2) |-> k[j]], k[n - 1])
    BY <2>5, AppendTo
  <2> QED BY <2>2, <2>3, <2>4, <2>6
<1> QED BY <1>2, <1>3, <1>4, <1>10, <1>11

\* The frame that waits for the top frame.
IsPopped(st, fs, c, gs) ==
  /\ Linked(gs, st) /\ Len(gs) = Len(fs) - 1
  /\ gs[Len(gs)] \in 3..StackSize /\ c \in 3..StackSize
  /\ gs[Len(gs)] + 3 <= c
  /\ st[c - 3][2] = gs[Len(gs)]
  /\ Len(fs) = 2 => gs[Len(gs)] = 3 /\ st[c - 2][2] = "stop"
  /\ Len(fs) # 2 =>
       /\ Waiting(st, gs[Len(gs)], c)
       /\ KontOf(st, fs, Len(fs)) =
            Append(KontOf(st, gs, Len(gs)), AbsFrame(st, gs[Len(gs)], st[c - 2][2]))

\* The frames without the topmost one.
LEMMA Popped ==
  ASSUME NEW st, NEW fs, Linked(fs, st), Len(fs) > 1
  PROVE  \E gs \in Seq(Nat) : IsPopped(st, fs, fs[Len(fs)], gs)
<1> DEFINE c == fs[Len(fs)]
<1>0. \A i \in 1..(Len(fs) - 1) :
        /\ fs[i] \in 3..(fs[i + 1] - 3) /\ fs[i + 1] \in 3..StackSize
        /\ fs[i] \in 3..StackSize
        /\ st[fs[i + 1] - 3][2] = fs[i]
        /\ i = 1 => st[fs[i + 1] - 2][2] = "stop"
  BY LinkFacts
<1>1. /\ fs \in Seq(Nat) /\ Len(fs) \in Nat \ {0} /\ fs[1] = 3
      /\ \A i \in 1..Len(fs) : fs[i] \in 3..StackSize
  BY BaseFacts
<1>2. PICK n \in Nat \ {0} : n = Len(fs) - 1
  BY <1>1
<1>3. PICK gs \in Seq(Nat) : gs = [i \in 1..n |-> fs[i]]
  <2>1. [i \in 1..n |-> fs[i]] \in Seq(Nat)
    <3>1. \A i \in 1..n : fs[i] \in Nat
      BY <1>1, <1>2
    <3> QED BY <3>1
  <2> QED BY <2>1
<1>4. /\ Len(gs) = n /\ n \in 1..n /\ n \in 1..(Len(fs) - 1) /\ n + 1 = Len(fs)
      /\ \A i \in 1..n : gs[i] = fs[i] /\ i \in 1..Len(fs)
  BY <1>1, <1>2, <1>3
<1>5. /\ fs[n] \in 3..(c - 3) /\ c \in 3..StackSize /\ fs[n] \in 3..StackSize
      /\ st[c - 3][2] = fs[n]
      /\ n = 1 => st[c - 2][2] = "stop"
  <2>1. c = fs[n + 1]
    BY <1>4
  <2>2. /\ fs[n] \in 3..(fs[n + 1] - 3) /\ fs[n + 1] \in 3..StackSize /\ fs[n] \in 3..StackSize
        /\ st[fs[n + 1] - 3][2] = fs[n]
        /\ n = 1 => st[fs[n + 1] - 2][2] = "stop"
    BY <1>0, <1>4
  <2> QED BY <2>1, <2>2
<1>6. Linked(gs, st)
  <2>1. \A i \in 1..Len(gs) : gs[i] <= StackSize
    <3>1. \A i \in 1..Len(fs) : fs[i] <= StackSize
      BY DEF Linked
    <3> QED BY <1>4, <3>1
  <2>2. \A i, j \in 1..Len(gs) : i < j => gs[i] + 3 <= gs[j]
    <3>1. \A i, j \in 1..Len(fs) : i < j => fs[i] + 3 <= fs[j]
      BY DEF Linked
    <3> QED BY <1>4, <3>1
  <2>3. \A i \in 2..(Len(gs) - 1) : Waiting(st, gs[i], gs[i + 1])
    <3> SUFFICES ASSUME NEW i \in 2..(n - 1) PROVE Waiting(st, gs[i], gs[i + 1])
      BY <1>4
    <3>1. i \in 2..(Len(fs) - 1) /\ i \in 1..n /\ i + 1 \in 1..n
      BY <1>2
    <3>2. Waiting(st, fs[i], fs[i + 1])
      BY <3>1 DEF Linked
    <3> QED BY <1>4, <3>1, <3>2
  <2>4. gs[1] = 3 /\ Len(gs) > 0
    <3>1. 1 \in 1..n
      OBVIOUS
    <3> QED BY <1>1, <1>4, <3>1
  <2>5. Len(gs) > 1 => st[gs[2] - 3][2] = 3 /\ st[gs[2] - 2][2] = "stop"
    <3> SUFFICES ASSUME n > 1
                 PROVE  st[gs[2] - 3][2] = 3 /\ st[gs[2] - 2][2] = "stop"
      BY <1>4
    <3>1. 2 \in 1..n
      OBVIOUS
    <3>2. gs[2] = fs[2]
      BY <1>4, <3>1
    <3> QED BY <3>2 DEF Linked
  <2>6. st[1][2] = "none" /\ st[2][1] = "stop"
    BY DEF Linked
  <2> QED BY <2>1, <2>2, <2>3, <2>4, <2>5, <2>6 DEF Linked
<1>7. ASSUME n # 1
      PROVE  /\ Waiting(st, fs[n], c)
             /\ KontOf(st, fs, n + 1) =
                  Append(KontOf(st, gs, n), AbsFrame(st, fs[n], st[c - 2][2]))
  <2>1. Waiting(st, fs[n], c)
    <3>1. n \in 2..(Len(fs) - 1)
      BY <1>4, <1>7
    <3>2. Waiting(st, fs[n], fs[n + 1])
      BY <3>1 DEF Linked
    <3> QED BY <1>4, <3>2
  <2>2. PICK k : k = [j \in 1..(n - 1) |-> AbsFrame(st, fs[j + 1], st[fs[j + 2] - 2][2])]
    OBVIOUS
  <2>3. KontOf(st, fs, n + 1) = k
    BY <2>2 DEF KontOf
  <2>4. KontOf(st, gs, n) = [j \in 1..(n - 2) |-> k[j]]
    <3>1. \A j \in 1..(n - 2) : k[j] = AbsFrame(st, gs[j + 1], st[gs[j + 2] - 2][2])
      <4> SUFFICES ASSUME NEW j \in 1..(n - 2)
                   PROVE  k[j] = AbsFrame(st, gs[j + 1], st[gs[j + 2] - 2][2])
        OBVIOUS
      <4>1. j \in 1..(n - 1) /\ j + 1 \in 1..n /\ j + 2 \in 1..n
        OBVIOUS
      <4> QED BY <1>4, <2>2, <4>1
    <3> QED BY <3>1 DEF KontOf
  <2>5. k[n - 1] = AbsFrame(st, fs[n], st[c - 2][2])
    <3>1. n - 1 \in 1..(n - 1) /\ (n - 1) + 1 = n /\ (n - 1) + 2 = n + 1
      BY <1>7
    <3> QED BY <1>4, <2>2, <3>1
  <2>6. n - 2 \in Nat /\ n - 1 = (n - 2) + 1 /\ k = [j \in 1..(n - 1) |-> k[j]]
    BY <1>7, <2>2
  <2>7. k = Append([j \in 1..(n - 2) |-> k[j]], k[n - 1])
    BY <2>6, AppendTo
  <2> QED BY <2>1, <2>3, <2>4, <2>5, <2>7
<1>8. gs[n] = fs[n] /\ (Len(fs) = 2 <=> n = 1)
  <2>1. PICK m \in Nat : m = Len(fs)
    BY <1>1
  <2>2. n + 1 = m /\ (m = 2 <=> n = 1)
    BY <1>4, <2>1
  <2>3. gs[n] = fs[n]
    BY <1>4
  <2> QED BY <2>1, <2>2, <2>3
<1>9. n = 1 => gs[n] = 3
  BY <1>1, <1>8
<1>10. Len(gs) = n /\ Len(fs) = n + 1 /\ Len(fs) - 1 = n
  BY <1>2, <1>4
<1>11. IsPopped(st, fs, c, gs)
  BY <1>5, <1>6, <1>7, <1>8, <1>9, <1>10 DEF IsPopped
<1> QED BY <1>11

\* What a write changes.
LEMMA WriteFacts ==
  ASSUME NEW st, NEW a, NEW ws
  PROVE  /\ DOMAIN Write(st, a, ws) = DOMAIN st
         /\ \A i \in DOMAIN st :
              Write(st, a, ws)[i] = IF i \in a..(a + Len(ws) - 1) THEN ws[i - a + 1]
                                    ELSE st[i]
BY DEF Write

-----------------------------------------------------------------------------
(***************************************************************************)
(* The state of the abstract machine, before and after a step.             *)
(***************************************************************************)

\* The state of the abstract machine, by the frames,
LEMMA AbsNow ==
  ASSUME NEW fs, Linked(fs, stack), TopInv(fs), mode # "overflow"
  PROVE  /\ absMode = IF mode = "start" THEN "apply" ELSE mode
         /\ absKont = KontOf(stack, fs, Len(fs))
         /\ mode \in {"body", "apply"} => absNode = AbsValue(Node)
         /\ mode \notin {"start", "body", "apply"} => absNode = Unboxed
         /\ mode = "body" => absLocals = AbsWords(stack, base, NArgs(Node))
         /\ mode = "apply" => absLocals = AbsWords(stack, base, given)
         /\ mode = "ret" => absLocals = AbsWords(stack, base, 1)
         /\ mode = "start" => absNode = <<"thunk", Main>> /\ absLocals = << >>
         /\ Chain(stack)[base] = UpTo(fs, Len(fs))
<1>1. Len(fs) \in 1..Len(fs) /\ base = fs[Len(fs)]
  BY BaseFacts DEF TopInv
<1>2. Kont(stack)[base] = KontOf(stack, fs, Len(fs)) /\ Chain(stack)[base] = UpTo(fs, Len(fs))
  BY <1>1, Followed
<1> QED BY <1>2 DEF absMode, absKont, absNode, absLocals

\* and after a step.
LEMMA AbsNext ==
  ASSUME NEW fs, Linked(fs, stack'), base' = fs[Len(fs)], mode' # "overflow"
  PROVE  /\ absMode' = IF mode' = "start" THEN "apply" ELSE mode'
         /\ absKont' = KontOf(stack', fs, Len(fs))
         /\ mode' \in {"body", "apply"} => absNode' = AbsValue(stack'[base' - 1])
         /\ mode' \notin {"start", "body", "apply"} => absNode' = Unboxed
         /\ mode' = "body" => absLocals' = AbsWords(stack', base', NArgs(stack'[base' - 1]))
         /\ mode' = "apply" => absLocals' = AbsWords(stack', base', given')
         /\ mode' = "ret" => absLocals' = AbsWords(stack', base', 1)
         /\ mode' = "stop" => absLocals' = AbsWords(stack', top' + 3, 1)
<1>1. Len(fs) \in 1..Len(fs)
  BY BaseFacts
<1>2. Kont(stack')[base'] = KontOf(stack', fs, Len(fs))
  BY <1>1, Followed
<1> QED BY <1>2 DEF absMode, absKont, absNode, absLocals, Node, FRAME_SIZE

\* When the stack overflows, so does that of the machine.
LEMMA AbsOverflow ==
  ASSUME mode \in {"start", "body", "apply", "ret"}, mode' = "overflow", UNCHANGED value
  PROVE  Machine!Next
<1>1. absMode' = "overflow" /\ absNode' = Unboxed /\ absLocals' = << >> /\ absKont' = << >>
  BY DEF absMode, absNode, absLocals, absKont
<1>2. absMode \in {"body", "apply", "ret"}
  BY DEF absMode
<1>3. absValue' = absValue
  BY DEF absValue
<1> QED BY <1>1, <1>2, <1>3 DEF Machine!Next, Machine!Overflow, Machine!Unboxed, Unboxed

\* Values of the program and of the machine.
LEMMA DerefFacts ==
  ASSUME StackInv, NEW v, IsValue(v)
  PROVE  /\ IsValue(Deref(v))
         /\ Machine!Deref(AbsValue(v)) = AbsValue(Deref(v))
         /\ v # Unboxed => /\ AbsValue(v) # Unboxed
                           /\ Deref(v) \in FunWord \cup ThunkWord \/ IsPap(Deref(v))
         /\ Deref(v)[1] = "thunk" => Deref(v) = v /\ v \in ThunkWord
         /\ IsHNF(v) => Deref(v) = v
         /\ IsHNF(AbsValue(v)) <=> IsHNF(v)
<1>1. /\ AbsValue(v)[1] = v[1]
      /\ v # Unboxed => AbsValue(v) # Unboxed
      /\ v \in Arg => AbsValue(v) = v
      /\ v[1] = "thunk" => v \in ThunkWord
      /\ v # Unboxed => v \in FunWord \cup ThunkWord \/ IsPap(v)
  BY WordFacts DEF IsValue, AbsValue, Arg, IsPap, Unboxed
<1>2. CASE v[1] = "thunk"
  <2>1. v = <<"thunk", v[2]>> /\ v[2] \in Thunk /\ AbsValue(v) = v /\ v \in ThunkWord
    BY <1>1, <1>2, WordFacts DEF Arg
  <2>2. absValue[v[2]] = AbsValue(value[v[2]])
    BY <2>1 DEF absValue
  <2>3. CASE value[v[2]] = Unboxed
    <3>1. Deref(v) = v
      BY <2>3 DEF Deref
    <3>2. absValue[v[2]] = Unboxed
      BY <2>2, <2>3, WordFacts DEF Arg
    <3>3. Machine!Deref(v) = v
      BY <3>2 DEF Machine!Deref, Machine!Unboxed, Unboxed
    <3> QED BY <1>1, <1>2, <2>1, <3>1, <3>3 DEF IsHNF
  <2>4. CASE value[v[2]] # Unboxed
    <3>1. IsValue(value[v[2]]) /\ IsHNF(value[v[2]])
      BY <2>1, <2>4 DEF StackInv
    <3>2. Deref(v) = value[v[2]]
      BY <1>2, <2>4 DEF Deref
    <3>3. value[v[2]] \in FunWord \/ IsPap(value[v[2]])
      BY <3>1, WordFacts DEF IsValue, IsHNF, Arg
    <3>4. AbsValue(value[v[2]])[1] \in {"fun", "pap"}
      BY <3>3, WordFacts DEF AbsValue, IsPap
    <3>5. Machine!Deref(v) = AbsValue(value[v[2]])
      BY <1>2, <2>2, <3>4 DEF Machine!Deref, Machine!Unboxed
    <3> QED BY <1>1, <1>2, <2>1, <3>1, <3>2, <3>3, <3>5 DEF IsHNF
  <2> QED BY <2>3, <2>4
<1>3. CASE v[1] # "thunk"
  <2>1. Deref(v) = v
    BY <1>3 DEF Deref
  <2>2. Machine!Deref(AbsValue(v)) = AbsValue(v)
    <3>1. PICK w : w = AbsValue(v)
      OBVIOUS
    <3>2. Machine!Deref(w) = w
      BY <1>1, <1>3, <3>1 DEF Machine!Deref
    <3> QED BY <3>1, <3>2
  <2>3. IsHNF(AbsValue(v)) <=> IsHNF(v)
    BY <1>1 DEF IsHNF
  <2> QED BY <1>1, <1>3, <2>1, <2>2, <2>3
<1> QED BY <1>2, <1>3

-----------------------------------------------------------------------------
(***************************************************************************)
(* What is written, and the arguments of calls.                            *)
(***************************************************************************)

\* The stack new is st, but for the n words of ws at a.
WrittenAt(new, st, a, ws, n) ==
  /\ GoodStack(new)
  /\ \A i \in 0..(StackSize + Guard - 1) :
       new[i] = IF i \in a..(a + n - 1) THEN ws[i - a + 1] ELSE st[i]

\* What is on the stack when words were written to it.
LEMMA Written ==
  ASSUME NEW st, GoodStack(st), NEW a \in Nat, NEW n \in Nat, NEW ws, Len(ws) = n,
         \A j \in 1..n : Good(ws[j])
  PROVE  WrittenAt(Write(st, a, ws), st, a, ws, n)
<1>1. \A i \in 0..(StackSize + Guard - 1) :
        Write(st, a, ws)[i] = IF i \in a..(a + n - 1) THEN ws[i - a + 1] ELSE st[i]
  BY DEF GoodStack, Write
<1>2. \A i \in a..(a + n - 1) : i - a + 1 \in 1..n
  OBVIOUS
<1>3. DOMAIN Write(st, a, ws) = 0..(StackSize + Guard - 1)
  BY DEF GoodStack, Write
<1>4. \A i \in 0..(StackSize + Guard - 1) : Good(Write(st, a, ws)[i])
  BY <1>1, <1>2 DEF GoodStack
<1> QED BY <1>1, <1>3, <1>4 DEF GoodStack, WrittenAt

\* A sequence is a function of its places.
LEMMA SeqFacts ==
  ASSUME NEW S, NEW s \in Seq(S)
  PROVE  /\ Len(s) \in Nat /\ (s # << >> => Len(s) \in Nat \ {0})
         /\ s = [i \in 1..Len(s) |-> s[i]] /\ DOMAIN s = 1..Len(s)
         /\ \A i \in 1..Len(s) : s[i] \in S
<1>1. Len(s) \in Nat /\ s \in [1..Len(s) -> S] /\ DOMAIN s = 1..Len(s)
  BY LenProperties
<1>2. s # << >> => Len(s) \in Nat \ {0}
  BY EmptySeq
<1> QED BY <1>1, <1>2

\* Arguments of a call.
LEMMA ArgListFacts ==
  ASSUME NEW as \in ArgList
  PROVE  /\ as \in Seq(Arg) /\ Len(as) \in Nat \ {0}
         /\ \A i \in 1..Len(as) : as[i] \in Arg
         /\ Len(as) <= MaskBits
<1>1. as \in Seq(Arg)
  <2>1. ({"fun"} \X Fun) \cup ({"thunk"} \X Thunk) \cup {<<"int">>} = Arg
    BY DEF Arg, FunWord, ThunkWord, Unboxed
  <2> QED BY <2>1, GenericApplyAssumption
<1>2. as # << >>
  BY GenericApplyAssumption
<1>3. Len(as) \in Nat \ {0} /\ \A i \in 1..Len(as) : as[i] \in Arg
  BY <1>1, <1>2, SeqFacts
<1>4. Len(as) <= MaskBits
  BY GenericApplyAssumption
<1> QED BY <1>1, <1>3, <1>4

\* Arguments, values and partial applications, and what they stand for.
LEMMA ValueFacts ==
  /\ \A w \in Arg : Good(w) /\ IsValue(w) /\ AbsValue(w) = w
  /\ \A w : IsValue(w) => Good(w)
  /\ \A w : IsPap(w) => Good(w) /\ IsValue(w)
  /\ \A w : w[1] # "pap" => Good(w) /\ AbsValue(w) = w
  /\ \A w : IsValue(w) /\ IsHNF(w) => w \in FunWord \/ IsPap(w)
  /\ \A w : w \in FunWord \/ IsPap(w) => IsValue(w) /\ IsHNF(w) /\ w # Unboxed
BY WordFacts DEF Good, IsValue, Arg, IsPap, AbsValue, IsHNF, Unboxed

\* The n words at b are those of as, which are arguments.
HasArgs(st, b, n, as) ==
  /\ WordsOf(st, b, n) = as /\ AbsWords(st, b, n) = as
  /\ \A i \in 0..(n - 1) : st[b + i] \in Arg
\* The arguments on the stack are those that were put there.
LEMMA ReadBack ==
  ASSUME NEW st, NEW b \in Nat, NEW n \in Nat, NEW as \in Seq(Arg), Len(as) = n,
         \A i \in 0..(n - 1) : st[b + i] = as[i + 1]
  PROVE  HasArgs(st, b, n, as)
<1>1. \A i \in 1..n : st[b + i - 1] = as[i] /\ as[i] \in Arg
  <2> SUFFICES ASSUME NEW i \in 1..n PROVE st[b + i - 1] = as[i] /\ as[i] \in Arg
    OBVIOUS
  <2>1. PICK k \in 0..(n - 1) : k = i - 1 /\ k + 1 = i /\ b + k = b + i - 1
    OBVIOUS
  <2>2. st[b + k] = as[k + 1]
    OBVIOUS
  <2> QED BY <2>1, <2>2, SeqFacts
<1>2. as = [i \in 1..n |-> as[i]]
  BY SeqFacts
<1>3. \A i \in 1..n : AbsValue(st[b + i - 1]) = as[i]
  BY <1>1, WordFacts
<1>4. \A i \in 0..(n - 1) : i + 1 \in 1..n
  OBVIOUS
<1> QED BY <1>1, <1>2, <1>3, <1>4 DEF WordsOf, AbsWords, HasArgs

\* The continuation l is k with the frame e above it.
Ends(l, k, e) == l # << >> /\ Machine!Front(l) = k /\ Machine!Last(l) = e

\* Continuations are sequences.
LEMMA KontEnds ==
  ASSUME NEW st, NEW fs, NEW n \in Nat, NEW e
  PROVE  Ends(Append(KontOf(st, fs, n), e), KontOf(st, fs, n), e)
<1>1. PICK m \in Nat : 1..(n - 2) = 1..m
  <2>1. n >= 2 => n - 2 \in Nat
    OBVIOUS
  <2>2. n < 2 => 1..(n - 2) = 1..0
    OBVIOUS
  <2> QED BY <2>1, <2>2
<1>2. PICK k : k = [j \in 1..m |-> AbsFrame(st, fs[j + 1], st[fs[j + 2] - 2][2])]
  OBVIOUS
<1>3. KontOf(st, fs, n) = k
  BY <1>1, <1>2 DEF KontOf
<1>4. ASSUME NEW d
      PROVE  \E S : k \in Seq(S) /\ e \in S /\ d \in S
  <2>1. PICK S : S = {k[j] : j \in 1..m} \cup {d, e}
    OBVIOUS
  <2>2. k \in [1..m -> S]
    BY <1>2, <2>1
  <2>3. k \in Seq(S)
    BY <2>2, SeqDef
  <2> QED BY <2>1, <2>3
<1>5. PICK S : k \in Seq(S) /\ e \in S
  BY <1>4
<1>6. Append(k, e) # << >> /\ Append(k, e) = k \o <<e>>
  BY <1>5, AppendProperties, AppendIsConcat
<1>7. Machine!Front(Append(k, e)) = k /\ Machine!Last(Append(k, e)) = e
  <2>1. PICK s : s = Append(k, e)
    OBVIOUS
  <2>2. /\ Len(s) = Len(k) + 1 /\ s[Len(k) + 1] = e /\ Len(k) = m /\ s \in Seq(S)
        /\ \A i \in 1..Len(k) : s[i] = k[i]
    <3>1. Len(k) = m
      <4>1. DOMAIN k = 1..m
        BY <1>2
      <4> QED BY <1>5, <4>1, SeqFacts
    <3> QED BY <1>5, <2>1, <3>1, AppendProperties
  <2>3. Machine!Last(s) = e
    BY <2>2 DEF Machine!Last
  <2>4. Machine!Front(s) = k
    <3>1. SubSeq(s, 1, m) \in Seq(S) /\ Len(SubSeq(s, 1, m)) = m /\ \A i \in 1..m : SubSeq(s, 1, m)[i] = s[i]
      <4>1. \A i \in 1..m : s[i] \in S
        BY <1>5, <2>2, SeqFacts
      <4>2. SubSeq(s, 1, m) \in Seq(S) /\ Len(SubSeq(s, 1, m)) = (IF 1 <= m THEN m - 1 + 1 ELSE 0)
            /\ \A i \in 1..(m - 1 + 1) : SubSeq(s, 1, m)[i] = s[1 + i - 1]
        BY <4>1, SubSeqProperties
      <4> QED BY <4>2
    <3>2. SubSeq(s, 1, m) = k
      BY <1>5, <2>2, <3>1, SeqEqual
    <3>3. Machine!Front(s) = SubSeq(s, 1, Len(s) - 1)
      BY DEF Machine!Front
    <3> QED BY <2>2, <3>2, <3>3
  <2> QED BY <2>1, <2>3, <2>4
<1> QED BY <1>3, <1>6, <1>7 DEF Ends

\* The last of the frames that wait, and those before it.
LEMMA KontFacts ==
  ASSUME NEW st, NEW fs, NEW n \in Nat, NEW e
  PROVE  /\ Machine!Front(Append(KontOf(st, fs, n), e)) = KontOf(st, fs, n)
         /\ Machine!Last(Append(KontOf(st, fs, n), e)) = e
         /\ Append(KontOf(st, fs, n), e) # << >>
         /\ Append(KontOf(st, fs, n), e) = KontOf(st, fs, n) \o <<e>>
         /\ \A d : Append(Append(KontOf(st, fs, n), e), d) = Append(KontOf(st, fs, n), e) \o <<d>>
<1>1. PICK m \in Nat : 1..(n - 2) = 1..m
  <2>1. n >= 2 => n - 2 \in Nat
    OBVIOUS
  <2>2. n < 2 => 1..(n - 2) = 1..0
    OBVIOUS
  <2> QED BY <2>1, <2>2
<1>2. PICK k : k = [j \in 1..m |-> AbsFrame(st, fs[j + 1], st[fs[j + 2] - 2][2])]
  OBVIOUS
<1>3. KontOf(st, fs, n) = k
  BY <1>1, <1>2 DEF KontOf
<1>4. ASSUME NEW d
      PROVE  \E S : k \in Seq(S) /\ e \in S /\ d \in S
  <2>1. PICK S : S = {k[j] : j \in 1..m} \cup {d, e}
    OBVIOUS
  <2>2. k \in [1..m -> S]
    BY <1>2, <2>1
  <2>3. k \in Seq(S)
    BY <2>2, SeqDef
  <2> QED BY <2>1, <2>3
<1>5. PICK S : k \in Seq(S) /\ e \in S
  BY <1>4
<1>6. Append(k, e) # << >> /\ Append(k, e) = k \o <<e>>
  BY <1>5, AppendProperties, AppendIsConcat
<1>7. Machine!Front(Append(k, e)) = k /\ Machine!Last(Append(k, e)) = e
  <2>1. PICK s : s = Append(k, e)
    OBVIOUS
  <2>2. /\ Len(s) = Len(k) + 1 /\ s[Len(k) + 1] = e /\ Len(k) = m /\ s \in Seq(S)
        /\ \A i \in 1..Len(k) : s[i] = k[i]
    <3>1. Len(k) = m
      <4>1. DOMAIN k = 1..m
        BY <1>2
      <4> QED BY <1>5, <4>1, SeqFacts
    <3> QED BY <1>5, <2>1, <3>1, AppendProperties
  <2>3. Machine!Last(s) = e
    BY <2>2 DEF Machine!Last
  <2>4. Machine!Front(s) = k
    <3>1. SubSeq(s, 1, m) \in Seq(S) /\ Len(SubSeq(s, 1, m)) = m /\ \A i \in 1..m : SubSeq(s, 1, m)[i] = s[i]
      <4>1. \A i \in 1..m : s[i] \in S
        BY <1>5, <2>2, SeqFacts
      <4>2. SubSeq(s, 1, m) \in Seq(S) /\ Len(SubSeq(s, 1, m)) = (IF 1 <= m THEN m - 1 + 1 ELSE 0)
            /\ \A i \in 1..(m - 1 + 1) : SubSeq(s, 1, m)[i] = s[1 + i - 1]
        BY <4>1, SubSeqProperties
      <4> QED BY <4>2
    <3>2. SubSeq(s, 1, m) = k
      BY <1>5, <2>2, <3>1, SeqEqual
    <3>3. Machine!Front(s) = SubSeq(s, 1, Len(s) - 1)
      BY DEF Machine!Front
    <3> QED BY <2>2, <3>2, <3>3
  <2> QED BY <2>1, <2>3, <2>4
<1>8. ASSUME NEW d
      PROVE  Append(Append(k, e), d) = Append(k, e) \o <<d>>
  <2>1. PICK D : k \in Seq(D) /\ e \in D /\ d \in D
    BY <1>4
  <2>2. Append(k, e) \in Seq(D)
    BY <2>1, AppendProperties
  <2> QED BY <2>1, <2>2, AppendIsConcat
<1> QED BY <1>3, <1>6, <1>7, <1>8

\* What a function body can use.
LEMMA OperandFacts ==
  ASSUME mode = "body", BodyInv, NEW v
  PROVE  /\ v \in Range(Locals) => IsValue(v) /\ AbsValue(v) \in Machine!Range(absLocals)
         /\ v \in Operand => IsValue(v) /\ AbsValue(v) \in Machine!Operand
<1>1. PICK n \in Nat : n = NArgs(Node)
  BY ArityFacts DEF BodyInv
<1>2. /\ Locals = [i \in 1..n |-> stack[base + i - 1]]
      /\ absLocals = [i \in 1..n |-> AbsValue(stack[base + i - 1])]
  BY <1>1 DEF Locals, Words, absLocals, AbsWords
<1>3. ASSUME v \in Range(Locals)
      PROVE  IsValue(v) /\ AbsValue(v) \in Machine!Range(absLocals)
  <2>1. PICK i \in 1..n : v = stack[base + i - 1]
    BY <1>2, <1>3 DEF Range
  <2>2. absLocals[i] = AbsValue(v) /\ i \in DOMAIN absLocals
    BY <1>2, <2>1
  <2>3. AbsValue(v) \in Machine!Range(absLocals)
    BY <2>2 DEF Machine!Range
  <2>4. PICK j \in 0..(n - 1) : j = i - 1 /\ base + j = base + i - 1
    BY DEF BodyInv
  <2>5. IsValue(stack[base + j])
    BY <1>1, <2>4 DEF BodyInv
  <2> QED BY <2>1, <2>3, <2>4, <2>5
<1>4. ASSUME v \in Const
      PROVE  IsValue(v) /\ AbsValue(v) \in Machine!Const
  <2>1. Machine!Const = Const
    BY DEF Machine!Const, Const, Machine!Unboxed, Unboxed
  <2> QED BY <1>4, <2>1, WordFacts, ValueFacts
<1> QED BY <1>3, <1>4 DEF Operand, Machine!Operand

\* The elements of a sequence that was appended to.
LEMMA AppendAt ==
  ASSUME NEW S, NEW s \in Seq(S), NEW e \in S
  PROVE  /\ Append(s, e) \in Seq(S) /\ Len(Append(s, e)) = Len(s) + 1
         /\ Append(s, e)[Len(s) + 1] = e
         /\ \A i \in 1..Len(s) : Append(s, e)[i] = s[i]
BY AppendProperties

\* ws is p followed by q.
IsConcat(ws, p, q) ==
  /\ Len(ws) = Len(p) + Len(q)
  /\ \A i \in 1..Len(p) : ws[i] = p[i]
  /\ \A i \in 1..Len(q) : ws[Len(p) + i] = q[i]

\* The elements of a concatenation.
LEMMA ConcatAt ==
  ASSUME NEW S, NEW p \in Seq(S), NEW q \in Seq(S)
  PROVE  p \o q \in Seq(S) /\ IsConcat(p \o q, p, q)
<1>0. PICK m, n \in Nat : m = Len(p) /\ n = Len(q)
  BY SeqFacts
<1>1. /\ p \o q \in Seq(S) /\ Len(p \o q) = m + n
      /\ \A i \in 1..(m + n) : (p \o q)[i] = IF i <= m THEN p[i] ELSE q[i - m]
  BY <1>0, ConcatProperties
<1>2. \A i \in 1..m : (p \o q)[i] = p[i]
  <2>1. \A i \in 1..m : i \in 1..(m + n) /\ i <= m
    OBVIOUS
  <2> QED BY <1>1, <2>1
<1>3. \A i \in 1..n : (p \o q)[m + i] = q[i]
  <2>1. \A i \in 1..n : m + i \in 1..(m + n) /\ ~ (m + i <= m) /\ (m + i) - m = i
    OBVIOUS
  <2> QED BY <1>1, <2>1
<1> QED BY <1>0, <1>1, <1>2, <1>3 DEF IsConcat

\* The first frame above that of stg_STOP.
LEMMA PushedFirst ==
  ASSUME NEW st, NEW fs, Linked(fs, st), ~ (Len(fs) > 1), NEW c \in Nat,
         6 <= c, c <= StackSize, st[c - 3][2] = 3, st[c - 2][2] = "stop"
  PROVE  \E gs \in Seq(Nat) :
           /\ Linked(gs, st) /\ Len(gs) > 1 /\ gs[Len(gs)] = c
           /\ KontOf(st, gs, Len(gs)) = << >>
<1>1. PICK gs \in Seq(Nat) : gs = Append(fs, c)
  <2>1. Append(fs, c) \in Seq(Nat)
    BY BaseFacts
  <2> QED BY <2>1
<1>2. Len(gs) = 2 /\ gs[1] = 3 /\ gs[2] = c /\ fs[1] = 3
  <2>1. fs \in Seq(Nat) /\ fs[1] = 3
    BY BaseFacts
  <2>2. PICK n \in Nat : n = Len(fs)
    BY <2>1
  <2>3. Len(gs) = n + 1 /\ gs[n + 1] = c /\ \A i \in 1..n : gs[i] = fs[i]
    BY <1>1, <2>1, <2>2, AppendAt
  <2>4. n = 1
    BY <2>2, BaseFacts
  <2> QED BY <2>1, <2>3, <2>4
<1>3. Linked(gs, st)
  <2>1. \A i \in 1..Len(gs) : gs[i] <= StackSize
    BY <1>2, ArityFacts
  <2>2. \A i, j \in 1..Len(gs) : i < j => gs[i] + 3 <= gs[j]
    BY <1>2
  <2>3. \A i \in 2..(Len(gs) - 1) : Waiting(st, gs[i], gs[i + 1])
    BY <1>2
  <2> QED BY <1>2, <2>1, <2>2, <2>3 DEF Linked
<1>4. KontOf(st, gs, Len(gs)) = << >>
  <2>1. KontOf(st, gs, 2) = << >>
    BY DEF KontOf
  <2> QED BY <1>2, <2>1
<1>5. Len(gs) > 1 /\ gs[Len(gs)] = c
  BY <1>2
<1> WITNESS gs \in Seq(Nat)
<1> QED BY <1>3, <1>4, <1>5

\* The words of the frames that EVAL pushes.
LEMMA EvalFramesAt ==
  ASSUME NEW st, GoodStack(st), NEW t \in Nat, NEW b, NEW pc, NEW th \in ThunkWord,
         t + 8 <= StackSize
  PROVE  /\ GoodStack(Write(st, t, EvalFrames(t, b, pc, th)))
         /\ \A i \in 0..(StackSize + Guard - 1) :
              i < t \/ i > t + 7 => Write(st, t, EvalFrames(t, b, pc, th))[i] = st[i]
         /\ Write(st, t, EvalFrames(t, b, pc, th))[t][2] = b
         /\ Write(st, t, EvalFrames(t, b, pc, th))[t + 1][2] = pc
         /\ Write(st, t, EvalFrames(t, b, pc, th))[t + 2][1] = "upd"
         /\ Write(st, t, EvalFrames(t, b, pc, th))[t + 3] = th
         /\ Write(st, t, EvalFrames(t, b, pc, th))[t + 5][2] = t + 3
         /\ Write(st, t, EvalFrames(t, b, pc, th))[t + 6][2] = "upd"
         /\ Write(st, t, EvalFrames(t, b, pc, th))[t + 7] = th
<1>1. PICK ws : ws = EvalFrames(t, b, pc, th)
  OBVIOUS
<1>2. PICK x1, x2, x3, x5, x6, x7 :
        /\ x1 = <<"base", b>> /\ x2 = <<"pc", pc>> /\ x3 = <<"upd">> /\ x5 = <<"int">>
        /\ x6 = <<"base", t + 3>> /\ x7 = <<"pc", "upd">>
  OBVIOUS
<1>3. /\ Len(ws) = 8
      /\ ws[1] = x1 /\ ws[2] = x2 /\ ws[3] = x3 /\ ws[4] = th /\ ws[5] = x5
      /\ ws[6] = x6 /\ ws[7] = x7 /\ ws[8] = th
  <2>1. ws = (<<x1, x2, x3>> \o <<th, x5>>) \o <<x6, x7, th>>
    BY <1>1, <1>2 DEF EvalFrames, Link, FRAME_SIZE, Unboxed
  <2>2. PICK S : S = {x1, x2, x3, th, x5, x6, x7}
    OBVIOUS
  <2>3. <<x1, x2, x3>> \in Seq(S) /\ <<th, x5>> \in Seq(S) /\ <<x6, x7, th>> \in Seq(S)
    BY <2>2
  <2>4. PICK p \in Seq(S) : p = <<x1, x2, x3>> \o <<th, x5>>
    BY <2>3, ConcatProperties
  <2>5. Len(p) = 5 /\ p[1] = x1 /\ p[2] = x2 /\ p[3] = x3 /\ p[4] = th /\ p[5] = x5
    BY <2>4
  <2>6. ws = p \o <<x6, x7, th>>
    BY <2>1, <2>4
  <2>7. Len(ws) = 8 /\ (\A i \in 1..5 : ws[i] = p[i])
        /\ ws[6] = x6 /\ ws[7] = x7 /\ ws[8] = th
    <3>1. PICK q \in Seq(S) : q = <<x6, x7, th>>
      BY <2>3
    <3>2. Len(q) = 3 /\ q[1] = x6 /\ q[2] = x7 /\ q[3] = th
      BY <3>1
    <3>3. PICK m, n \in Nat : m = Len(p) /\ n = Len(q)
      BY SeqFacts
    <3>4. /\ Len(ws) = m + n
          /\ \A i \in 1..m : ws[i] = p[i]
          /\ \A i \in 1..n : ws[m + i] = q[i]
      BY <2>6, <3>1, <3>3, ConcatAt DEF IsConcat
    <3>5. m = 5 /\ n = 3
      BY <2>5, <3>2, <3>3
    <3> QED BY <3>2, <3>4, <3>5
  <2> QED BY <2>5, <2>7
<1>4. \A j \in 1..8 : Good(ws[j])
  <2>1. th[1] = "thunk" /\ x1[1] = "base" /\ x2[1] = "pc" /\ x3[1] = "upd" /\ x5[1] = "int"
        /\ x6[1] = "base" /\ x7[1] = "pc"
    BY <1>2, WordFacts
  <2>2. Good(x1) /\ Good(x2) /\ Good(x3) /\ Good(th) /\ Good(x5) /\ Good(x6) /\ Good(x7)
    BY <2>1 DEF Good
  <2>3. \A j \in 1..8 : ws[j] \in {x1, x2, x3, th, x5, x6, x7}
    <3>1. \A j \in 1..8 : j \in {1, 2, 3, 4, 5, 6, 7, 8}
      OBVIOUS
    <3> QED BY <1>3, <3>1
  <2> QED BY <2>2, <2>3
<1>5. PICK new : new = Write(st, t, ws)
  OBVIOUS
<1>6. /\ GoodStack(new)
      /\ \A i \in 0..(StackSize + Guard - 1) :
           new[i] = IF i \in t..(t + 8 - 1) THEN ws[i - t + 1] ELSE st[i]
  <2>1. PICK n \in Nat : n = 8
    OBVIOUS
  <2>2. Len(ws) = n /\ \A j \in 1..n : Good(ws[j])
    BY <1>3, <1>4, <2>1
  <2>3. /\ GoodStack(new)
        /\ \A i \in 0..(StackSize + Guard - 1) :
             new[i] = IF i \in t..(t + n - 1) THEN ws[i - t + 1] ELSE st[i]
    BY <1>5, <2>2, Written DEF WrittenAt
  <2> QED BY <2>1, <2>3
<1>7. \A i \in 0..7 : new[t + i] = ws[i + 1]
  BY <1>6, ArityFacts
<1>8. /\ new[t] = ws[1] /\ new[t + 1] = ws[2] /\ new[t + 2] = ws[3] /\ new[t + 3] = ws[4]
      /\ new[t + 5] = ws[6] /\ new[t + 6] = ws[7] /\ new[t + 7] = ws[8]
  <2>1. new[t + 0] = ws[0 + 1] /\ t + 0 = t
    BY <1>7
  <2> QED BY <1>7, <2>1
<1>9. \A i \in 0..(StackSize + Guard - 1) : i < t \/ i > t + 7 => new[i] = st[i]
  BY <1>6
<1>10. x1[2] = b /\ x2[2] = pc /\ x3[1] = "upd" /\ x6[2] = t + 3 /\ x7[2] = "upd"
  BY <1>2
<1> QED BY <1>1, <1>3, <1>5, <1>6, <1>8, <1>9, <1>10

\* EVAL pushes an update frame and the frame of the thunk above a frame that
\* waits or that of stg_STOP.
Below(st, fs, new, pc) ==
  IF Len(fs) > 1 THEN Append(KontOf(st, fs, Len(fs)), AbsFrame(new, fs[Len(fs)], pc))
  ELSE << >>

UpdFrame(th) == [k |-> "upd", node |-> th, args |-> << >>]

\* The top frame of st begins at b and has the continuation k.
TopFrame(st, b, k) ==
  \E gs \in Seq(Nat) :
    Linked(gs, st) /\ Len(gs) > 1 /\ gs[Len(gs)] = b /\ KontOf(st, gs, Len(gs)) = k

\* To evaluate a thunk pushes its update frame, and the frame below waits for
\* it.
LEMMA Entered ==
  ASSUME NEW st, GoodStack(st), NEW fs, Linked(fs, st), NEW t \in Nat, NEW pc,
         NEW th \in ThunkWord, t + 8 <= StackSize, fs[Len(fs)] + 1 <= t,
         NEW new, new = Write(st, t, EvalFrames(t, fs[Len(fs)], pc, th)),
         Len(fs) > 1 => Waiting(new, fs[Len(fs)], t + 3),
         ~ (Len(fs) > 1) => pc = "stop" /\ 3 <= t
  PROVE  TopFrame(new, t + 8, Below(st, fs, new, pc) \o <<UpdFrame(th)>>)
<1>1. /\ GoodStack(new)
      /\ \A i \in 0..(StackSize + Guard - 1) : i < t \/ i > t + 7 => new[i] = st[i]
      /\ new[t][2] = fs[Len(fs)] /\ new[t + 1][2] = pc /\ new[t + 2][1] = "upd" /\ new[t + 3] = th
      /\ new[t + 5][2] = t + 3 /\ new[t + 6][2] = "upd" /\ new[t + 7] = th
  BY EvalFramesAt
<1>2. PICK b \in Nat : b = fs[Len(fs)] /\ 3 <= b /\ b <= StackSize
  <2>1. Len(fs) \in 1..Len(fs)
    BY BaseFacts
  <2> QED BY <2>1, BaseFacts
<1>3. Linked(fs, new) /\ KontOf(new, fs, Len(fs)) = KontOf(st, fs, Len(fs))
  <2>1. \A j \in 0..(b - 2) : new[j] = st[j]
    BY <1>1, <1>2, ArityFacts, SMTT(40)
  <2>2. new[2] = st[2]
    BY <1>1, <1>2, ArityFacts
  <2>3. \A j \in 0..(fs[Len(fs)] - 2) : new[j] = st[j]
    BY <1>2, <2>1
  <2> QED BY <2>2, <2>3, Kept
<1>4. PICK hs \in Seq(Nat) :
        /\ Linked(hs, new) /\ Len(hs) > 1 /\ hs[Len(hs)] = t + 3
        /\ KontOf(new, hs, Len(hs)) = Below(st, fs, new, pc)
  <2>1. t + 3 \in Nat /\ t + 3 <= StackSize
    BY ArityFacts
  <2>2. CASE Len(fs) > 1
    <3>1. /\ Linked(Append(fs, t + 3), new)
          /\ Len(Append(fs, t + 3)) = Len(fs) + 1 /\ Append(fs, t + 3)[Len(fs) + 1] = t + 3
          /\ Append(fs, t + 3) \in Seq(Nat)
          /\ KontOf(new, Append(fs, t + 3), Len(fs) + 1) =
               Append(KontOf(new, fs, Len(fs)),
                      AbsFrame(new, fs[Len(fs)], new[(t + 3) - 2][2]))
      BY <1>3, <2>1, <2>2, Pushed, SMTT(40)
    <3>2. (t + 3) - 2 = t + 1 /\ Len(fs) + 1 > 1
      BY <2>2, BaseFacts
    <3>3. KontOf(new, Append(fs, t + 3), Len(Append(fs, t + 3))) = Below(st, fs, new, pc)
      BY <1>1, <1>3, <2>2, <3>1, <3>2 DEF Below
    <3> QED BY <3>1, <3>2, <3>3
  <2>3. CASE ~ (Len(fs) > 1)
    <3>1. b = 3 /\ 6 <= t + 3
      <4>1. PICK n \in Nat \ {0} : n = Len(fs)
        BY BaseFacts
      <4>2. n = 1 /\ fs[1] = 3
        BY <2>3, <4>1, BaseFacts
      <4> QED BY <1>2, <4>1, <4>2
    <3>2. new[(t + 3) - 3][2] = 3 /\ new[(t + 3) - 2][2] = "stop"
      <4>1. (t + 3) - 3 = t /\ (t + 3) - 2 = t + 1
        OBVIOUS
      <4> QED BY <1>1, <1>2, <2>3, <3>1, <4>1
    <3>3. \E gs \in Seq(Nat) :
            /\ Linked(gs, new) /\ Len(gs) > 1 /\ gs[Len(gs)] = t + 3
            /\ KontOf(new, gs, Len(gs)) = << >>
      BY <1>3, <2>1, <2>3, <3>1, <3>2, PushedFirst
    <3>4. Below(st, fs, new, pc) = << >>
      BY <2>3 DEF Below
    <3> QED BY <3>3, <3>4
  <2> QED BY <2>2, <2>3
<1>5. Waiting(new, t + 3, t + 8)
  <2>1. (t + 8) - 3 = t + 5 /\ (t + 8) - 2 = t + 6 /\ (t + 3) - 1 = t + 2
    OBVIOUS
  <2> QED BY <1>1, <2>1 DEF Waiting
<1>6. PICK c \in Nat : c = t + 8 /\ c <= StackSize /\ c - 2 = t + 6
  OBVIOUS
<1>7. PICK n \in Nat : n = Len(hs) /\ n + 1 > 1
  <2>1. Len(hs) \in Nat
    BY SeqFacts
  <2> QED BY <1>4, <2>1
<1>8. /\ Linked(Append(hs, c), new)
      /\ Len(Append(hs, c)) = n + 1 /\ Append(hs, c)[n + 1] = c
      /\ Append(hs, c) \in Seq(Nat)
      /\ KontOf(new, Append(hs, c), n + 1) =
           Append(KontOf(new, hs, n), AbsFrame(new, hs[n], new[c - 2][2]))
  BY <1>4, <1>5, <1>6, <1>7, Pushed, SMTT(40)
<1>9. AbsFrame(new, t + 3, "upd") = UpdFrame(th)
  BY <1>1 DEF AbsFrame, UpdFrame
<1>10. KontOf(new, Append(hs, c), n + 1) = Below(st, fs, new, pc) \o <<UpdFrame(th)>>
  <2>1. PICK e : e = UpdFrame(th)
    OBVIOUS
  <2>2. AbsFrame(new, hs[n], new[c - 2][2]) = e
    BY <1>1, <1>4, <1>6, <1>7, <1>9, <2>1
  <2>3. Append(KontOf(new, hs, n), e) = KontOf(new, hs, n) \o <<e>>
    BY KontFacts
  <2> QED BY <1>4, <1>7, <1>8, <2>1, <2>2, <2>3
<1> QED BY <1>6, <1>7, <1>8, <1>10 DEF TopFrame

-----------------------------------------------------------------------------
(***************************************************************************)
(* The top frame, and the steps of the interpreter.                        *)
(***************************************************************************)

\* A state of the interpreter, whose frames begin at fs.
Running(fs) == StackInv /\ ModeInv /\ Linked(fs, stack) /\ TopInv(fs)

\* An overflow of the stack is one of the abstract machine.
LEMMA OverflowStep ==
  ASSUME StackInv, ModeInv, mode # "stop", Overflow
  PROVE  ApplyInv' /\ Machine!Next
<1>1. StackInv'
  BY DEF StackInv, Overflow
<1>2. ApplyInv'
  BY <1>1 DEF ApplyInv, Overflow
<1> QED BY <1>2, AbsOverflow DEF Overflow, ModeInv

\* The variables stay what they stand for when none is set.
LEMMA ValueKept ==
  ASSUME StackInv, UNCHANGED value, GoodStack(stack')
  PROVE  StackInv' /\ absValue' = absValue
<1>1. StackInv'
  BY DEF StackInv
<1>2. absValue' = absValue
  BY DEF absValue
<1> QED BY <1>1, <1>2

\* Where the topmost frame is.
LEMMA BaseRange ==
  ASSUME NEW fs, Linked(fs, stack), TopInv(fs)
  PROVE  /\ base \in 3..StackSize /\ base = fs[Len(fs)] /\ Len(fs) \in Nat \ {0}
         /\ fs \in Seq(Nat)
         /\ \A j \in 0..(base - 1) : j \in 0..(StackSize + Guard - 1)
         /\ mode \notin {"start", "stop"} =>
              Len(fs) > 1 /\ base + 4 <= StackSize /\ Node[1] # "apk"
<1>1. Len(fs) \in 1..Len(fs) /\ fs \in Seq(Nat) /\ Len(fs) \in Nat \ {0}
  BY BaseFacts
<1>2. base = fs[Len(fs)] /\ base \in 3..StackSize
  BY <1>1, BaseFacts DEF TopInv
<1>3. Len(fs) # 1 => Len(fs) > 1
  <2>1. PICK n \in Nat \ {0} : n = Len(fs)
    BY <1>1
  <2> QED BY <2>1
<1> QED BY <1>1, <1>2, <1>3, ArityFacts DEF TopInv

\* A thunk is entered.
LEMMA EnterStep ==
  ASSUME StackInv, NEW st, GoodStack(st), NEW fs, Linked(fs, st), base = fs[Len(fs)],
         NEW t \in Nat, NEW pc, NEW th \in ThunkWord,
         t + 8 + FrameSize[th[2]] + 4 <= StackSize, base + 1 <= t,
         stack' = Write(st, t, EvalFrames(t, base, pc, th)),
         Branch(EvalBase(t), th),
         Len(fs) > 1 => Waiting(stack', base, t + 3),
         ~ (Len(fs) > 1) => pc = "stop" /\ 3 <= t
  PROVE  /\ ApplyInv'
         /\ absMode' = "body" /\ absNode' = th /\ absLocals' = << >> /\ absValue' = absValue
         /\ absKont' = Below(st, fs, stack', pc) \o <<UpdFrame(th)>>
<1>1. FrameSize[th[2]] \in Nat /\ t + 8 <= StackSize /\ NArgs(th) = 0
      /\ EvalBase(t) = t + 8
  BY ArityFacts DEF EvalBase, FRAME_SIZE, UPD_SIZE
<1>2. GoodStack(stack') /\ stack'[t + 7] = th
  BY <1>1, EvalFramesAt
<1>3. mode' = "body" /\ base' = t + 8 /\ top' = t + 8 + FrameSize[th[2]] /\ UNCHANGED value
  BY <1>1 DEF Branch, FrameTop
<1>4. PICK gs \in Seq(Nat) :
        /\ Linked(gs, stack') /\ Len(gs) > 1 /\ gs[Len(gs)] = t + 8
        /\ KontOf(stack', gs, Len(gs)) = Below(st, fs, stack', pc) \o <<UpdFrame(th)>>
  <2>1. /\ stack' = Write(st, t, EvalFrames(t, fs[Len(fs)], pc, th))
        /\ fs[Len(fs)] + 1 <= t
        /\ Len(fs) > 1 => Waiting(stack', fs[Len(fs)], t + 3)
    OBVIOUS
  <2>2. TopFrame(stack', t + 8, Below(st, fs, stack', pc) \o <<UpdFrame(th)>>)
    BY <1>1, <2>1, Entered
  <2> QED BY <2>2 DEF TopFrame
<1>5. StackInv' /\ absValue' = absValue
  BY <1>2, <1>3, ValueKept
<1>6. Node' = th /\ stack'[base' - 1] = th
  BY <1>2, <1>3 DEF Node
<1>7. BodyInv'
  <2>1. PICK m \in Nat : FrameSize[th[2]] = m
    BY <1>1
  <2>2. PICK b \in Nat : t + 8 = b
    OBVIOUS
  <2>3. base' = b /\ NArgs(th) = 0 /\ top' = b + m /\ b + m + 4 <= StackSize
    BY <1>1, <1>3, <2>1, <2>2
  <2>4. top' \in Nat /\ b + 0 <= top'
    BY <2>3
  <2>5. b + 0 + 4 <= StackSize
    BY <2>3, ArityFacts
  <2>6. base' + NArgs(th) <= top' /\ base' + NArgs(th) + 4 <= StackSize
    BY <2>3, <2>4, <2>5
  <2> QED BY <1>1, <1>6, <2>4, <2>6 DEF BodyInv
<1>8. ModeInv'
  BY <1>3, <1>7 DEF ModeInv
<1>9. TopInv(gs)'
  <2>1. th[1] = "thunk" /\ base' + 4 <= StackSize
    <3>1. base' + 4 <= StackSize
      BY <1>1, <1>3, ArityFacts, SMTT(40)
    <3> QED BY <3>1, WordFacts
  <2>2. PICK n \in Nat : Len(gs) = n
    BY SeqFacts
  <2>3. n # 1
    <3>1. Len(gs) > 1
      BY <1>4
    <3> QED BY <2>2, <3>1
  <2> QED BY <1>3, <1>4, <1>6, <2>1, <2>2, <2>3 DEF TopInv
<1>10. ApplyInv'
  BY <1>4, <1>5, <1>8, <1>9 DEF ApplyInv
<1>11. absMode' = "body" /\ absNode' = AbsValue(th) /\ absKont' = KontOf(stack', gs, Len(gs))
       /\ absLocals' = AbsWords(stack', base', 0)
  BY <1>1, <1>3, <1>4, <1>6, AbsNext
<1>12. AbsValue(th) = th
  BY WordFacts, ValueFacts
<1>13. AbsWords(stack', base', 0) = << >>
  BY DEF AbsWords
<1> QED BY <1>4, <1>5, <1>10, <1>11, <1>12, <1>13

\* The start is a step of the abstract machine.
LEMMA StartStep ==
  ASSUME NEW fs, Running(fs), Start
  PROVE  ApplyInv' /\ Machine!Next
<1>1. StackInv /\ ModeInv /\ Linked(fs, stack) /\ TopInv(fs) /\ mode = "start"
  BY DEF Running, Start
<1>2. top = 4 /\ stack[3] = <<"thunk", Main>>
  BY <1>1 DEF ModeInv
<1>3. PICK n \in Nat : n = Len(fs) /\ n = 1 /\ base = 3 /\ base = fs[Len(fs)] /\ ~ (n > 1)
  BY <1>1, BaseFacts DEF TopInv
<1>4. PICK th : th = <<"thunk", Main>>
  OBVIOUS
<1>5. th \in ThunkWord /\ th[2] = Main /\ FrameSize[Main] \in Nat
  BY <1>4, GenericApplyAssumption, ArityFacts DEF ThunkWord
<1>6. EvalThunk(th, "stop")
  BY <1>2, <1>3, <1>4 DEF Start, Reg
<1>7. CASE stackOverflow(top, FRAME_SIZE + (FRAME_SIZE + UPD_SIZE) + FrameSize[th[2]])
  <2>1. Overflow
    BY <1>6, <1>7 DEF EvalThunk, Checked
  <2> QED BY <1>1, <2>1, OverflowStep
<1>8. CASE ~ stackOverflow(top, FRAME_SIZE + (FRAME_SIZE + UPD_SIZE) + FrameSize[th[2]])
  <2>1. /\ stack' = Write(stack, 4, EvalFrames(4, base, "stop", th))
        /\ Branch(EvalBase(4), th)
    BY <1>2, <1>6, <1>8 DEF EvalThunk, Checked
  <2>2. 4 + 8 + FrameSize[th[2]] + 4 <= StackSize
    BY <1>2, <1>5, <1>8, ArityFacts DEF stackOverflow, FRAME_SIZE, UPD_SIZE
  <2>3. /\ ApplyInv'
        /\ absMode' = "body" /\ absNode' = th /\ absLocals' = << >> /\ absValue' = absValue
        /\ absKont' = Below(stack, fs, stack', "stop") \o <<UpdFrame(th)>>
    <3>1. PICK t \in Nat : t = 4
      OBVIOUS
    <3>2. GoodStack(stack) /\ base + 1 <= t /\ 3 <= t
      BY <1>1, <1>3, <3>1 DEF StackInv
    <3>3. /\ stack' = Write(stack, t, EvalFrames(t, base, "stop", th))
          /\ Branch(EvalBase(t), th)
          /\ t + 8 + FrameSize[th[2]] + 4 <= StackSize
      BY <2>1, <2>2, <3>1
    <3>4. ~ (Len(fs) > 1)
      BY <1>3
    <3> QED BY <1>1, <1>3, <1>5, <3>2, <3>3, <3>4, EnterStep
  <2>4. Below(stack, fs, stack', "stop") = << >>
    BY <1>3 DEF Below
  <2>5. absMode = "apply" /\ absNode = th /\ absLocals = << >> /\ absKont = << >>
    <3>1. KontOf(stack, fs, Len(fs)) = << >>
      BY <1>3 DEF KontOf
    <3> QED BY <1>1, <1>4, <3>1, AbsNow
  <2>6. Machine!Enter(Main, << >>)
    BY <1>4, <2>3, <2>4 DEF Machine!Enter, Machine!Body, UpdFrame
  <2>7. Machine!ApplyStep
    BY <1>4, <1>5, <2>3, <2>5, <2>6 DEF Machine!ApplyStep
  <2> QED BY <2>3, <2>7 DEF Machine!Next
<1> QED BY <1>7, <1>8

\* Where a frame is, and what frames that wait come to with one more.
LEMMA TopFacts ==
  ASSUME NEW st, NEW b, NEW k, TopFrame(st, b, k)
  PROVE  /\ b \in 6..StackSize
         /\ \A e : /\ Machine!Front(Append(k, e)) = k
                   /\ Machine!Last(Append(k, e)) = e
                   /\ Append(k, e) # << >>
                   /\ Append(k, e) = k \o <<e>>
                   /\ \A d : Append(Append(k, e), d) = Append(k, e) \o <<d>>
<1>1. PICK fs \in Seq(Nat) :
        Linked(fs, st) /\ Len(fs) > 1 /\ fs[Len(fs)] = b /\ KontOf(st, fs, Len(fs)) = k
  BY DEF TopFrame
<1>2. PICK n \in Nat : n = Len(fs)
  BY SeqFacts
<1>3. b \in 3..StackSize
  BY <1>1, <1>2, BaseFacts
<1>4. fs[1] + 3 <= fs[n] /\ fs[1] = 3
  <2>1. 1 \in 1..Len(fs) /\ n \in 1..Len(fs) /\ 1 < n
    BY <1>1, <1>2
  <2>2. \A i, j \in 1..Len(fs) : i < j => fs[i] + 3 <= fs[j]
    BY <1>1 DEF Linked
  <2>3. fs[1] = 3
    BY <1>1 DEF Linked
  <2> QED BY <2>1, <2>2, <2>3
<1>5. ASSUME NEW e
      PROVE  /\ Machine!Front(Append(k, e)) = k
             /\ Machine!Last(Append(k, e)) = e
             /\ Append(k, e) # << >>
             /\ Append(k, e) = k \o <<e>>
             /\ \A d : Append(Append(k, e), d) = Append(k, e) \o <<d>>
  BY <1>1, <1>2, KontFacts
<1>6. b \in 6..StackSize
  BY <1>1, <1>2, <1>3, <1>4
<1> QED BY <1>5, <1>6

\* A frame is the topmost one still when nothing below it is written,
LEMMA KeptTop ==
  ASSUME NEW st, NEW b, NEW k, TopFrame(st, b, k), NEW new,
         \A j \in 0..(b - 2) : new[j] = st[j]
  PROVE  TopFrame(new, b, k)
<1>1. PICK fs \in Seq(Nat) :
        Linked(fs, st) /\ Len(fs) > 1 /\ fs[Len(fs)] = b /\ KontOf(st, fs, Len(fs)) = k
  BY DEF TopFrame
<1>2. new[2] = st[2]
  BY TopFacts
<1>3. \A j \in 0..(fs[Len(fs)] - 2) : new[j] = st[j]
  BY <1>1
<1>4. Linked(fs, new) /\ KontOf(new, fs, Len(fs)) = k
  BY <1>1, <1>2, <1>3, Kept
<1> QED BY <1>1, <1>4 DEF TopFrame

\* as by a write above it.
LEMMA WriteAbove ==
  ASSUME NEW st, GoodStack(st), NEW b, NEW k, TopFrame(st, b, k),
         NEW a \in Nat, b - 1 <= a, NEW ws
  PROVE  TopFrame(Write(st, a, ws), b, k)
<1>1. b \in 6..StackSize
  BY TopFacts
<1>2. PICK new : new = Write(st, a, ws)
  OBVIOUS
<1>3. \A j \in 0..(b - 2) : new[j] = st[j]
  <2> SUFFICES ASSUME NEW j \in 0..(b - 2) PROVE new[j] = st[j]
    OBVIOUS
  <2>1. j \in DOMAIN st /\ j \notin a..(a + Len(ws) - 1)
    BY <1>1, ArityFacts DEF GoodStack
  <2> QED BY <1>2, <2>1, WriteFacts
<1> QED BY <1>2, <1>3, KeptTop

\* A frame that waits is below the new topmost one.
LEMMA PushedTop ==
  ASSUME NEW st, NEW b, NEW k, TopFrame(st, b, k), NEW c \in Nat,
         c <= StackSize, Waiting(st, b, c)
  PROVE  TopFrame(st, c, Append(k, AbsFrame(st, b, st[c - 2][2])))
<1>1. PICK fs \in Seq(Nat) :
        Linked(fs, st) /\ Len(fs) > 1 /\ fs[Len(fs)] = b /\ KontOf(st, fs, Len(fs)) = k
  BY DEF TopFrame
<1>2. PICK n \in Nat : n = Len(fs) /\ n + 1 > 1
  <2>1. Len(fs) \in Nat
    BY SeqFacts
  <2> QED BY <1>1, <2>1
<1>3. Waiting(st, fs[n], c) /\ Len(fs) > 1 /\ Linked(fs, st)
  BY <1>1, <1>2
<1>4. /\ Linked(Append(fs, c), st)
      /\ Len(Append(fs, c)) = n + 1 /\ Append(fs, c)[n + 1] = c
      /\ Append(fs, c) \in Seq(Nat)
      /\ KontOf(st, Append(fs, c), n + 1) =
           Append(KontOf(st, fs, n), AbsFrame(st, fs[n], st[c - 2][2]))
  BY <1>2, <1>3, Pushed
<1>5. KontOf(st, Append(fs, c), n + 1) = Append(k, AbsFrame(st, b, st[c - 2][2]))
  BY <1>1, <1>2, <1>4
<1> QED BY <1>2, <1>4, <1>5 DEF TopFrame

\* The topmost frame is the one the machine runs in.
LEMMA NowTop ==
  ASSUME NEW fs, Running(fs), mode \notin {"start", "stop"}
  PROVE  /\ TopFrame(stack, base, absKont) /\ GoodStack(stack)
         /\ base \in 6..StackSize /\ base + 4 <= StackSize /\ Node[1] # "apk"
<1>1. /\ StackInv /\ ModeInv /\ Linked(fs, stack) /\ TopInv(fs) /\ mode # "overflow"
      /\ GoodStack(stack)
  BY DEF Running, ModeInv, StackInv
<1>2. /\ base = fs[Len(fs)] /\ fs \in Seq(Nat) /\ Len(fs) > 1
      /\ base + 4 <= StackSize /\ Node[1] # "apk"
  BY <1>1, BaseRange
<1>3. absKont = KontOf(stack, fs, Len(fs))
  BY <1>1, AbsNow
<1>4. TopFrame(stack, base, absKont)
  BY <1>1, <1>2, <1>3 DEF TopFrame
<1> QED BY <1>1, <1>2, <1>4, TopFacts

\* Two lists of words that were written at t.
HasParts(new, st, t, p, m, as, n) ==
  /\ GoodStack(new)
  /\ \A i \in 0..(StackSize + Guard - 1) : i < t \/ i >= t + m + n => new[i] = st[i]
  /\ \A i \in 0..(m - 1) : t + i \in 0..(StackSize + Guard - 1) => new[t + i] = p[i + 1]
  /\ \A i \in 0..(n - 1) : t + m + i \in 0..(StackSize + Guard - 1) => new[t + m + i] = as[i + 1]

\* The stack with two sequences of words written one behind the other,
LEMMA PartsWritten ==
  ASSUME NEW st, GoodStack(st), NEW t \in Nat, NEW S, \A x \in S : Good(x),
         NEW p \in Seq(S), NEW m \in Nat, Len(p) = m,
         NEW as \in Seq(S), NEW n \in Nat, Len(as) = n,
         NEW new, new = Write(st, t, p \o as)
  PROVE  HasParts(new, st, t, p, m, as, n)
<1>1. IsConcat(p \o as, p, as)
  BY ConcatAt
<1>2. PICK ws : ws = p \o as
  OBVIOUS
<1>3. PICK l \in Nat : l = m + n
  OBVIOUS
<1>4. /\ Len(ws) = l
      /\ \A i \in 1..m : ws[i] = p[i]
      /\ \A i \in 1..n : ws[m + i] = as[i]
  BY <1>1, <1>2, <1>3 DEF IsConcat
<1>5. \A j \in 1..l : Good(ws[j])
  <2> SUFFICES ASSUME NEW j \in 1..l PROVE Good(ws[j])
    OBVIOUS
  <2>1. CASE j <= m
    <3>1. j \in 1..m /\ p[j] \in S
      BY <2>1, SeqFacts
    <3> QED BY <1>4, <3>1
  <2>2. CASE j > m
    <3>1. PICK i \in 1..n : j = m + i
      <4>1. j - m \in 1..n /\ j = m + (j - m)
        BY <1>3, <2>2
      <4> QED BY <4>1
    <3>2. as[i] \in S
      BY SeqFacts
    <3> QED BY <1>4, <3>1, <3>2
  <2> QED BY <2>1, <2>2
<1>6. /\ GoodStack(new)
      /\ \A i \in 0..(StackSize + Guard - 1) :
           new[i] = IF i \in t..(t + l - 1) THEN ws[i - t + 1] ELSE st[i]
  <2>1. WrittenAt(new, st, t, ws, l)
    BY <1>2, <1>4, <1>5, Written
  <2> QED BY <2>1 DEF WrittenAt
<1>7. \A j \in 0..(l - 1) : t + j \in 0..(StackSize + Guard - 1) => new[t + j] = ws[j + 1]
  <2> SUFFICES ASSUME NEW j \in 0..(l - 1), t + j \in 0..(StackSize + Guard - 1)
               PROVE  new[t + j] = ws[j + 1]
    OBVIOUS
  <2>1. t + j \in t..(t + l - 1) /\ (t + j) - t + 1 = j + 1
    OBVIOUS
  <2> QED BY <1>6, <2>1
<1>8. \A i \in 0..(m - 1) : t + i \in 0..(StackSize + Guard - 1) => new[t + i] = p[i + 1]
  <2> SUFFICES ASSUME NEW i \in 0..(m - 1), t + i \in 0..(StackSize + Guard - 1)
               PROVE  new[t + i] = p[i + 1]
    OBVIOUS
  <2>1. i \in 0..(l - 1) /\ i + 1 \in 1..m
    BY <1>3
  <2> QED BY <1>4, <1>7, <2>1
<1>9. \A i \in 0..(n - 1) : t + m + i \in 0..(StackSize + Guard - 1) => new[t + m + i] = as[i + 1]
  <2> SUFFICES ASSUME NEW i \in 0..(n - 1), t + m + i \in 0..(StackSize + Guard - 1)
               PROVE  new[t + m + i] = as[i + 1]
    OBVIOUS
  <2>1. PICK j \in 0..(l - 1) : j = m + i /\ t + j = t + m + i
    BY <1>3
  <2>2. PICK k \in 1..n : k = i + 1 /\ j + 1 = m + k
    BY <2>1
  <2>3. t + j \in 0..(StackSize + Guard - 1)
    BY <2>1
  <2>4. new[t + j] = ws[j + 1]
    BY <1>7, <2>3
  <2>5. ws[m + k] = as[k]
    BY <1>4
  <2> QED BY <2>1, <2>2, <2>4, <2>5
<1>10. \A i \in 0..(StackSize + Guard - 1) : i < t \/ i >= t + m + n => new[i] = st[i]
  <2> SUFFICES ASSUME NEW i \in 0..(StackSize + Guard - 1), i < t \/ i >= t + m + n
               PROVE  new[i] = st[i]
    OBVIOUS
  <2>1. i \notin t..(t + l - 1)
    BY <1>3
  <2> QED BY <1>6, <2>1
<1> QED BY <1>6, <1>8, <1>9, <1>10 DEF HasParts

\* A frame at t and the n words in it.
HasLink(new, st, t, b, pc, f, as, n) ==
  /\ GoodStack(new)
  /\ \A i \in 0..(StackSize + Guard - 1) : i < t \/ i >= t + 3 + n => new[i] = st[i]
  /\ new[t][2] = b /\ new[t + 1][2] = pc /\ new[t + 2] = f
  /\ \A i \in 0..(n - 1) : new[t + 3 + i] = as[i + 1]

\* with a frame and its arguments,
LEMMA LinkWritten ==
  ASSUME NEW st, GoodStack(st), NEW t \in Nat, NEW b, NEW pc, NEW f, Good(f),
         NEW as \in Seq(Arg), NEW n \in Nat, Len(as) = n, t + 3 + n <= StackSize,
         NEW new, new = Write(st, t, Link(b, pc, f) \o as)
  PROVE  HasLink(new, st, t, b, pc, f, as, n)
<1>1. PICK x1, x2 : x1 = <<"base", b>> /\ x2 = <<"pc", pc>>
  OBVIOUS
<1>2. PICK S : S = Arg \cup {x1, x2, f}
  OBVIOUS
<1>3. PICK p \in Seq(S) : p = <<x1, x2, f>>
  <2>1. x1 \in S /\ x2 \in S /\ f \in S
    BY <1>2
  <2>2. <<x1, x2, f>> \in Seq(S)
    BY <2>1
  <2> QED BY <2>2
<1>4. as \in Seq(S)
  BY <1>2, SeqMonotonic
<1>5. Good(x1) /\ Good(x2) /\ x1[2] = b /\ x2[2] = pc
  BY <1>1 DEF Good
<1>6. \A x \in S : Good(x)
  BY <1>2, <1>5, ValueFacts
<1>7. PICK m \in Nat : Len(p) = m /\ m = 3
  BY <1>3
<1>8. p[1] = x1 /\ p[2] = x2 /\ p[3] = f
  BY <1>3
<1>9. new = Write(st, t, p \o as)
  BY <1>1, <1>3 DEF Link
<1>10. HasParts(new, st, t, p, m, as, n)
  BY <1>4, <1>6, <1>7, <1>9, PartsWritten
<1>11. /\ GoodStack(new)
       /\ \A i \in 0..(StackSize + Guard - 1) : i < t \/ i >= t + 3 + n => new[i] = st[i]
       /\ \A i \in 0..(n - 1) : t + 3 + i \in 0..(StackSize + Guard - 1) => new[t + 3 + i] = as[i + 1]
  BY <1>7, <1>10 DEF HasParts
<1>12. new[t] = p[1] /\ new[t + 1] = p[2] /\ new[t + 2] = p[3]
  <2>1. \A i \in 0..(m - 1) : t + i \in 0..(StackSize + Guard - 1) => new[t + i] = p[i + 1]
    BY <1>10 DEF HasParts
  <2>2. /\ 0 \in 0..(m - 1) /\ 1 \in 0..(m - 1) /\ 2 \in 0..(m - 1) /\ t + 0 = t
        /\ t \in 0..(StackSize + Guard - 1) /\ t + 1 \in 0..(StackSize + Guard - 1)
        /\ t + 2 \in 0..(StackSize + Guard - 1)
    BY <1>7, ArityFacts
  <2>3. new[t + 0] = p[0 + 1] /\ new[t + 1] = p[1 + 1] /\ new[t + 2] = p[2 + 1]
    BY <2>1, <2>2
  <2>4. 0 + 1 = 1 /\ 1 + 1 = 2 /\ 2 + 1 = 3
    OBVIOUS
  <2> QED BY <2>2, <2>3, <2>4
<1>13. \A i \in 0..(n - 1) : new[t + 3 + i] = as[i + 1]
  <2>1. \A i \in 0..(n - 1) : t + 3 + i \in 0..(StackSize + Guard - 1)
    BY ArityFacts
  <2> QED BY <1>11, <2>1
<1> QED BY <1>5, <1>8, <1>11, <1>12, <1>13 DEF HasLink

\* A node at b - 1 and the n words above it.
HasNode(new, st, b, f, as, n) ==
  /\ GoodStack(new)
  /\ \A i \in 0..(StackSize + Guard - 1) : i < b - 1 \/ i >= b + n => new[i] = st[i]
  /\ new[b - 1] = f
  /\ \A i \in 0..(n - 1) : new[b + i] = as[i + 1]

\* and with a node and its arguments.
LEMMA NodeWritten ==
  ASSUME NEW st, GoodStack(st), NEW b \in Nat, b > 0, NEW f, Good(f),
         NEW as \in Seq(Arg), NEW n \in Nat, Len(as) = n, b + n <= StackSize,
         NEW new, new = Write(st, b - 1, <<f>> \o as)
  PROVE  HasNode(new, st, b, f, as, n)
<1>2. PICK S : S = Arg \cup {f}
  OBVIOUS
<1>3. PICK p \in Seq(S) : p = <<f>>
  <2>1. f \in S
    BY <1>2
  <2>2. <<f>> \in Seq(S)
    BY <2>1
  <2> QED BY <2>2
<1>4. as \in Seq(S)
  BY <1>2, SeqMonotonic
<1>6. \A x \in S : Good(x)
  BY <1>2, ValueFacts
<1>7. PICK m \in Nat : Len(p) = m /\ m = 1
  BY <1>3
<1>8. PICK t \in Nat : b - 1 = t /\ t + 1 = b
  <2>1. b - 1 \in Nat /\ (b - 1) + 1 = b
    OBVIOUS
  <2> QED BY <2>1
<1>9. new = Write(st, t, p \o as)
  BY <1>3, <1>8
<1>10. HasParts(new, st, t, p, m, as, n)
  BY <1>4, <1>6, <1>7, <1>9, PartsWritten
<1>11. /\ GoodStack(new)
       /\ \A i \in 0..(StackSize + Guard - 1) : i < t \/ i >= t + 1 + n => new[i] = st[i]
       /\ \A i \in 0..(n - 1) : t + 1 + i \in 0..(StackSize + Guard - 1) => new[t + 1 + i] = as[i + 1]
  BY <1>7, <1>10 DEF HasParts
<1>12. new[t] = f
  <2>1. \A i \in 0..(m - 1) : t + i \in 0..(StackSize + Guard - 1) => new[t + i] = p[i + 1]
    BY <1>10 DEF HasParts
  <2>2. 0 \in 0..(m - 1) /\ t + 0 = t /\ t + 0 \in 0..(StackSize + Guard - 1)
    BY <1>7, <1>8, ArityFacts
  <2>3. new[t + 0] = p[0 + 1] /\ p[1] = f
    BY <1>3, <2>1, <2>2
  <2>4. 0 + 1 = 1
    OBVIOUS
  <2> QED BY <2>2, <2>3, <2>4
<1>13. \A i \in 0..(n - 1) : new[b + i] = as[i + 1]
  <2>1. \A i \in 0..(n - 1) : t + 1 + i \in 0..(StackSize + Guard - 1) /\ t + 1 + i = b + i
    BY <1>8, ArityFacts
  <2> QED BY <1>11, <2>1
<1>14. \A i \in 0..(StackSize + Guard - 1) : i < b - 1 \/ i >= b + n => new[i] = st[i]
  <2>1. \A i \in 0..(StackSize + Guard - 1) : i < b - 1 \/ i >= b + n => i < t \/ i >= t + 1 + n
    BY <1>8
  <2> QED BY <1>11, <2>1
<1> QED BY <1>8, <1>11, <1>12, <1>13, <1>14 DEF HasNode

\* An application is pending.
LEMMA PendingNext ==
  ASSUME NEW f, stack'[base' - 1] = f, f \in FunWord \cup ThunkWord \/ IsPap(f),
         mode' = "apply", NEW n \in Nat, given' = n, n > 0, base' + n + 4 <= StackSize,
         \A i \in 0..(given' - 1) : stack'[base' + i] \in Arg,
         Exact(mask', WordsOf(stack', base', given'))
  PROVE  ModeInv'
<1>1. Node' = f
  BY DEF Node
<1>2. PendingInv'
  BY <1>1 DEF PendingInv
<1> QED BY <1>2 DEF ModeInv

\* The state that a step leads to.
LEMMA NextState ==
  ASSUME StackInv', ModeInv', NEW k, TopFrame(stack', base', k), base' + 4 <= StackSize,
         stack'[base' - 1][1] # "apk", mode' \in {"body", "apply", "ret"}
  PROVE  /\ ApplyInv'
         /\ absMode' = mode' /\ absKont' = k
         /\ mode' \in {"body", "apply"} => absNode' = AbsValue(stack'[base' - 1])
         /\ mode' = "ret" => absNode' = Unboxed
         /\ mode' = "body" => absLocals' = AbsWords(stack', base', NArgs(stack'[base' - 1]))
         /\ mode' = "apply" => absLocals' = AbsWords(stack', base', given')
         /\ mode' = "ret" => absLocals' = AbsWords(stack', base', 1)
<1>1. PICK fs \in Seq(Nat) :
        /\ Linked(fs, stack') /\ Len(fs) > 1 /\ fs[Len(fs)] = base'
        /\ KontOf(stack', fs, Len(fs)) = k
  BY DEF TopFrame
<1>2. PICK n \in Nat : n = Len(fs)
  BY SeqFacts
<1>3. n # 1
  BY <1>1, <1>2
<1>4. Node'[1] # "apk"
  BY DEF Node
<1>5. TopInv(fs)'
  BY <1>1, <1>2, <1>3, <1>4 DEF TopInv
<1>6. ApplyInv'
  BY <1>1, <1>5 DEF ApplyInv
<1>7. base' = fs[Len(fs)]
  BY <1>1
<1> QED BY <1>1, <1>6, <1>7, AbsNext

\* An application of f to as is pending in the top frame.
LEMMA PendingStep ==
  ASSUME StackInv, UNCHANGED value, GoodStack(stack'), NEW k, TopFrame(stack', base', k),
         NEW f, stack'[base' - 1] = f, f \in FunWord \cup ThunkWord \/ IsPap(f),
         mode' = "apply", NEW n \in Nat, given' = n, n > 0, base' + n + 4 <= StackSize,
         NEW as, HasArgs(stack', base', n, as), Exact(mask', as)
  PROVE  /\ ApplyInv'
         /\ absMode' = "apply" /\ absNode' = AbsValue(f) /\ absLocals' = as
         /\ absKont' = k /\ absValue' = absValue
<1>1. StackInv' /\ absValue' = absValue
  BY ValueKept
<1>2. base' \in 6..StackSize
  BY TopFacts
<1>3. /\ WordsOf(stack', base', n) = as /\ AbsWords(stack', base', n) = as
      /\ \A i \in 0..(n - 1) : stack'[base' + i] \in Arg
  BY DEF HasArgs
<1>4. ModeInv'
  BY <1>3, PendingNext
<1>5. base' + 4 <= StackSize
  <2>1. PICK b \in Nat : base' = b
    BY <1>2, ArityFacts
  <2>2. b + n + 4 <= StackSize
    BY <2>1
  <2>3. b + 4 <= StackSize
    BY <2>2, ArityFacts
  <2> QED BY <2>1, <2>3
<1>6. f[1] # "apk"
  BY WordFacts
<1> QED BY <1>1, <1>3, <1>4, <1>5, <1>6, NextState

\* The state in a function body.
LEMMA BodyFacts ==
  ASSUME NEW fs, Running(fs), mode = "body"
  PROVE  /\ StackInv /\ ModeInv /\ BodyInv
         /\ TopFrame(stack, base, absKont) /\ GoodStack(stack)
         /\ base \in 6..StackSize /\ top \in Nat /\ NArgs(Node) \in Nat
         /\ base + NArgs(Node) <= top /\ base + NArgs(Node) + 4 <= StackSize
         /\ \A i \in 0..(NArgs(Node) - 1) : IsValue(stack[base + i])
         /\ NArgs(Node) > 0 => Node \in FunWord /\ NArgs(Node) = Arity[Node[2]]
         /\ Node \in FunWord \cup ThunkWord
         /\ absMode = "body" /\ absNode = Node
         /\ absLocals = AbsWords(stack, base, NArgs(Node))
<1>1. StackInv /\ ModeInv /\ BodyInv /\ Linked(fs, stack) /\ TopInv(fs)
  BY DEF Running, ModeInv
<1>2. TopFrame(stack, base, absKont) /\ GoodStack(stack) /\ base \in 6..StackSize
  BY NowTop
<1>3. /\ Node \in FunWord \cup ThunkWord
      /\ top \in Nat /\ base + NArgs(Node) <= top
      /\ base + NArgs(Node) + 4 <= StackSize
      /\ \A i \in 0..(NArgs(Node) - 1) : IsValue(stack[base + i])
  BY <1>1 DEF BodyInv
<1>4. NArgs(Node) \in Nat /\ (NArgs(Node) > 0 => Node \in FunWord /\ NArgs(Node) = Arity[Node[2]])
  BY <1>3, ArityFacts
<1>5. absMode = "body" /\ absNode = Node /\ absLocals = AbsWords(stack, base, NArgs(Node))
  BY <1>3, WordFacts, ValueFacts DEF absMode, absNode, absLocals
<1> QED BY <1>1, <1>2, <1>3, <1>4, <1>5

\* A call passes at least one argument.
LEMMA ArgCount ==
  ASSUME NEW as \in ArgList
  PROVE  \E n \in Nat : Len(as) = n /\ n > 0 /\ as \in Seq(Arg) /\ n <= MaskBits
<1>1. PICK m \in Nat \ {0} : m = Len(as)
  BY ArgListFacts
<1>2. m \in Nat /\ m > 0
  OBVIOUS
<1> QED BY <1>1, <1>2, ArgListFacts

\* A body that waits for the frame above its registers.
LEMMA CaseWaits ==
  ASSUME NEW fs, Running(fs), mode = "body", NArgs(Node) > 0, NEW new,
         \A i \in 0..(StackSize + Guard - 1) : i < top => new[i] = stack[i],
         new[top][2] = base, new[top + 1][2] = "case"
  PROVE  /\ Waiting(new, base, top + 3)
         /\ AbsFrame(new, base, "case") = Machine!Case
         /\ Len(absLocals) > 0 /\ absLocals # << >>
<1>1. PICK n \in Nat : n = NArgs(Node) /\ n = Arity[Node[2]] /\ n > 0
  BY BodyFacts
<1>2. /\ base \in 6..StackSize /\ top \in Nat /\ base + n <= top /\ base + n + 4 <= StackSize
      /\ \A i \in 0..(n - 1) : IsValue(stack[base + i])
      /\ Node \in FunWord
      /\ absNode = Node /\ absLocals = AbsWords(stack, base, n)
  BY <1>1, BodyFacts
<1>3. \A i \in 0..(base + n - 1) : new[i] = stack[i]
  BY <1>2, ArityFacts
<1>4. new[base - 1] = Node
  BY <1>2, <1>3 DEF Node
<1>5. \A i \in 0..(n - 1) : IsValue(new[base + i])
  BY <1>2, <1>3
<1>6. (top + 3) - 3 = top /\ (top + 3) - 2 = top + 1
  BY <1>2
<1>7. Waiting(new, base, top + 3)
  BY <1>1, <1>2, <1>4, <1>5, <1>6 DEF Waiting
<1>8. AbsWords(new, base, n) = AbsWords(stack, base, n)
  <2>1. \A i \in 1..n : new[base + i - 1] = stack[base + i - 1]
    BY <1>2, <1>3
  <2> QED BY <2>1 DEF AbsWords
<1>9. AbsFrame(new, base, "case") = Machine!Case
  BY <1>1, <1>2, <1>4, <1>8 DEF AbsFrame, Machine!Case
<1>10. Len(absLocals) > 0 /\ absLocals # << >>
  <2>1. Len(AbsWords(stack, base, n)) = n
    BY <1>1 DEF AbsWords
  <2>2. Len(absLocals) > 0
    BY <1>1, <1>2, <2>1
  <2>3. Len(<< >>) = 0
    OBVIOUS
  <2> QED BY <2>2, <2>3
<1> QED BY <1>7, <1>9, <1>10

\* A call pushes a frame, in which the arguments are pending.
LEMMA CallStep ==
  ASSUME NEW fs, Running(fs), NEW v \in Operand, NEW as \in ArgList, v # Unboxed,
         Call(v, as)
  PROVE  ApplyInv' /\ Machine!Next
<1>1. mode = "body" /\ NArgs(Node) > 0
  BY DEF Call
<1>2. /\ StackInv /\ ModeInv /\ BodyInv
      /\ TopFrame(stack, base, absKont) /\ GoodStack(stack)
      /\ base \in 6..StackSize /\ top \in Nat /\ base - 1 <= top
      /\ absMode = "body"
  BY <1>1, BodyFacts
<1>3. PICK n \in Nat : Len(as) = n /\ n > 0 /\ as \in Seq(Arg) /\ n <= MaskBits
  BY ArgCount
<1>4. PICK f : f = Deref(v) /\ (f \in FunWord \cup ThunkWord \/ IsPap(f))
               /\ Machine!Deref(AbsValue(v)) = AbsValue(f) /\ AbsValue(v) # Unboxed
               /\ AbsValue(v) \in Machine!Operand
  BY <1>1, <1>2, OperandFacts, DerefFacts
<1>5. CASE stackOverflow(top, FRAME_SIZE + Len(as))
  <2>1. Overflow
    BY <1>5 DEF Call, Checked
  <2> QED BY <1>1, <1>2, <2>1, OverflowStep
<1>6. CASE ~ stackOverflow(top, FRAME_SIZE + Len(as))
  <2>1. /\ stack' = Write(stack, top, Link(base, "case", f) \o as)
        /\ mode' = "apply" /\ base' = top + 3 /\ given' = n /\ mask' = Pointers(as)
        /\ UNCHANGED value
    BY <1>3, <1>4, <1>6 DEF Call, Checked, GenericApply, FRAME_SIZE
  <2>2. top + 3 + n + 4 <= StackSize
    BY <1>2, <1>3, <1>6, ArityFacts DEF stackOverflow, FRAME_SIZE
  <2>3. HasLink(stack', stack, top, base, "case", f, as, n)
    <3>1. Good(f)
      BY <1>4, WordFacts, ValueFacts DEF Arg
    <3>2. top + 3 + n <= StackSize
      BY <1>2, <2>2, ArityFacts
    <3> QED BY <1>2, <1>3, <2>1, <3>1, <3>2, LinkWritten
  <2>4. /\ GoodStack(stack')
        /\ \A i \in 0..(StackSize + Guard - 1) : i < top => stack'[i] = stack[i]
        /\ stack'[top][2] = base /\ stack'[top + 1][2] = "case" /\ stack'[top + 2] = f
        /\ \A i \in 0..(n - 1) : stack'[top + 3 + i] = as[i + 1]
    BY <2>3 DEF HasLink
  <2>5. /\ Waiting(stack', base, top + 3)
        /\ AbsFrame(stack', base, "case") = Machine!Case
        /\ Len(absLocals) > 0
    BY <1>1, <2>4, CaseWaits
  <2>6. TopFrame(stack', base', Append(absKont, Machine!Case))
    <3>1. (top + 3) - 2 = top + 1 /\ top + 3 \in Nat /\ top + 3 <= StackSize
      BY <1>2, <1>3, <2>2, ArityFacts
    <3>2. stack'[(top + 3) - 2][2] = "case"
      BY <2>4, <3>1
    <3>3. TopFrame(stack', base, absKont)
      BY <1>2, <2>1, WriteAbove
    <3> QED BY <2>1, <2>5, <3>1, <3>2, <3>3, PushedTop
  <2>7. HasArgs(stack', base', n, as)
    <3>1. PICK b \in Nat : base' = b /\ top + 3 = b
      BY <1>2, <2>1
    <3>2. \A i \in 0..(n - 1) : stack'[b + i] = as[i + 1]
      BY <2>4, <3>1
    <3>3. HasArgs(stack', b, n, as)
      BY <1>3, <3>2, ReadBack
    <3> QED BY <3>1, <3>3
  <2>8. stack'[base' - 1] = f
    <3>1. base' - 1 = top + 2
      BY <1>2, <2>1
    <3> QED BY <2>4, <3>1
  <2>9. base' + n + 4 <= StackSize /\ Exact(mask', as)
    BY <1>3, <2>1, <2>2 DEF Exact
  <2>10. /\ ApplyInv'
         /\ absMode' = "apply" /\ absNode' = AbsValue(f) /\ absLocals' = as
         /\ absKont' = Append(absKont, Machine!Case) /\ absValue' = absValue
    BY <1>2, <1>3, <1>4, <2>1, <2>4, <2>6, <2>7, <2>8, <2>9, PendingStep
  <2>11. Machine!Call(AbsValue(v), as)
    BY <1>2, <1>4, <2>5, <2>10 DEF Machine!Call, Machine!Apply
  <2>12. Machine!Next
    BY <1>4, <2>11 DEF Machine!Next, Machine!Unboxed, Unboxed
  <2> QED BY <2>10, <2>12
<1> QED BY <1>5, <1>6

\* A tail call replaces the registers of the frame by the arguments.
LEMMA CallTStep ==
  ASSUME NEW fs, Running(fs), NEW v \in Operand, NEW as \in ArgList, v # Unboxed,
         CallT(v, as)
  PROVE  ApplyInv' /\ Machine!Next
<1>1. mode = "body"
  BY DEF CallT
<1>2. /\ StackInv /\ ModeInv /\ BodyInv
      /\ TopFrame(stack, base, absKont) /\ GoodStack(stack)
      /\ base \in 6..StackSize /\ base \in Nat /\ base > 0 /\ base - 1 \in Nat
      /\ absMode = "body"
  BY <1>1, BodyFacts, ArityFacts
<1>3. PICK n \in Nat : Len(as) = n /\ n > 0 /\ as \in Seq(Arg) /\ n <= MaskBits
  BY ArgCount
<1>4. PICK f : f = Deref(v) /\ (f \in FunWord \cup ThunkWord \/ IsPap(f))
               /\ Machine!Deref(AbsValue(v)) = AbsValue(f) /\ AbsValue(v) # Unboxed
               /\ AbsValue(v) \in Machine!Operand
  BY <1>1, <1>2, OperandFacts, DerefFacts
<1>5. CASE stackOverflow(base, Len(as))
  <2>1. Overflow
    BY <1>5 DEF CallT, Checked
  <2> QED BY <1>1, <1>2, <2>1, OverflowStep
<1>6. CASE ~ stackOverflow(base, Len(as))
  <2>1. /\ stack' = Write(stack, base - 1, <<f>> \o as)
        /\ mode' = "apply" /\ base' = base /\ given' = n /\ mask' = Pointers(as)
        /\ UNCHANGED value
    BY <1>3, <1>4, <1>6 DEF CallT, Checked, GenericApply
  <2>2. base + n + 4 <= StackSize /\ base + n <= StackSize
    BY <1>2, <1>3, <1>6, ArityFacts DEF stackOverflow, FRAME_SIZE
  <2>3. HasNode(stack', stack, base, f, as, n)
    <3>1. Good(f)
      BY <1>4, WordFacts, ValueFacts DEF Arg
    <3> QED BY <1>2, <1>3, <2>1, <2>2, <3>1, NodeWritten
  <2>4. /\ GoodStack(stack') /\ stack'[base - 1] = f
        /\ \A i \in 0..(n - 1) : stack'[base + i] = as[i + 1]
    BY <2>3 DEF HasNode
  <2>5. HasArgs(stack', base, n, as)
    BY <1>2, <1>3, <2>4, ReadBack
  <2>6. TopFrame(stack', base, absKont)
    <3>1. base - 1 <= base - 1
      BY <1>2
    <3> QED BY <1>2, <2>1, <3>1, WriteAbove
  <2>7. /\ ApplyInv'
        /\ absMode' = "apply" /\ absNode' = AbsValue(f) /\ absLocals' = as
        /\ absKont' = absKont /\ absValue' = absValue
    <3>1. Exact(mask', as)
      BY <1>3, <2>1 DEF Exact
    <3>2. /\ TopFrame(stack', base', absKont) /\ stack'[base' - 1] = f
          /\ base' + n + 4 <= StackSize /\ HasArgs(stack', base', n, as)
      BY <2>1, <2>2, <2>4, <2>5, <2>6
    <3> QED BY <1>2, <1>3, <1>4, <2>1, <2>4, <3>1, <3>2, PendingStep
  <2>8. Machine!CallT(AbsValue(v), as)
    BY <1>2, <1>4, <2>7 DEF Machine!CallT, Machine!Apply
  <2>9. Machine!Next
    BY <1>4, <2>8 DEF Machine!Next, Machine!Unboxed, Unboxed
  <2> QED BY <2>7, <2>9
<1> QED BY <1>5, <1>6

\* EVAL of a thunk.
LEMMA EvalStep ==
  ASSUME NEW fs, Running(fs), NEW v \in Range(Locals), Eval(v)
  PROVE  ApplyInv' /\ Machine!Next
<1>1. mode = "body" /\ NArgs(Node) > 0 /\ Deref(v)[1] = "thunk" /\ EvalThunk(v, "case")
  BY DEF Eval
<1>2. /\ StackInv /\ ModeInv /\ BodyInv
      /\ TopFrame(stack, base, absKont) /\ GoodStack(stack)
      /\ base \in 6..StackSize /\ top \in Nat /\ base - 1 <= top /\ base + 1 <= top
      /\ absMode = "body"
  BY <1>1, BodyFacts
<1>3. /\ IsValue(v) /\ AbsValue(v) \in Machine!Range(absLocals)
      /\ Machine!Deref(AbsValue(v)) = AbsValue(v) /\ v \in ThunkWord /\ v # Unboxed
  <2>1. IsValue(v) /\ AbsValue(v) \in Machine!Range(absLocals)
    BY <1>1, <1>2, OperandFacts
  <2>2. Deref(v) = v /\ v \in ThunkWord /\ Machine!Deref(AbsValue(v)) = AbsValue(Deref(v))
    BY <1>1, <1>2, <2>1, DerefFacts
  <2>3. v # Unboxed
    BY <2>2, WordFacts
  <2> QED BY <2>1, <2>2, <2>3
<1>4. v = <<"thunk", v[2]>> /\ AbsValue(v) = v /\ v[1] = "thunk" /\ FrameSize[v[2]] \in Nat
  BY <1>3, WordFacts, ValueFacts, ArityFacts
<1>5. CASE stackOverflow(top, FRAME_SIZE + (FRAME_SIZE + UPD_SIZE) + FrameSize[v[2]])
  <2>1. Overflow
    BY <1>1, <1>5 DEF EvalThunk, Checked
  <2> QED BY <1>1, <1>2, <2>1, OverflowStep
<1>6. CASE ~ stackOverflow(top, FRAME_SIZE + (FRAME_SIZE + UPD_SIZE) + FrameSize[v[2]])
  <2>1. stack' = Write(stack, top, EvalFrames(top, base, "case", v)) /\ Branch(EvalBase(top), v)
    BY <1>1, <1>6 DEF EvalThunk, Checked
  <2>2. top + 8 + FrameSize[v[2]] + 4 <= StackSize /\ top + 8 <= StackSize
    BY <1>2, <1>4, <1>6, ArityFacts DEF stackOverflow, FRAME_SIZE, UPD_SIZE
  <2>3. /\ \A i \in 0..(StackSize + Guard - 1) : i < top => stack'[i] = stack[i]
        /\ stack'[top][2] = base /\ stack'[top + 1][2] = "case"
    BY <1>2, <1>3, <2>1, <2>2, EvalFramesAt
  <2>4. /\ Waiting(stack', base, top + 3)
        /\ AbsFrame(stack', base, "case") = Machine!Case
        /\ Len(absLocals) > 0 /\ absLocals # << >>
    BY <1>1, <2>3, CaseWaits
  <2>5. PICK gs \in Seq(Nat) : /\ Linked(gs, stack) /\ Len(gs) > 1 /\ gs[Len(gs)] = base
                               /\ KontOf(stack, gs, Len(gs)) = absKont
    BY <1>2 DEF TopFrame
  <2>6. /\ ApplyInv'
        /\ absMode' = "body" /\ absNode' = v /\ absLocals' = << >> /\ absValue' = absValue
        /\ absKont' = Below(stack, gs, stack', "case") \o <<UpdFrame(v)>>
    BY <1>2, <1>3, <2>1, <2>2, <2>4, <2>5, EnterStep
  <2>7. Below(stack, gs, stack', "case") = Append(absKont, Machine!Case)
    BY <2>4, <2>5 DEF Below
  <2>8. Machine!Enter(v[2], Append(absKont, Machine!Case))
    BY <1>4, <2>6, <2>7 DEF Machine!Enter, Machine!Body, UpdFrame
  <2>9. ASSUME NEW r
        PROVE  Machine!Eval(v, r)
    BY <1>2, <1>3, <1>4, <2>6, <2>8 DEF Machine!Eval, Machine!IsHNF
  <2>10. \E r \in DOMAIN absLocals : TRUE
    <3>1. PICK n \in Nat : n = NArgs(Node) /\ n > 0
      BY <1>1, BodyFacts
    <3>2. absLocals = AbsWords(stack, base, n)
      BY <1>1, <3>1, BodyFacts
    <3>3. 1 \in DOMAIN absLocals
      BY <3>1, <3>2 DEF AbsWords
    <3> QED BY <3>3
  <2>11. Machine!Next
    BY <1>3, <1>4, <2>9, <2>10 DEF Machine!Next, Machine!Unboxed, Unboxed
  <2> QED BY <2>6, <2>11
<1> QED BY <1>5, <1>6

\* One word that is written.
WordAt(new, st, a, w) ==
  /\ GoodStack(new)
  /\ \A i \in 0..(StackSize + Guard - 1) : new[i] = IF i = a THEN w ELSE st[i]

\* The stack with one word written.
LEMMA WordWritten ==
  ASSUME NEW st, GoodStack(st), NEW a \in Nat, NEW w, Good(w),
         NEW result, result = Write(st, a, <<w>>)
  PROVE  WordAt(result, st, a, w)
<1>1. PICK ws : ws = <<w>>
  OBVIOUS
<1>2. PICK n \in Nat : n = 1 /\ Len(ws) = n /\ ws[1] = w /\ \A j \in 1..n : j = 1
  BY <1>1
<1>3. WrittenAt(Write(st, a, ws), st, a, ws, n)
  BY <1>2, Written
<1>4. PICK new : new = Write(st, a, ws)
  OBVIOUS
<1>5. \A i \in 0..(StackSize + Guard - 1) :
        new[i] = IF i \in a..(a + n - 1) THEN ws[i - a + 1] ELSE st[i]
  BY <1>3, <1>4 DEF WrittenAt
<1>6. \A i \in 0..(StackSize + Guard - 1) : new[i] = IF i = a THEN w ELSE st[i]
  <2>1. \A i \in 0..(StackSize + Guard - 1) : i \in a..(a + n - 1) <=> i = a
    BY <1>2
  <2>2. a - a + 1 = 1
    OBVIOUS
  <2> QED BY <1>2, <1>5, <2>1, <2>2
<1>7. GoodStack(new) /\ result = new
  BY <1>1, <1>3, <1>4 DEF WrittenAt
<1> QED BY <1>6, <1>7 DEF WordAt

\* RET1.
LEMMA RetStep ==
  ASSUME NEW fs, Running(fs), NEW v \in Operand, Ret(v)
  PROVE  ApplyInv' /\ Machine!Next
<1>1. mode = "body" /\ IsHNF(v) /\ stack' = Write(stack, base, <<v>>) /\ mode' = "ret"
      /\ base' = base /\ UNCHANGED value
  BY DEF Ret
<1>2. /\ StackInv /\ ModeInv /\ BodyInv
      /\ TopFrame(stack, base, absKont) /\ GoodStack(stack)
      /\ base \in 6..StackSize /\ absMode = "body"
  BY <1>1, BodyFacts
<1>3. /\ IsValue(v) /\ AbsValue(v) \in Machine!Operand
      /\ IsHNF(AbsValue(v)) /\ Good(v) /\ v # Unboxed
  <2>1. IsValue(v) /\ AbsValue(v) \in Machine!Operand
    BY <1>1, <1>2, OperandFacts
  <2> QED BY <1>1, <1>2, <2>1, DerefFacts, ValueFacts
<1>4. GoodStack(stack') /\ stack'[base] = v /\ base \in Nat /\ base - 1 \in Nat
      /\ \A i \in 0..(StackSize + Guard - 1) : i < base => stack'[i] = stack[i]
  <2>1. base \in Nat /\ base - 1 \in Nat /\ base \in 0..(StackSize + Guard - 1)
    <3>1. base + 4 <= StackSize
      BY <1>1, NowTop
    <3> QED BY <1>2, <3>1, ArityFacts
  <2>2. /\ GoodStack(stack')
        /\ \A i \in 0..(StackSize + Guard - 1) : stack'[i] = IF i = base THEN v ELSE stack[i]
    <3>1. WordAt(stack', stack, base, v)
      BY <1>1, <1>2, <1>3, <2>1, WordWritten
    <3> QED BY <3>1 DEF WordAt
  <2> QED BY <2>1, <2>2
<1>5. TopFrame(stack', base', absKont)
  <2>1. base - 1 <= base
    BY <1>2
  <2> QED BY <1>1, <1>2, <1>4, <2>1, WriteAbove
<1>6. StackInv' /\ absValue' = absValue
  BY <1>1, <1>2, <1>4, ValueKept
<1>7. ModeInv'
  <2>1. IsValue(stack'[base']) /\ IsHNF(stack'[base'])
    BY <1>1, <1>3, <1>4
  <2> QED BY <1>1, <2>1 DEF ModeInv
<1>8. base' + 4 <= StackSize /\ stack'[base' - 1][1] # "apk"
  <2>1. base + 4 <= StackSize /\ Node[1] # "apk"
    BY <1>1, NowTop
  <2>2. stack'[base - 1] = Node
    BY <1>2, <1>4, ArityFacts DEF Node
  <2> QED BY <1>1, <2>1, <2>2
<1>9. /\ ApplyInv' /\ absMode' = "ret" /\ absNode' = Unboxed /\ absKont' = absKont
      /\ absLocals' = AbsWords(stack', base', 1)
  BY <1>1, <1>5, <1>6, <1>7, <1>8, NextState
<1>10. absLocals' = <<AbsValue(v)>>
  <2>1. base' + 1 - 1 = base
    BY <1>1, <1>2
  <2> QED BY <1>4, <1>9, <2>1 DEF AbsWords
<1>11. Machine!Ret(AbsValue(v))
  BY <1>2, <1>3, <1>6, <1>9, <1>10
  DEF Machine!Ret, Machine!Return, Machine!IsHNF, IsHNF, Machine!Unboxed, Unboxed
<1> QED BY <1>3, <1>9, <1>11 DEF Machine!Next

-----------------------------------------------------------------------------
(***************************************************************************)
(* generic_apply.                                                          *)
(***************************************************************************)

\* EVAL of a value.
LEMMA EvalHNFStep ==
  ASSUME NEW fs, Running(fs), NEW v \in Range(Locals), NEW r \in 1..NArgs(Node), EvalHNF(v, r)
  PROVE  ApplyInv' /\ Machine!Next
<1>1. PICK d : /\ d = Deref(v) /\ IsHNF(d)
               /\ stack' = Write(Write(stack, top + 3, <<d>>), base + r - 1, <<d>>)
               /\ mode = "body" /\ mode' = "body" /\ base' = base /\ top' = top
               /\ UNCHANGED value
  BY DEF EvalHNF, FRAME_SIZE
<1>2. PICK n \in Nat : NArgs(Node) = n /\ r \in 1..n
  BY <1>1, BodyFacts
<1>3. /\ StackInv /\ ModeInv /\ BodyInv
      /\ TopFrame(stack, base, absKont) /\ GoodStack(stack)
      /\ base \in 6..StackSize /\ top \in Nat
      /\ base + n <= top /\ base + n + 4 <= StackSize
      /\ \A i \in 0..(n - 1) : IsValue(stack[base + i])
      /\ Node \in FunWord \cup ThunkWord
      /\ absMode = "body" /\ absNode = Node /\ absLocals = AbsWords(stack, base, n)
  BY <1>1, <1>2, BodyFacts
<1>4. /\ IsValue(v) /\ AbsValue(v) \in Machine!Range(absLocals)
      /\ Machine!Deref(AbsValue(v)) = AbsValue(d) /\ IsValue(d) /\ Good(d)
      /\ IsHNF(AbsValue(d)) /\ v # Unboxed /\ AbsValue(v) # Unboxed
  <2>1. IsValue(v) /\ AbsValue(v) \in Machine!Range(absLocals)
    BY <1>1, <1>3, OperandFacts
  <2>2. Machine!Deref(AbsValue(v)) = AbsValue(d) /\ IsValue(d)
    BY <1>1, <1>3, <2>1, DerefFacts
  <2>3. IsHNF(AbsValue(d)) /\ Good(d)
    BY <1>1, <1>3, <2>2, DerefFacts, ValueFacts
  <2>4. v # Unboxed
    <3>1. Deref(Unboxed) = Unboxed /\ ~ IsHNF(Unboxed)
      BY WordFacts DEF Deref, IsHNF
    <3> QED BY <1>1, <3>1
  <2> QED BY <1>3, <2>1, <2>2, <2>3, <2>4, DerefFacts
<1>5. PICK a \in Nat : base + r - 1 = a /\ base <= a /\ a < base + n /\ a < top + 3
  <2>1. base + r - 1 \in Nat /\ base <= base + r - 1 /\ base + r - 1 < base + n
        /\ base + r - 1 < top + 3
    BY <1>2, <1>3
  <2> QED BY <2>1
<1>6. PICK st : st = Write(stack, top + 3, <<d>>)
  OBVIOUS
<1>7. GoodStack(st) /\ \A i \in 0..(StackSize + Guard - 1) : st[i] = IF i = top + 3 THEN d ELSE stack[i]
  <2>1. top + 3 \in Nat
    BY <1>3
  <2>2. WordAt(st, stack, top + 3, d)
    BY <1>3, <1>4, <1>6, <2>1, WordWritten
  <2> QED BY <2>2 DEF WordAt
<1>8. stack' = Write(st, a, <<d>>)
  BY <1>1, <1>5, <1>6
<1>9. GoodStack(stack') /\ \A i \in 0..(StackSize + Guard - 1) : stack'[i] = IF i = a THEN d ELSE st[i]
  <2>1. WordAt(stack', st, a, d)
    BY <1>4, <1>7, <1>8, WordWritten
  <2> QED BY <2>1 DEF WordAt
<1>10. \A i \in 0..(base + n - 1) : stack'[i] = IF i = a THEN d ELSE stack[i]
  <2> SUFFICES ASSUME NEW i \in 0..(base + n - 1)
               PROVE  stack'[i] = IF i = a THEN d ELSE stack[i]
    OBVIOUS
  <2>1. i \in 0..(StackSize + Guard - 1) /\ i # top + 3
    BY <1>3, ArityFacts
  <2> QED BY <1>7, <1>9, <2>1
<1>11. TopFrame(stack', base', absKont)
  <2>1. base - 1 <= top + 3 /\ base - 1 <= a /\ top + 3 \in Nat
    BY <1>3, <1>5
  <2>2. TopFrame(st, base, absKont)
    BY <1>3, <1>6, <2>1, WriteAbove
  <2> QED BY <1>1, <1>7, <1>8, <2>1, <2>2, WriteAbove
<1>12. StackInv' /\ absValue' = absValue
  BY <1>1, <1>3, <1>9, ValueKept
<1>13. stack'[base - 1] = Node /\ Node' = Node
  <2>1. base - 1 \in 0..(base + n - 1) /\ base - 1 # a
    BY <1>3, <1>5
  <2>2. stack'[base - 1] = Node
    BY <1>10, <2>1 DEF Node
  <2> QED BY <1>1, <2>2 DEF Node
<1>14. \A i \in 0..(n - 1) : IsValue(stack'[base + i])
  <2>1. \A i \in 0..(n - 1) : base + i \in 0..(base + n - 1)
    BY <1>3
  <2> QED BY <1>3, <1>4, <1>10, <2>1
<1>15. ModeInv'
  <2>1. BodyInv'
    BY <1>1, <1>2, <1>3, <1>13, <1>14 DEF BodyInv
  <2> QED BY <1>1, <2>1 DEF ModeInv
<1>16. base' + 4 <= StackSize /\ stack'[base' - 1][1] # "apk"
  <2>1. base + 4 <= StackSize /\ Node[1] # "apk"
    BY <1>1, NowTop
  <2> QED BY <1>1, <1>13, <2>1
<1>17. /\ ApplyInv' /\ absMode' = "body" /\ absNode' = AbsValue(Node) /\ absKont' = absKont
       /\ absLocals' = AbsWords(stack', base, n)
  <2>1. stack'[base' - 1] = Node
    BY <1>1, <1>13
  <2> QED BY <1>1, <1>2, <1>11, <1>12, <1>15, <1>16, <2>1, NextState
<1>18. absLocals' = [absLocals EXCEPT ![r] = AbsValue(d)] /\ r \in DOMAIN absLocals
  <2>1. \A i \in 1..n : AbsValue(stack'[base + i - 1])
                          = IF i = r THEN AbsValue(d) ELSE AbsValue(stack[base + i - 1])
    <3> SUFFICES ASSUME NEW i \in 1..n
                 PROVE  AbsValue(stack'[base + i - 1])
                          = IF i = r THEN AbsValue(d) ELSE AbsValue(stack[base + i - 1])
      OBVIOUS
    <3>1. PICK j \in 0..(base + n - 1) : base + i - 1 = j /\ (i = r <=> j = a)
      <4>1. base + i - 1 \in 0..(base + n - 1) /\ (i = r <=> base + i - 1 = a)
        BY <1>2, <1>3, <1>5
      <4> QED BY <4>1
    <3> QED BY <1>10, <3>1
  <2> QED BY <1>2, <1>3, <1>17, <2>1 DEF AbsWords
<1>19. Machine!Eval(AbsValue(v), r)
  <2>1. AbsValue(Node) = Node
    BY <1>3, WordFacts, ValueFacts
  <2> QED BY <1>3, <1>4, <1>12, <1>17, <1>18, <2>1 DEF Machine!Eval, Machine!IsHNF, IsHNF
<1> QED BY <1>4, <1>17, <1>18, <1>19 DEF Machine!Next, Machine!Unboxed, Unboxed

\* The state in generic_apply.
Pending(n, as) ==
  /\ StackInv /\ ModeInv /\ TopFrame(stack, base, absKont) /\ GoodStack(stack)
  /\ base \in 6..StackSize
  /\ given = n /\ n > 0 /\ base + n + 4 <= StackSize
  /\ Words(base, given) = as /\ Len(as) = n /\ HasArgs(stack, base, n, as)
  /\ Exact(mask, as)
  /\ Node \in FunWord \cup ThunkWord \/ IsPap(Node)
  /\ absMode = "apply" /\ absNode = AbsValue(Node) /\ absLocals = as /\ as # << >>

\* The arguments of the call that is being made.
LEMMA PendingFacts ==
  ASSUME NEW fs, Running(fs), mode = "apply"
  PROVE  \E n \in Nat : \E as \in Seq(Arg) : Pending(n, as)
<1>1. StackInv /\ ModeInv /\ PendingInv /\ Linked(fs, stack) /\ TopInv(fs)
  BY DEF Running, ModeInv
<1>2. TopFrame(stack, base, absKont) /\ GoodStack(stack) /\ base \in 6..StackSize
  BY NowTop
<1>3. PICK n \in Nat : n = given /\ n > 0
  BY <1>1 DEF PendingInv
<1>4. PICK as : as = [i \in 1..n |-> stack[base + i - 1]]
  OBVIOUS
<1>5. \A i \in 1..n : stack[base + i - 1] \in Arg
  <2> SUFFICES ASSUME NEW i \in 1..n PROVE stack[base + i - 1] \in Arg
    OBVIOUS
  <2>1. PICK j \in 0..(n - 1) : j = i - 1 /\ base + j = base + i - 1
    BY <1>2
  <2>2. stack[base + j] \in Arg
    BY <1>1, <1>3 DEF PendingInv
  <2> QED BY <2>1, <2>2
<1>6. as \in Seq(Arg) /\ Len(as) = n /\ as # << >>
  <2>1. as \in [1..n -> Arg]
    BY <1>4, <1>5
  <2>2. as \in Seq(Arg)
    BY <2>1, SeqDef
  <2>3. DOMAIN as = 1..n
    BY <1>4
  <2>4. Len(as) = n
    BY <2>2, <2>3, SeqFacts
  <2>5. Len(<< >>) # n
    BY <1>3
  <2> QED BY <2>2, <2>4, <2>5
<1>7. WordsOf(stack, base, n) = as /\ Words(base, given) = as /\ AbsWords(stack, base, n) = as
  <2>1. \A i \in 1..n : AbsValue(stack[base + i - 1]) = stack[base + i - 1]
    BY <1>5, ValueFacts
  <2> QED BY <1>3, <1>4, <2>1 DEF WordsOf, Words, AbsWords
<1>8. HasArgs(stack, base, n, as)
  BY <1>1, <1>3, <1>7 DEF HasArgs, PendingInv
<1>9. /\ base + n + 4 <= StackSize /\ Exact(mask, as)
      /\ Node \in FunWord \cup ThunkWord \/ IsPap(Node)
  BY <1>1, <1>3, <1>7 DEF PendingInv
<1>10. absMode = "apply" /\ absNode = AbsValue(Node) /\ absLocals = as
  BY <1>3, <1>7 DEF absMode, absNode, absLocals
<1>11. Pending(n, as)
  BY <1>1, <1>2, <1>3, <1>6, <1>7, <1>8, <1>9, <1>10 DEF Pending
<1> QED BY <1>6, <1>11

\* The body of the function f has been entered with the arguments as.
LEMMA BodyStep ==
  ASSUME StackInv, UNCHANGED value, GoodStack(stack'), NEW k, TopFrame(stack', base', k),
         NEW f \in FunWord, stack'[base' - 1] = f, mode' = "body", top' = FrameTop(base', f),
         NEW n \in Nat, Arity[f[2]] = n, base' + n + 4 <= StackSize,
         NEW as, HasArgs(stack', base', n, as)
  PROVE  /\ ApplyInv'
         /\ absMode' = "body" /\ absNode' = f /\ absLocals' = as
         /\ absKont' = k /\ absValue' = absValue
<1>1. StackInv' /\ absValue' = absValue
  BY ValueKept
<1>2. PICK b \in Nat : base' = b /\ b + n + 4 <= StackSize /\ b + 4 <= StackSize
  <2>1. base' \in 6..StackSize
    BY TopFacts
  <2>2. base' \in Nat
    BY <2>1, ArityFacts
  <2>3. PICK b \in Nat : base' = b
    BY <2>2
  <2>4. b + n + 4 <= StackSize
    BY <2>3
  <2>5. b + 4 <= StackSize
    BY <2>4, ArityFacts
  <2> QED BY <2>3, <2>4, <2>5
<1>3. /\ NArgs(f) = n /\ f[1] = "fun" /\ AbsValue(f) = f
      /\ FrameSize[f[2]] \in Nat /\ n <= FrameSize[f[2]]
  BY ArityFacts, WordFacts, ValueFacts
<1>4. top' \in Nat /\ b + n <= top'
  BY <1>2, <1>3 DEF FrameTop
<1>5. /\ AbsWords(stack', b, n) = as
      /\ \A i \in 0..(n - 1) : stack'[b + i] \in Arg
  BY <1>2 DEF HasArgs
<1>6. \A i \in 0..(n - 1) : IsValue(stack'[b + i])
  BY <1>5, ValueFacts
<1>7. Node' = f
  BY DEF Node
<1>8. BodyInv'
  BY <1>2, <1>3, <1>4, <1>6, <1>7 DEF BodyInv
<1>9. ModeInv'
  BY <1>8 DEF ModeInv
<1>10. /\ ApplyInv' /\ absMode' = "body" /\ absKont' = k /\ absNode' = AbsValue(f)
       /\ absLocals' = AbsWords(stack', base', NArgs(f))
  BY <1>1, <1>2, <1>3, <1>9, NextState
<1> QED BY <1>1, <1>2, <1>3, <1>5, <1>10

\* A function that is given as many arguments as it takes.
LEMMA ApplyExactStep ==
  ASSUME NEW fs, Running(fs), ApplyExact
  PROVE  ApplyInv' /\ Machine!Next
<1>1. mode = "apply" /\ Node[1] = "fun" /\ Arity[Node[2]] = given /\ stack' = stack
      /\ mode' = "body" /\ base' = base /\ top' = FrameTop(base, Node) /\ UNCHANGED value
  BY DEF ApplyExact, Branch
<1>2. PICK n \in Nat : \E as \in Seq(Arg) : Pending(n, as)
  BY <1>1, PendingFacts
<1>3. PICK as \in Seq(Arg) : Pending(n, as)
  BY <1>2
<1>4. PICK f : f = Node
  OBVIOUS
<1>5. f \in FunWord /\ AbsValue(f) = f
  BY <1>1, <1>3, <1>4, WordFacts, ValueFacts DEF Pending
<1>6. /\ StackInv /\ GoodStack(stack') /\ TopFrame(stack', base', absKont)
      /\ stack'[base' - 1] = f /\ Arity[f[2]] = n /\ base' + n + 4 <= StackSize
      /\ HasArgs(stack', base', n, as) /\ top' = FrameTop(base', f)
  BY <1>1, <1>3, <1>4 DEF Pending, Node
<1>7. /\ ApplyInv'
      /\ absMode' = "body" /\ absNode' = f /\ absLocals' = as
      /\ absKont' = absKont /\ absValue' = absValue
  BY <1>1, <1>5, <1>6, BodyStep
<1>8. absMode = "apply" /\ absNode = f /\ absLocals = as /\ Len(as) = n
  BY <1>3, <1>4, <1>5 DEF Pending
<1>9. SubSeq(as, 1, n) = as
  BY <1>8, SubSeqFull
<1>10. f[1] = "fun" /\ n >= n
  BY <1>5, WordFacts
<1>11. Machine!ApplyStep
  BY <1>6, <1>7, <1>8, <1>9, <1>10 DEF Machine!ApplyStep, Machine!Body
<1> QED BY <1>7, <1>11 DEF Machine!Next

\* A value is returned from the top frame.
LEMMA ReturnedStep ==
  ASSUME StackInv', NEW k, TopFrame(stack', base', k),
         NEW v, stack'[base'] = v, IsValue(v), IsHNF(v), mode' = "ret",
         base' + 4 <= StackSize, stack'[base' - 1][1] # "apk"
  PROVE  /\ ApplyInv'
         /\ absMode' = "ret" /\ absNode' = Unboxed /\ absLocals' = <<AbsValue(v)>>
         /\ absKont' = k
<1>2. ModeInv'
  BY DEF ModeInv
<1>3. /\ ApplyInv' /\ absMode' = "ret" /\ absNode' = Unboxed /\ absKont' = k
      /\ absLocals' = AbsWords(stack', base', 1)
  BY <1>2, NextState
<1>4. absLocals' = <<AbsValue(v)>>
  <2>1. base' \in 6..StackSize
    BY TopFacts
  <2>2. PICK b \in Nat : base' = b /\ b + 1 - 1 = b
    <3>1. base' \in Nat
      BY <2>1, ArityFacts
    <3> QED BY <3>1
  <2> QED BY <1>3, <2>2 DEF AbsWords
<1> QED BY <1>3, <1>4

\* A function that is given too few.
LEMMA ApplyPartialStep ==
  ASSUME NEW fs, Running(fs), ApplyPartial
  PROVE  ApplyInv' /\ Machine!Next
<1>1. /\ mode = "apply" /\ Node[1] = "fun" /\ given < Arity[Node[2]]
      /\ stack' = Write(stack, base, << <<"pap", Node[2], Words(base, given), mask>> >>)
      /\ mode' = "ret" /\ base' = base /\ UNCHANGED value
  BY DEF ApplyPartial
<1>2. PICK n \in Nat : \E as \in Seq(Arg) : Pending(n, as)
  BY <1>1, PendingFacts
<1>3. PICK as \in Seq(Arg) : Pending(n, as)
  BY <1>2
<1>4. PICK f : f = Node
  OBVIOUS
<1>5. f \in FunWord /\ AbsValue(f) = f /\ f[1] = "fun" /\ f[2] \in Fun
  BY <1>1, <1>3, <1>4, WordFacts, ValueFacts DEF Pending
<1>6. PICK v : v = <<"pap", f[2], as, mask>>
  OBVIOUS
<1>7. /\ StackInv /\ GoodStack(stack) /\ TopFrame(stack, base, absKont)
      /\ base \in Nat /\ base - 1 \in Nat /\ base + 4 <= StackSize /\ Len(as) = n
      /\ n < Arity[f[2]] /\ Exact(mask, as)
      /\ stack' = Write(stack, base, <<v>>)
  <2>1. base \in 6..StackSize /\ base + n + 4 <= StackSize
    BY <1>3 DEF Pending
  <2>2. base \in Nat /\ base - 1 \in Nat /\ base + 4 <= StackSize
    BY <2>1, ArityFacts
  <2> QED BY <1>1, <1>3, <1>4, <1>6, <2>2 DEF Pending
<1>8. /\ v[1] = "pap" /\ AbsValue(v) = <<"pap", f[2], as>>
      /\ IsPap(v) /\ IsValue(v) /\ IsHNF(v) /\ Good(v)
  <2>1. v[1] = "pap" /\ v[2] = f[2] /\ v[3] = as /\ v[4] = mask
    BY <1>6
  <2>2. IsPap(v)
    BY <1>5, <1>7, <2>1 DEF IsPap
  <2> QED BY <2>1, <2>2, ValueFacts DEF AbsValue, IsHNF
<1>9. WordAt(stack', stack, base, v)
  BY <1>7, <1>8, WordWritten
<1>10. GoodStack(stack') /\ stack'[base] = v /\ stack'[base - 1] = f
  <2>1. base \in 0..(StackSize + Guard - 1) /\ base - 1 \in 0..(StackSize + Guard - 1)
        /\ base - 1 # base
    BY <1>7, ArityFacts
  <2>2. f = stack[base - 1]
    BY <1>4 DEF Node
  <2> QED BY <1>9, <2>1, <2>2 DEF WordAt
<1>11. TopFrame(stack', base, absKont)
  <2>1. base - 1 <= base
    BY <1>7
  <2> QED BY <1>7, <2>1, WriteAbove
<1>12. /\ ApplyInv'
       /\ absMode' = "ret" /\ absNode' = Unboxed /\ absLocals' = <<AbsValue(v)>>
       /\ absKont' = absKont /\ absValue' = absValue
  <2>1. StackInv' /\ absValue' = absValue
    BY <1>1, <1>7, <1>10, ValueKept
  <2> QED BY <1>1, <1>5, <1>7, <1>8, <1>10, <1>11, <2>1, ReturnedStep
<1>13. absMode = "apply" /\ absNode = f /\ absLocals = as
  BY <1>3, <1>4, <1>5 DEF Pending
<1>14. Machine!ApplyStep
  BY <1>5, <1>7, <1>8, <1>12, <1>13
  DEF Machine!ApplyStep, Machine!Return, Machine!Unboxed, Unboxed
<1> QED BY <1>12, <1>14 DEF Machine!Next

\* A shift by less than the width of a mask.
LEMMA ShiftsInRange ==
  ASSUME NEW n \in Nat, n < MaskBits, NEW m, Lost \notin m
  PROVE  /\ ShiftLeft(m, n) = {i + n : i \in m} \cap (1..MaskBits)
         /\ ShiftRight(m, n) = {i - n : i \in {j \in m : j > n}}
<1>1. n % MaskBits = n
  <2>1. PICK w \in Nat : w = MaskBits /\ n < w
    BY GenericApplyAssumption
  <2>2. n % w = n
    BY <2>1
  <2> QED BY <2>1, <2>2
<1>2. Bits(m) = m
  BY DEF Bits
<1> QED BY <1>1, <1>2 DEF ShiftLeft, ShiftRight

\* Pointer masks of arguments one after the other, and of the arguments
\* after the first m.
LEMMA PapMaskFacts ==
  ASSUME NEW p \in Seq(Arg), NEW as \in Seq(Arg), NEW l \in Nat, Len(p) = l,
         NEW n \in Nat, Len(as) = n, n > 0, l + n <= MaskBits
  PROVE  ShiftLeft(Pointers(as), l) \cup Pointers(p) = Pointers(p \o as)
<1>1. PICK ws \in Seq(Arg) : ws = p \o as /\ IsConcat(ws, p, as)
  BY ConcatAt
<1>2. PICK k \in Nat : Len(ws) = k /\ k = l + n /\ k <= MaskBits
  BY <1>1 DEF IsConcat
<1>3. /\ \A i \in 1..l : ws[i] = p[i]
      /\ \A i \in 1..n : ws[l + i] = as[i]
  BY <1>1 DEF IsConcat
<1>4. DOMAIN ws = 1..k /\ DOMAIN p = 1..l /\ DOMAIN as = 1..n
  BY <1>2, SeqFacts
<1>5. Pointers(p) = {i \in 1..l : p[i] # Unboxed}
  BY <1>4 DEF Pointers
<1>6. ShiftLeft(Pointers(as), l) = {i \in (l + 1)..k : as[i - l] # Unboxed}
  <2>1. Pointers(as) = {i \in 1..n : as[i] # Unboxed}
    BY <1>4 DEF Pointers
  <2>2. ShiftLeft(Pointers(as), l) = {i + l : i \in Pointers(as)} \cap (1..MaskBits)
    <3>1. l < MaskBits /\ Lost \notin Pointers(as)
      BY <2>1, GenericApplyAssumption DEF Lost
    <3> QED BY <3>1, ShiftsInRange
  <2>3. ASSUME NEW j
        PROVE  j \in ShiftLeft(Pointers(as), l) <=>
                 j \in (l + 1)..k /\ as[j - l] # Unboxed
    <3>1. ASSUME j \in ShiftLeft(Pointers(as), l)
          PROVE  j \in (l + 1)..k /\ as[j - l] # Unboxed
      <4>1. PICK i \in 1..n : as[i] # Unboxed /\ j = i + l
        BY <2>1, <2>2, <3>1
      <4>2. j \in (l + 1)..k /\ j - l = i
        BY <1>2, <4>1
      <4> QED BY <4>1, <4>2
    <3>2. ASSUME j \in (l + 1)..k, as[j - l] # Unboxed
          PROVE  j \in ShiftLeft(Pointers(as), l)
      <4>1. PICK i \in 1..n : i = j - l /\ j = i + l /\ j \in 1..MaskBits
        <5>1. j - l \in 1..n /\ j = (j - l) + l /\ j \in 1..MaskBits
          BY <1>2, <3>2, GenericApplyAssumption
        <5> QED BY <5>1
      <4>2. i \in Pointers(as)
        BY <2>1, <3>2, <4>1
      <4> QED BY <2>2, <4>1, <4>2
    <3> QED BY <3>1, <3>2
  <2> QED BY <2>3
<1>7. Pointers(ws) = {i \in 1..k : ws[i] # Unboxed}
  BY <1>4 DEF Pointers
<1>8. ASSUME NEW j \in 1..k
      PROVE  ws[j] # Unboxed <=> \/ j \in 1..l /\ p[j] # Unboxed
                                 \/ j \in (l + 1)..k /\ as[j - l] # Unboxed
  <2>1. CASE j \in 1..l
    <3>1. j \notin (l + 1)..k /\ ws[j] = p[j]
      BY <1>3, <2>1
    <3> QED BY <2>1, <3>1
  <2>2. CASE j \notin 1..l
    <3>1. PICK i \in 1..n : j = l + i /\ j - l = i /\ j \in (l + 1)..k
      <4>1. j - l \in 1..n /\ j = l + (j - l) /\ j \in (l + 1)..k
        BY <1>2, <2>2
      <4> QED BY <4>1
    <3>2. ws[l + i] = as[i]
      BY <1>3
    <3> QED BY <2>2, <3>1, <3>2
  <2> QED BY <2>1, <2>2
<1>9. \A j : (j \in 1..l \/ j \in (l + 1)..k) => j \in 1..k
  BY <1>2
<1> QED BY <1>1, <1>5, <1>6, <1>7, <1>8, <1>9

\* The elements after the first m.
IsSurplus(us, as, m, n) ==
  us = SubSeq(as, m + 1, n) /\ Len(us) = n - m /\ \A i \in 1..(n - m) : us[i] = as[m + i]

\* The elements of a part of a sequence.
LEMMA SubSeqAt ==
  ASSUME NEW s, NEW m \in Nat, NEW n \in Nat
  PROVE  SubSeq(s, m, n) = [i \in 1..(1 + n - m) |-> s[i + m - 1]]
OBVIOUS

\* The arguments a call passes too many.
LEMMA SuffixAt ==
  ASSUME NEW S, NEW as, NEW n \in Nat, \A i \in 1..n : as[i] \in S, NEW m \in Nat, m < n
  PROVE  \E us \in Seq(S) : IsSurplus(us, as, m, n)
<1>1. PICK e \in Nat : e = m + 1
  OBVIOUS
<1>2. PICK l \in Nat : n - m = l /\ 1 + n - e = l
  <2>1. n - m \in Nat /\ 1 + n - e = n - m
    BY <1>1
  <2> QED BY <2>1
<1>3. PICK us : us = [i \in 1..l |-> as[i + e - 1]]
  OBVIOUS
<1>4. SubSeq(as, e, n) = us
  <2>1. SubSeq(as, e, n) = [i \in 1..(1 + n - e) |-> as[i + e - 1]]
    BY SubSeqAt
  <2> QED BY <1>2, <1>3, <2>1
<1>5. ASSUME NEW i \in 1..l
      PROVE  us[i] = as[m + i] /\ us[i] \in S
  <2>1. i + e - 1 = m + i /\ m + i \in 1..n
    BY <1>1, <1>2
  <2>2. us[i] = as[i + e - 1]
    BY <1>3
  <2> QED BY <2>1, <2>2
<1>6. us \in Seq(S) /\ Len(us) = l
  <2>1. us = [i \in 1..l |-> us[i]]
    BY <1>3
  <2>2. us \in [1..l -> S]
    BY <1>5, <2>1
  <2>3. us \in Seq(S)
    BY <2>2, SeqDef
  <2>4. DOMAIN us = 1..l
    BY <1>3
  <2> QED BY <2>3, <2>4, LenProperties
<1>7. IsSurplus(us, as, m, n)
  BY <1>1, <1>2, <1>4, <1>5, <1>6 DEF IsSurplus
<1> QED BY <1>6, <1>7

\* The mask of the arguments that are too many is the rest of the mask.
LEMMA OverMaskFacts ==
  ASSUME NEW as \in Seq(Arg), NEW n \in Nat, Len(as) = n, n <= MaskBits, NEW m \in Nat, m < n,
         NEW us \in Seq(Arg), IsSurplus(us, as, m, n)
  PROVE  OverMask(Pointers(as), m) = Pointers(us)
<1>1. PICK l \in Nat : n - m = l
  <2>1. n - m \in Nat
    OBVIOUS
  <2> QED BY <2>1
<1>2. Len(us) = l /\ \A i \in 1..l : us[i] = as[m + i]
  BY <1>1 DEF IsSurplus
<1>3. DOMAIN us = 1..l /\ DOMAIN as = 1..n
  BY <1>2, SeqFacts
<1>4. Pointers(as) = {i \in 1..n : as[i] # Unboxed} /\ Pointers(us) = {i \in 1..l : us[i] # Unboxed}
  BY <1>3 DEF Pointers
<1>5. OverMask(Pointers(as), m) = {i - m : i \in {j \in Pointers(as) : j > m}}
  <2>1. m < MaskBits /\ Lost \notin Pointers(as)
    BY <1>4, GenericApplyAssumption DEF Lost
  <2> QED BY <2>1, ShiftsInRange DEF OverMask, LostIn
<1>6. ASSUME NEW j \in OverMask(Pointers(as), m)
      PROVE  j \in Pointers(us)
  <2>1. PICK i \in 1..n : as[i] # Unboxed /\ i > m /\ j = i - m
    BY <1>4, <1>6, <1>5
  <2>2. j \in 1..l /\ m + j = i
    BY <1>1, <2>1
  <2> QED BY <1>2, <1>4, <2>1, <2>2
<1>7. ASSUME NEW j \in Pointers(us)
      PROVE  j \in OverMask(Pointers(as), m)
  <2>1. j \in 1..l /\ us[j] # Unboxed
    BY <1>4
  <2>2. PICK i \in 1..n : i = m + j /\ i > m /\ j = i - m
    <3>1. m + j \in 1..n /\ m + j > m /\ j = (m + j) - m
      BY <1>1, <2>1
    <3> QED BY <3>1
  <2>3. i \in Pointers(as)
    BY <1>2, <1>4, <2>1, <2>2
  <2> QED BY <1>5, <2>2, <2>3
<1> QED BY <1>6, <1>7

\* A node and, above it, two lists of words.
LEMMA NodesWritten ==
  ASSUME NEW st, GoodStack(st), NEW b \in Nat, b > 0, NEW f, Good(f),
         NEW p \in Seq(Arg), NEW l \in Nat, Len(p) = l,
         NEW as \in Seq(Arg), NEW n \in Nat, Len(as) = n,
         NEW m \in Nat, l + n = m, b + m <= StackSize,
         NEW new, new = Write(st, b - 1, <<f>> \o p \o as)
  PROVE  HasNode(new, st, b, f, p \o as, m)
<1>1. PICK S : S = Arg \cup {f}
  OBVIOUS
<1>2. p \in Seq(S) /\ as \in Seq(S)
  BY <1>1, SeqMonotonic
<1>3. PICK x \in Seq(S) : x = <<f>>
  <2>1. f \in S
    BY <1>1
  <2>2. <<f>> \in Seq(S)
    BY <2>1
  <2> QED BY <2>2
<1>4. PICK k \in Nat : Len(x) = k /\ k = 1 /\ x[1] = f
  BY <1>3
<1>5. PICK a \in Seq(S) : x \o p = a /\ IsConcat(a, x, p)
  BY <1>2, ConcatAt
<1>6. PICK c : c = p \o as /\ IsConcat(c, p, as)
  BY ConcatAt
<1>7. PICK e \in Nat : Len(a) = e /\ e = k + l
  BY <1>4, <1>5 DEF IsConcat
<1>8. PICK t \in Nat : b - 1 = t /\ t + 1 = b
  <2>1. b - 1 \in Nat /\ (b - 1) + 1 = b
    OBVIOUS
  <2> QED BY <2>1
<1>9. \A y \in S : Good(y)
  BY <1>1, ValueFacts
<1>10. new = Write(st, t, a \o as)
  BY <1>3, <1>5, <1>8
<1>11. HasParts(new, st, t, a, e, as, n)
  BY <1>2, <1>7, <1>9, <1>10, PartsWritten
<1>12. /\ \A i \in 1..k : a[i] = x[i]
       /\ \A i \in 1..l : a[k + i] = p[i] /\ c[i] = p[i]
       /\ \A i \in 1..n : c[l + i] = as[i]
  BY <1>4, <1>5, <1>6 DEF IsConcat
<1>13. /\ GoodStack(new)
       /\ \A i \in 0..(StackSize + Guard - 1) : i < t \/ i >= t + e + n => new[i] = st[i]
       /\ \A i \in 0..(e - 1) : t + i \in 0..(StackSize + Guard - 1) => new[t + i] = a[i + 1]
       /\ \A i \in 0..(n - 1) : t + e + i \in 0..(StackSize + Guard - 1) => new[t + e + i] = as[i + 1]
  BY <1>11 DEF HasParts
<1>14. \A i \in 0..m : t + i \in 0..(StackSize + Guard - 1)
  BY <1>8, ArityFacts
<1>15. new[b - 1] = f
  <2>1. 0 \in 0..(e - 1) /\ t + 0 = t /\ t + 0 \in 0..(StackSize + Guard - 1) /\ 0 + 1 = 1 /\ 1 \in 1..k
    BY <1>4, <1>7, <1>8, ArityFacts
  <2>2. new[t + 0] = a[0 + 1]
    BY <1>13, <2>1
  <2> QED BY <1>4, <1>8, <1>12, <2>1, <2>2
<1>16. ASSUME NEW i \in 0..(m - 1)
       PROVE  new[b + i] = c[i + 1]
  <2>1. CASE i < l
    <3>1. PICK j \in 0..(e - 1) : t + j = b + i /\ j + 1 = k + (i + 1) /\ i + 1 \in 1..l /\ j \in 0..m
      <4>1. i + 1 \in 0..(e - 1) /\ t + (i + 1) = b + i /\ (i + 1) + 1 = k + (i + 1) /\ i + 1 \in 1..l
            /\ i + 1 \in 0..m
        BY <1>4, <1>7, <1>8, <2>1
      <4> QED BY <4>1
    <3>2. new[t + j] = a[j + 1]
      BY <1>13, <1>14, <3>1
    <3>3. a[k + (i + 1)] = p[i + 1] /\ c[i + 1] = p[i + 1]
      BY <1>12, <3>1
    <3> QED BY <3>1, <3>2, <3>3
  <2>2. CASE ~ (i < l)
    <3>1. PICK j \in 0..(n - 1) : b + i = t + e + j /\ i + 1 = l + (j + 1) /\ j + 1 \in 1..n
      <4>1. i - l \in 0..(n - 1) /\ b + i = t + e + (i - l) /\ i + 1 = l + ((i - l) + 1) /\ (i - l) + 1 \in 1..n
        BY <1>4, <1>7, <1>8, <2>2
      <4> QED BY <4>1
    <3>2. t + e + j \in 0..(StackSize + Guard - 1)
      <4>1. b + i \in 0..(StackSize + Guard - 1)
        BY ArityFacts
      <4> QED BY <3>1, <4>1
    <3>3. new[t + e + j] = as[j + 1]
      BY <1>13, <3>2
    <3>4. c[l + (j + 1)] = as[j + 1]
      BY <1>12, <3>1
    <3>5. new[b + i] = new[t + e + j] /\ c[i + 1] = c[l + (j + 1)]
      BY <3>1
    <3> QED BY <3>3, <3>4, <3>5
  <2> QED BY <2>1, <2>2
<1>17. \A i \in 0..(StackSize + Guard - 1) : i < b - 1 \/ i >= b + m => new[i] = st[i]
  <2>1. \A i \in 0..(StackSize + Guard - 1) : i < b - 1 \/ i >= b + m => i < t \/ i >= t + e + n
    BY <1>4, <1>7, <1>8
  <2> QED BY <1>13, <2>1
<1>18. HasNode(new, st, b, f, c, m)
  BY <1>13, <1>15, <1>16, <1>17 DEF HasNode
<1> QED BY <1>6, <1>18

\* A partial application is given more: its arguments come first.
LEMMA ApplyPapStep ==
  ASSUME NEW fs, Running(fs), ApplyPap
  PROVE  ApplyInv' /\ Machine!Next
<1>1. /\ mode = "apply" /\ Node[1] = "pap"
      /\ Checked(base, Len(Node[3]) + given,
           /\ stack' = Write(stack, base - 1, << <<"fun", Node[2]>> >>
                               \o Node[3] \o Words(base, given))
           /\ top' = base + (Len(Node[3]) + given)
           /\ GenericApply(base, Len(Node[3]) + given, PapMask(mask, Node)))
  BY DEF ApplyPap
<1>2. PICK n \in Nat : \E as \in Seq(Arg) : Pending(n, as)
  BY <1>1, PendingFacts
<1>3. PICK as \in Seq(Arg) : Pending(n, as)
  BY <1>2
<1>4. PICK p : p = Node[3]
  OBVIOUS
<1>5. /\ IsPap(Node) /\ p \in Seq(Arg) /\ Node[2] \in Fun /\ Len(p) < Arity[Node[2]]
      /\ Exact(Node[4], p)
  <2>1. IsPap(Node)
    BY <1>1, <1>3, WordFacts DEF Pending
  <2> QED BY <1>4, <2>1 DEF IsPap
<1>6. PICK l \in Nat : Len(p) = l /\ l < Arity[Node[2]] /\ Arity[Node[2]] \in Nat
  BY <1>5, SeqFacts, ArityFacts
<1>7. PICK m \in Nat : l + n = m /\ m > 0
  <2>1. n > 0
    BY <1>3 DEF Pending
  <2> QED BY <2>1
<1>8. PICK us \in Seq(Arg) : us = p \o as /\ Len(us) = m
  <2>1. p \o as \in Seq(Arg) /\ Len(p \o as) = Len(p) + Len(as) /\ Len(as) = n
    BY <1>3, <1>5, ConcatAt DEF IsConcat, Pending
  <2> QED BY <1>6, <1>7, <2>1
<1>9. PICK f \in FunWord : f = <<"fun", Node[2]>> /\ Good(f) /\ AbsValue(f) = f /\ f[2] = Node[2]
  <2>1. <<"fun", Node[2]>> \in FunWord
    BY <1>5 DEF FunWord
  <2> QED BY <2>1, ValueFacts DEF Arg
<1>10. /\ StackInv /\ ModeInv /\ GoodStack(stack) /\ TopFrame(stack, base, absKont)
       /\ base \in Nat /\ base > 0 /\ base - 1 \in Nat
       /\ given = n /\ Words(base, given) = as
       /\ absMode = "apply" /\ absNode = AbsValue(Node) /\ absLocals = as
       /\ Exact(mask, as) /\ n > 0 /\ Len(as) = n
  <2>1. base \in 6..StackSize
    BY <1>3 DEF Pending
  <2>2. base \in Nat /\ base > 0 /\ base - 1 \in Nat
    BY <2>1, ArityFacts
  <2> QED BY <1>3, <2>2 DEF Pending
<1>12. CASE stackOverflow(base, Len(Node[3]) + given)
  <2>1. Overflow
    BY <1>1, <1>12 DEF Checked
  <2> QED BY <1>1, <1>10, <2>1, OverflowStep
<1>13. CASE ~ stackOverflow(base, Len(Node[3]) + given)
  <2>1. /\ stack' = Write(stack, base - 1, <<f>> \o p \o as)
        /\ mode' = "apply" /\ base' = base /\ given' = m /\ mask' = PapMask(mask, Node)
        /\ UNCHANGED value
    BY <1>1, <1>4, <1>6, <1>7, <1>9, <1>10, <1>13 DEF Checked, GenericApply
  <2>2. base + m + 4 <= StackSize /\ base + m <= StackSize
    <3>1. ~ (StackSize < base + m + 4)
      BY <1>4, <1>6, <1>7, <1>10, <1>13, SMTT(40) DEF stackOverflow, FRAME_SIZE
    <3> QED BY <1>10, <3>1, ArityFacts
  <2>3. HasNode(stack', stack, base, f, us, m)
    BY <1>3, <1>5, <1>6, <1>7, <1>8, <1>9, <1>10, <2>1, <2>2, NodesWritten DEF Pending
  <2>4. /\ GoodStack(stack') /\ stack'[base - 1] = f
        /\ \A i \in 0..(m - 1) : stack'[base + i] = us[i + 1]
    BY <2>3 DEF HasNode
  <2>5. HasArgs(stack', base, m, us)
    BY <1>8, <1>10, <2>4, ReadBack
  <2>6. TopFrame(stack', base, absKont)
    <3>1. base - 1 <= base - 1
      BY <1>10
    <3> QED BY <1>10, <2>1, <3>1, WriteAbove
  <2>7. Exact(mask', us)
    <3>1. mask' = PapMask(mask, Node) /\ us = p \o as /\ Len(us) = m
      BY <1>8, <2>1
    <3>2. SUFFICES ASSUME Lost \notin PapMask(mask, Node)
                   PROVE  PapMask(mask, Node) = Pointers(p \o as) /\ m <= MaskBits
      BY <3>1 DEF Exact
    <3>3. Lost \notin mask /\ Lost \notin Node[4] /\ l + n <= MaskBits
      <4>1. Len(Node[3]) + given = l + n /\ l + n \in Nat /\ MaskBits \in Nat
        BY <1>4, <1>6, <1>10, GenericApplyAssumption
      <4>2. LostIn(mask) = {} /\ Lost \notin Node[4] /\ TooWide(l + n) = {}
        BY <3>2, <4>1 DEF PapMask, LostIn, TooWide
      <4> QED BY <4>1, <4>2 DEF LostIn, TooWide
    <3>4. mask = Pointers(as) /\ Node[4] = Pointers(p)
      BY <1>5, <1>10, <3>3 DEF Exact
    <3>5. PapMask(mask, Node) = ShiftLeft(Pointers(as), l) \cup Pointers(p)
      <4>1. LostIn(mask) = {} /\ TooWide(Len(Node[3]) + given) = {} /\ Len(Node[3]) = l
        BY <1>4, <1>6, <3>2, <3>3 DEF PapMask, LostIn, TooWide
      <4> QED BY <3>4, <4>1 DEF PapMask
    <3>6. ShiftLeft(Pointers(as), l) \cup Pointers(p) = Pointers(p \o as)
      BY <1>5, <1>6, <1>10, <3>3, PapMaskFacts
    <3> QED BY <1>7, <3>3, <3>5, <3>6
  <2>8. /\ ApplyInv'
        /\ absMode' = "apply" /\ absNode' = AbsValue(f) /\ absLocals' = us
        /\ absKont' = absKont /\ absValue' = absValue
    <3>1. /\ TopFrame(stack', base', absKont) /\ stack'[base' - 1] = f
          /\ base' + m + 4 <= StackSize /\ HasArgs(stack', base', m, us)
      BY <2>1, <2>2, <2>4, <2>5, <2>6
    <3> QED BY <1>7, <1>9, <1>10, <2>1, <2>4, <2>7, <3>1, PendingStep
  <2>9. absNode[1] = "pap" /\ absNode[2] = Node[2] /\ absNode[3] = p
    BY <1>1, <1>4, <1>10 DEF AbsValue
  <2>10. Machine!ApplyStep
    BY <1>8, <1>9, <1>10, <2>8, <2>9 DEF Machine!ApplyStep, Machine!Apply
  <2> QED BY <2>8, <2>10 DEF Machine!Next
<1> QED BY <1>12, <1>13

\* The node of an application frame with the arguments as.
IsApk(w, n, as) ==
  n > 0 /\ w[2] = n /\ Exact(w[3], as)

\* Such a frame at b waits for that at c.
ApkWaiting(new, b, c, as) == Waiting(new, b, c) /\ AbsFrame(new, b, "apk") = Machine!Apk(as)

\* A frame that holds arguments for a result waits for it.
LEMMA ApkWaits ==
  ASSUME NEW new, NEW b \in Nat, NEW c \in Nat, NEW n \in Nat, NEW as,
         IsApk(new[b - 1], n, as), HasArgs(new, b, n, as),
         new[c - 3][2] = b, new[c - 2][2] = "apk", b + n + 1 <= c - 3
  PROVE  ApkWaiting(new, b, c, as)
<1>1. PICK w : w = new[b - 1]
  OBVIOUS
<1>2. w[2] = n /\ n \in Nat \ {0} /\ Exact(w[3], as)
  <2>1. IsApk(w, n, as)
    BY <1>1
  <2>2. n > 0 /\ w[2] = n /\ Exact(w[3], as)
    BY <2>1 DEF IsApk
  <2> QED BY <2>2
<1>3. /\ WordsOf(new, b, n) = as /\ AbsWords(new, b, n) = as
      /\ \A i \in 0..(n - 1) : new[b + i] \in Arg
  BY DEF HasArgs
<1>4. Waiting(new, b, c)
  BY <1>1, <1>2, <1>3 DEF Waiting
<1>5. AbsFrame(new, b, "apk") = Machine!Apk(as)
  BY <1>1, <1>2, <1>3 DEF AbsFrame, Machine!Apk, Machine!Unboxed, Unboxed
<1> QED BY <1>4, <1>5 DEF ApkWaiting

\* Arguments stay when nothing is written over them.
LEMMA KeptArgs ==
  ASSUME NEW st, NEW b \in Nat, NEW n \in Nat, NEW as, HasArgs(st, b, n, as), NEW new,
         \A i \in 0..(n - 1) : new[b + i] = st[b + i]
  PROVE  HasArgs(new, b, n, as)
<1>1. \A i \in 1..n : new[b + i - 1] = st[b + i - 1]
  <2> SUFFICES ASSUME NEW i \in 1..n PROVE new[b + i - 1] = st[b + i - 1]
    OBVIOUS
  <2>1. PICK j \in 0..(n - 1) : j = i - 1 /\ b + j = b + i - 1
    OBVIOUS
  <2> QED BY <2>1
<1>2. WordsOf(new, b, n) = WordsOf(st, b, n) /\ AbsWords(new, b, n) = AbsWords(st, b, n)
  BY <1>1 DEF WordsOf, AbsWords
<1> QED BY <1>2 DEF HasArgs

\* A thunk is applied: its frame becomes an application frame.
LEMMA ApplyThunkStep ==
  ASSUME NEW fs, Running(fs), ApplyThunk
  PROVE  ApplyInv' /\ Machine!Next
<1>1. mode = "apply" /\ Node[1] = "thunk"
  BY DEF ApplyThunk
<1>2. PICK n \in Nat : \E as \in Seq(Arg) : Pending(n, as)
  BY <1>1, PendingFacts
<1>3. PICK as \in Seq(Arg) : Pending(n, as)
  BY <1>2
<1>4. PICK th : th = Node
  OBVIOUS
<1>5. /\ th \in ThunkWord /\ AbsValue(th) = th /\ th[1] = "thunk" /\ FrameSize[th[2]] \in Nat
      /\ th = <<"thunk", th[2]>>
  BY <1>1, <1>3, <1>4, WordFacts, ValueFacts, ArityFacts DEF Pending
<1>6. /\ StackInv /\ ModeInv /\ GoodStack(stack) /\ TopFrame(stack, base, absKont)
      /\ base \in 6..StackSize /\ given = n /\ n > 0 /\ Len(as) = n
      /\ HasArgs(stack, base, n, as) /\ Exact(mask, as)
      /\ absMode = "apply" /\ absNode = th /\ absLocals = as /\ as # << >>
  BY <1>3, <1>4, <1>5 DEF Pending
<1>7. base \in Nat /\ base - 1 \in Nat /\ base > 5
  BY <1>6, ArityFacts
<1>8. PICK t \in Nat : base + (n + 1) = t
  <2>1. base + (n + 1) \in Nat
    BY <1>7
  <2> QED BY <2>1
<1>9. PICK w : w = <<"apk", n, mask>> /\ Good(w)
  <2>1. <<"apk", n, mask>>[1] # "pap"
    OBVIOUS
  <2> QED BY <2>1 DEF Good
<1>10. PICK st : st = Write(stack, base - 1, <<w>>)
  OBVIOUS
<1>11. Checked(base, n + 1 + FRAME_SIZE + (FRAME_SIZE + UPD_SIZE) + FRAME_SIZE + FrameSize[th[2]],
         /\ stack' = Write(st, t, EvalFrames(t, base, "apk", th))
         /\ Branch(EvalBase(t), th))
  BY <1>4, <1>6, <1>8, <1>9, <1>10 DEF ApplyThunk, apContFrameSize
<1>12. CASE stackOverflow(base, n + 1 + FRAME_SIZE + (FRAME_SIZE + UPD_SIZE) + FRAME_SIZE
                                  + FrameSize[th[2]])
  <2>1. Overflow
    BY <1>11, <1>12 DEF Checked
  <2> QED BY <1>1, <1>6, <2>1, OverflowStep
<1>13. CASE ~ stackOverflow(base, n + 1 + FRAME_SIZE + (FRAME_SIZE + UPD_SIZE) + FRAME_SIZE
                                    + FrameSize[th[2]])
  <2>1. stack' = Write(st, t, EvalFrames(t, base, "apk", th)) /\ Branch(EvalBase(t), th)
    BY <1>11, <1>13 DEF Checked
  <2>2. t + 8 + FrameSize[th[2]] + 4 <= StackSize /\ t + 8 <= StackSize
    <3>1. ~ (StackSize < base + (n + 1 + 3 + (3 + 2) + 3 + FrameSize[th[2]]) + (3 + 1))
      BY <1>13 DEF stackOverflow, FRAME_SIZE, UPD_SIZE
    <3> QED BY <1>5, <1>7, <1>8, <3>1, ArityFacts
  <2>3. WordAt(st, stack, base - 1, w)
    BY <1>6, <1>7, <1>9, <1>10, WordWritten
  <2>4. GoodStack(st) /\ \A i \in 0..(StackSize + Guard - 1) : st[i] = IF i = base - 1 THEN w ELSE stack[i]
    BY <2>3 DEF WordAt
  <2>5. /\ \A i \in 0..(StackSize + Guard - 1) : i < t \/ i > t + 7 => stack'[i] = st[i]
        /\ stack'[t][2] = base /\ stack'[t + 1][2] = "apk"
    BY <1>5, <2>1, <2>2, <2>4, EvalFramesAt, SMTT(40)
  <2>6. stack'[base - 1] = w /\ \A i \in 0..(n - 1) : stack'[base + i] = stack[base + i]
    <3>1. base - 1 \in 0..(StackSize + Guard - 1) /\ base - 1 < t
      BY <1>7, <1>8, <2>2, ArityFacts
    <3>2. ASSUME NEW i \in 0..(n - 1)
          PROVE  stack'[base + i] = stack[base + i]
      <4>1. base + i \in 0..(StackSize + Guard - 1) /\ base + i < t /\ base + i # base - 1
        BY <1>7, <1>8, <2>2, ArityFacts
      <4> QED BY <2>4, <2>5, <4>1
    <3> QED BY <2>4, <2>5, <3>1, <3>2
  <2>7. HasArgs(stack', base, n, as)
    BY <1>6, <1>7, <2>6, KeptArgs
  <2>8. Waiting(stack', base, t + 3) /\ AbsFrame(stack', base, "apk") = Machine!Apk(as)
    <3>1. PICK c \in Nat : t + 3 = c /\ c - 3 = t /\ c - 2 = t + 1 /\ base + n + 1 <= c - 3
      <4>1. t + 3 \in Nat /\ (t + 3) - 3 = t /\ (t + 3) - 2 = t + 1 /\ base + n + 1 <= t
        BY <1>7, <1>8
      <4> QED BY <4>1
    <3>2. stack'[c - 3][2] = base /\ stack'[c - 2][2] = "apk"
      BY <2>5, <3>1
    <3>3. ApkWaiting(stack', base, c, as)
      <4>1. IsApk(stack'[base - 1], n, as)
        BY <1>6, <1>9, <2>6 DEF IsApk
      <4> QED BY <1>7, <2>7, <3>1, <3>2, <4>1, ApkWaits
    <3> QED BY <3>1, <3>3 DEF ApkWaiting
  <2>9. TopFrame(st, base, absKont)
    <3>1. base - 1 <= base - 1
      BY <1>7
    <3> QED BY <1>6, <1>7, <1>10, <3>1, WriteAbove
  <2>10. PICK gs \in Seq(Nat) : /\ Linked(gs, st) /\ Len(gs) > 1 /\ gs[Len(gs)] = base
                                /\ KontOf(st, gs, Len(gs)) = absKont
    BY <2>9 DEF TopFrame
  <2>11. /\ ApplyInv'
         /\ absMode' = "body" /\ absNode' = th /\ absLocals' = << >> /\ absValue' = absValue
         /\ absKont' = Below(st, gs, stack', "apk") \o <<UpdFrame(th)>>
    <3>1. base + 1 <= t
      BY <1>7, <1>8
    <3> QED BY <1>5, <1>6, <2>1, <2>2, <2>4, <2>8, <2>10, <3>1, EnterStep
  <2>12. Below(st, gs, stack', "apk") = Append(absKont, Machine!Apk(as))
    BY <2>8, <2>10 DEF Below
  <2>13. Machine!Enter(th[2], Append(absKont, Machine!Apk(as)))
    BY <1>5, <2>11, <2>12 DEF Machine!Enter, Machine!Body, UpdFrame
  <2>14. Machine!ApplyStep
    BY <1>5, <1>6, <2>11, <2>13 DEF Machine!ApplyStep
  <2> QED BY <2>11, <2>14 DEF Machine!Next
<1> QED BY <1>12, <1>13

\* The first m elements.
IsPart(ps, as, m) ==
  ps = SubSeq(as, 1, m) /\ Len(ps) = m /\ \A i \in 1..m : ps[i] = as[i]

\* The arguments a call passes at first.
LEMMA PartAt ==
  ASSUME NEW S, NEW as, NEW m \in Nat, \A i \in 1..m : as[i] \in S
  PROVE  \E ps \in Seq(S) : IsPart(ps, as, m)
<1>1. PICK ps : ps = [i \in 1..m |-> as[i]]
  OBVIOUS
<1>2. SubSeq(as, 1, m) = ps
  <2>1. PICK k \in Nat : k = 1
    OBVIOUS
  <2>2. SubSeq(as, k, m) = [i \in 1..(1 + m - k) |-> as[i + k - 1]]
    BY SubSeqAt
  <2>3. SubSeq(as, 1, m) = [i \in 1..(1 + m - 1) |-> as[i + 1 - 1]]
    BY <2>1, <2>2
  <2>4. 1 + m - 1 = m /\ \A i \in 1..m : i + 1 - 1 = i
    OBVIOUS
  <2> QED BY <1>1, <2>3, <2>4
<1>3. ps \in Seq(S) /\ Len(ps) = m
  <2>1. ps \in [1..m -> S]
    BY <1>1
  <2>2. ps \in Seq(S)
    BY <2>1, SeqDef
  <2>3. DOMAIN ps = 1..m
    BY <1>1
  <2> QED BY <2>2, <2>3, LenProperties
<1>4. IsPart(ps, as, m)
  BY <1>1, <1>2, <1>3 DEF IsPart
<1> QED BY <1>3, <1>4

\* A function is given more than it takes.
LEMMA ApplyOverStep ==
  ASSUME NEW fs, Running(fs), ApplyOver
  PROVE  ApplyInv' /\ Machine!Next
<1>1. mode = "apply" /\ Node[1] = "fun" /\ Arity[Node[2]] < given
  BY DEF ApplyOver
<1>2. PICK n \in Nat : \E as \in Seq(Arg) : Pending(n, as)
  BY <1>1, PendingFacts
<1>3. PICK as \in Seq(Arg) : Pending(n, as)
  BY <1>2
<1>4. PICK f : f = Node
  OBVIOUS
<1>5. f \in FunWord /\ AbsValue(f) = f /\ f[1] = "fun" /\ f[2] \in Fun /\ Good(f)
  BY <1>1, <1>3, <1>4, WordFacts, ValueFacts DEF Pending
<1>6. /\ StackInv /\ ModeInv /\ GoodStack(stack) /\ TopFrame(stack, base, absKont)
      /\ base \in 6..StackSize /\ given = n /\ Len(as) = n /\ Words(base, given) = as
      /\ Exact(mask, as)
      /\ absMode = "apply" /\ absNode = f /\ absLocals = as
  BY <1>3, <1>4, <1>5 DEF Pending
<1>7. base \in Nat /\ base - 1 \in Nat /\ base > 0
  BY <1>6, ArityFacts
<1>8. PICK m \in Nat : Arity[f[2]] = m /\ m < n
  BY <1>1, <1>4, <1>5, <1>6, ArityFacts
<1>9. PICK e \in Nat : n - m = e /\ e > 0
  <2>1. n - m \in Nat /\ n - m > 0
    BY <1>8
  <2> QED BY <2>1
<1>10. PICK t \in Nat : base + (e + 1 + 3) - 3 = t /\ base + (e + 1 + 3) = t + 3 /\ t = base + e + 1
  <2>1. /\ base + (e + 1 + 3) - 3 = base + e + 1 /\ base + (e + 1 + 3) = (base + e + 1) + 3
        /\ base + e + 1 \in Nat
    BY <1>7
  <2> QED BY <2>1
<1>11. PICK moved : moved = Write(stack, t, Link(base, "apk", f) \o as)
  OBVIOUS
<1>12. PICK surplus : surplus = [i \in 1..e |-> moved[t + 3 + m + i - 1]]
  OBVIOUS
<1>13. PICK w : w = <<"apk", e, OverMask(mask, m)>> /\ Good(w)
  <2>1. <<"apk", e, OverMask(mask, m)>>[1] # "pap"
    OBVIOUS
  <2> QED BY <2>1 DEF Good
<1>14. Checked(base, e + 1 + 3 + n,
         /\ stack' = Write(moved, base - 1, <<w>> \o surplus)
         /\ Branch(t + 3, f))
  <2>1. /\ Words(base, given) = as /\ given = n /\ Arity[Node[2]] = m /\ Node = f
        /\ given - Arity[Node[2]] = e
    BY <1>4, <1>6, <1>8, <1>9
  <2> QED BY <1>10, <1>11, <1>12, <1>13, <2>1 DEF ApplyOver, apContFrameSize, FRAME_SIZE
<1>15. CASE stackOverflow(base, e + 1 + 3 + n)
  <2>1. Overflow
    BY <1>14, <1>15 DEF Checked
  <2> QED BY <1>1, <1>6, <2>1, OverflowStep
<1>16. CASE ~ stackOverflow(base, e + 1 + 3 + n)
  <2>1. stack' = Write(moved, base - 1, <<w>> \o surplus) /\ Branch(t + 3, f)
    BY <1>14, <1>16 DEF Checked
  <2>2. t + 3 + n + 4 <= StackSize /\ t + 3 + n <= StackSize /\ base + e <= StackSize
    <3>1. ~ (StackSize < base + (e + 1 + 3 + n) + (3 + 1))
      BY <1>16 DEF stackOverflow, FRAME_SIZE
    <3>2. base + (e + 1 + 3 + n) + (3 + 1) = t + 3 + n + 4
      BY <1>7, <1>10
    <3>3. t + 3 + n + 4 <= StackSize
      BY <3>1, <3>2, ArityFacts
    <3> QED BY <1>7, <1>10, <3>3, ArityFacts
  <2>3. HasLink(moved, stack, t, base, "apk", f, as, n)
    BY <1>5, <1>6, <1>11, <2>2, LinkWritten
  <2>4. /\ GoodStack(moved)
        /\ \A i \in 0..(StackSize + Guard - 1) : i < t \/ i >= t + 3 + n => moved[i] = stack[i]
        /\ moved[t][2] = base /\ moved[t + 1][2] = "apk" /\ moved[t + 2] = f
        /\ \A i \in 0..(n - 1) : moved[t + 3 + i] = as[i + 1]
    BY <2>3 DEF HasLink
  <2>5. PICK us \in Seq(Arg) : IsSurplus(us, as, m, n) /\ Len(us) = e /\ surplus = us
    <3>1. \A i \in 1..n : as[i] \in Arg
      BY <1>6, SeqFacts
    <3>2. PICK us \in Seq(Arg) : IsSurplus(us, as, m, n)
      BY <1>8, <3>1, SuffixAt
    <3>3. Len(us) = e /\ \A i \in 1..e : us[i] = as[m + i]
      BY <1>9, <3>2 DEF IsSurplus
    <3>4. us = [i \in 1..e |-> us[i]]
      BY <3>3, SeqFacts
    <3>5. ASSUME NEW i \in 1..e
          PROVE  moved[t + 3 + m + i - 1] = us[i]
      <4>1. PICK j \in 0..(n - 1) : j = m + i - 1 /\ t + 3 + j = t + 3 + m + i - 1 /\ j + 1 = m + i
        <5>1. m + i - 1 \in 0..(n - 1) /\ t + 3 + (m + i - 1) = t + 3 + m + i - 1
              /\ (m + i - 1) + 1 = m + i
          BY <1>8, <1>9
        <5> QED BY <5>1
      <4>2. moved[t + 3 + j] = as[j + 1]
        BY <2>4
      <4> QED BY <3>3, <4>1, <4>2
    <3>6. surplus = us
      BY <1>12, <3>4, <3>5
    <3> QED BY <3>2, <3>3, <3>6
  <2>6. HasNode(stack', moved, base, w, us, e)
    BY <1>7, <1>13, <2>1, <2>2, <2>4, <2>5, NodeWritten
  <2>7. /\ GoodStack(stack') /\ stack'[base - 1] = w
        /\ \A i \in 0..(StackSize + Guard - 1) : i < base - 1 \/ i >= base + e => stack'[i] = moved[i]
        /\ \A i \in 0..(e - 1) : stack'[base + i] = us[i + 1]
    BY <2>6 DEF HasNode
  <2>8. HasArgs(stack', base, e, us)
    BY <1>7, <2>5, <2>7, ReadBack
  <2>9. \A i \in 0..(StackSize + Guard - 1) : i >= t => stack'[i] = moved[i]
    <3>1. \A i \in 0..(StackSize + Guard - 1) : i >= t => i >= base + e
      BY <1>7, <1>10
    <3> QED BY <2>7, <3>1
  <2>10. stack'[t][2] = base /\ stack'[t + 1][2] = "apk" /\ stack'[t + 2] = f
    <3>1. /\ t \in 0..(StackSize + Guard - 1) /\ t + 1 \in 0..(StackSize + Guard - 1)
          /\ t + 2 \in 0..(StackSize + Guard - 1) /\ t + 1 >= t /\ t + 2 >= t
      BY <2>2, ArityFacts
    <3> QED BY <2>4, <2>9, <3>1
  <2>11. IsApk(stack'[base - 1], e, us)
    <3>1. SUFFICES ASSUME Lost \notin OverMask(mask, m)
                   PROVE  OverMask(mask, m) = Pointers(us) /\ Len(us) <= MaskBits
      BY <1>9, <1>13, <2>7 DEF IsApk, Exact
    <3>2. mask = Pointers(as) /\ n <= MaskBits
      <4>1. Lost \notin mask
        BY <3>1 DEF OverMask, LostIn
      <4> QED BY <1>6, <4>1 DEF Exact
    <3>3. OverMask(Pointers(as), m) = Pointers(us)
      <4>1. Len(as) = n /\ m < n /\ IsSurplus(us, as, m, n)
        BY <1>6, <1>8, <2>5
      <4> QED BY <3>2, <4>1, OverMaskFacts
    <3>4. Len(us) <= MaskBits
      BY <1>8, <1>9, <2>5, <3>2, GenericApplyAssumption
    <3> QED BY <3>2, <3>3, <3>4
  <2>12. PICK c \in Nat : t + 3 = c /\ c - 3 = t /\ c - 2 = t + 1 /\ c - 1 = t + 2
                          /\ base + e + 1 <= c - 3 /\ c <= StackSize
    <3>1. t + 3 \in Nat /\ (t + 3) - 3 = t /\ (t + 3) - 2 = t + 1 /\ (t + 3) - 1 = t + 2
      OBVIOUS
    <3>2. base + e + 1 <= t /\ t + 3 <= StackSize
      BY <1>7, <1>10, <2>2, ArityFacts
    <3> QED BY <3>1, <3>2
  <2>13. ApkWaiting(stack', base, c, us)
    <3>1. stack'[c - 3][2] = base /\ stack'[c - 2][2] = "apk"
      BY <2>10, <2>12
    <3> QED BY <1>7, <2>8, <2>11, <2>12, <3>1, ApkWaits
  <2>14. TopFrame(stack', base, absKont)
    <3>1. base - 1 <= t /\ base - 1 <= base - 1
      BY <1>7, <1>10
    <3>2. TopFrame(moved, base, absKont)
      BY <1>6, <1>11, <3>1, WriteAbove
    <3> QED BY <1>7, <2>1, <2>4, <3>1, <3>2, WriteAbove
  <2>15. TopFrame(stack', c, Append(absKont, Machine!Apk(us)))
    <3>1. Waiting(stack', base, c) /\ AbsFrame(stack', base, "apk") = Machine!Apk(us)
      BY <2>13 DEF ApkWaiting
    <3>2. stack'[c - 2][2] = "apk"
      BY <2>10, <2>12
    <3>3. TopFrame(stack', c, Append(absKont, AbsFrame(stack', base, stack'[c - 2][2])))
      BY <2>12, <2>14, <3>1, PushedTop
    <3> QED BY <3>1, <3>2, <3>3
  <2>16. PICK ps \in Seq(Arg) : IsPart(ps, as, m)
    <3>1. \A i \in 1..n : as[i] \in Arg
      BY <1>6, SeqFacts
    <3>2. \A i \in 1..m : as[i] \in Arg
      <4>1. \A i \in 1..m : i \in 1..n
        BY <1>8
      <4> QED BY <3>1, <4>1
    <3> QED BY <3>2, PartAt
  <2>17. HasArgs(stack', c, m, ps)
    <3>1. Len(ps) = m /\ \A i \in 1..m : ps[i] = as[i]
      BY <2>16 DEF IsPart
    <3>2. ASSUME NEW i \in 0..(m - 1)
          PROVE  stack'[c + i] = ps[i + 1]
      <4>1. i \in 0..(n - 1) /\ i + 1 \in 1..m /\ c + i = t + 3 + i
            /\ c + i \in 0..(StackSize + Guard - 1) /\ c + i >= t
        BY <1>8, <2>2, <2>12, ArityFacts
      <4>2. stack'[c + i] = moved[c + i] /\ moved[t + 3 + i] = as[i + 1]
        BY <2>4, <2>9, <4>1
      <4> QED BY <3>1, <4>1, <4>2
    <3> QED BY <2>16, <3>1, <3>2, ReadBack
  <2>18. /\ mode' = "body" /\ base' = c /\ top' = FrameTop(base', f) /\ UNCHANGED value
         /\ stack'[base' - 1] = f
         /\ TopFrame(stack', base', Append(absKont, Machine!Apk(us)))
         /\ HasArgs(stack', base', m, ps)
         /\ base' + m + 4 <= StackSize
    <3>1. mode' = "body" /\ base' = c /\ top' = FrameTop(base', f) /\ UNCHANGED value
      BY <2>1, <2>12 DEF Branch
    <3>2. stack'[c - 1] = f
      BY <2>10, <2>12
    <3>3. c + m + 4 <= StackSize
      BY <1>8, <2>2, <2>12, ArityFacts
    <3> QED BY <2>15, <2>17, <3>1, <3>2, <3>3
  <2>19. /\ ApplyInv'
         /\ absMode' = "body" /\ absNode' = f /\ absLocals' = ps
         /\ absKont' = Append(absKont, Machine!Apk(us)) /\ absValue' = absValue
    BY <1>5, <1>6, <1>8, <2>7, <2>18, BodyStep
  <2>20. ps = SubSeq(as, 1, m) /\ us = SubSeq(as, m + 1, n) /\ n >= m /\ n # m
    BY <1>8, <2>5, <2>16 DEF IsPart, IsSurplus
  <2>21. Machine!ApplyStep
    BY <1>5, <1>6, <1>8, <2>19, <2>20 DEF Machine!ApplyStep, Machine!Body
  <2> QED BY <2>19, <2>21 DEF Machine!Next
<1> QED BY <1>15, <1>16

-----------------------------------------------------------------------------
(***************************************************************************)
(* The returns.                                                            *)
(***************************************************************************)

\* The frame that waits for the top frame, if it is not that of stg_STOP.
Waits(st, b, k, c, k2) ==
  /\ TopFrame(st, c, k2) /\ Waiting(st, c, b) /\ c \in 6..StackSize /\ c + 3 <= b
  /\ k = Append(k2, AbsFrame(st, c, st[b - 2][2]))

\* Below the topmost frame is the end of the program, or a frame that waits.
LEMMA PoppedTop ==
  ASSUME NEW st, NEW b, NEW k, TopFrame(st, b, k)
  PROVE  \/ /\ st[b - 2][2] = "stop" /\ st[b - 3][2] = 3 /\ k = << >>
            /\ \E gs \in Seq(Nat) : Linked(gs, st) /\ Len(gs) = 1
         \/ /\ st[b - 2][2] \in {"case", "apk", "upd"}
            /\ \E k2 : Waits(st, b, k, st[b - 3][2], k2)
<1>1. PICK fs \in Seq(Nat) :
        Linked(fs, st) /\ Len(fs) > 1 /\ fs[Len(fs)] = b /\ KontOf(st, fs, Len(fs)) = k
  BY DEF TopFrame
<1>2. PICK n \in Nat : Len(fs) = n /\ n > 1
  BY <1>1, SeqFacts
<1>3. PICK gs \in Seq(Nat) :
        /\ Linked(gs, st) /\ Len(gs) = Len(fs) - 1
        /\ gs[Len(gs)] \in 3..StackSize /\ b \in 3..StackSize
        /\ gs[Len(gs)] + 3 <= b
        /\ st[b - 3][2] = gs[Len(gs)]
        /\ Len(fs) = 2 => gs[Len(gs)] = 3 /\ st[b - 2][2] = "stop"
        /\ Len(fs) # 2 =>
             /\ Waiting(st, gs[Len(gs)], b)
             /\ KontOf(st, fs, Len(fs)) =
                  Append(KontOf(st, gs, Len(gs)), AbsFrame(st, gs[Len(gs)], st[b - 2][2]))
  <2>1. PICK gs \in Seq(Nat) : IsPopped(st, fs, fs[Len(fs)], gs)
    BY <1>1, Popped
  <2>2. IsPopped(st, fs, b, gs)
    BY <1>1, <2>1
  <2> QED BY <2>2 DEF IsPopped
<1>4. PICK m \in Nat : Len(gs) = m /\ m = n - 1
  BY <1>2, <1>3, SeqFacts
<1>5. CASE n = 2
  <2>1. k = << >>
    BY <1>1, <1>2, <1>5 DEF KontOf
  <2>2. m = 1
    BY <1>4, <1>5
  <2>3. Len(gs) = 1
    BY <1>4, <2>2
  <2> QED BY <1>2, <1>3, <1>5, <2>1, <2>3
<1>6. CASE n # 2
  <2>1. PICK c : c = gs[Len(gs)]
    OBVIOUS
  <2>2. PICK k2 : k2 = KontOf(st, gs, Len(gs))
    OBVIOUS
  <2>3. Len(gs) > 1
    <3>1. m > 1
      BY <1>2, <1>4, <1>6
    <3> QED BY <1>4, <3>1
  <2>4. TopFrame(st, c, k2)
    BY <1>3, <2>1, <2>2, <2>3 DEF TopFrame
  <2>5. Waiting(st, c, b) /\ k = Append(k2, AbsFrame(st, c, st[b - 2][2]))
    BY <1>1, <1>2, <1>3, <1>6, <2>1, <2>2
  <2>6. Waits(st, b, k, c, k2)
    BY <1>3, <2>1, <2>4, <2>5, TopFacts DEF Waits
  <2>7. st[b - 2][2] \in {"case", "apk", "upd"}
    BY <2>5 DEF Waiting
  <2> QED BY <1>3, <2>1, <2>6, <2>7
<1> QED BY <1>5, <1>6

\* The state when a value is returned.
Returned(v) ==
  /\ StackInv /\ ModeInv /\ GoodStack(stack) /\ TopFrame(stack, base, absKont)
  /\ base \in 6..StackSize /\ base + 4 <= StackSize
  /\ stack[base] = v /\ IsValue(v) /\ IsHNF(v) /\ Good(v) /\ v # Unboxed /\ Deref(v) = v
  /\ v \in FunWord \/ IsPap(v)
  /\ absMode = "ret" /\ absNode = Unboxed /\ absLocals = <<AbsValue(v)>>

\* What is returned is a value.
LEMMA ReturnedFacts ==
  ASSUME NEW fs, Running(fs), mode = "ret"
  PROVE  \E v : Returned(v)
<1>1. StackInv /\ ModeInv /\ Linked(fs, stack) /\ TopInv(fs)
  BY DEF Running
<1>2. /\ TopFrame(stack, base, absKont) /\ GoodStack(stack)
      /\ base \in 6..StackSize /\ base + 4 <= StackSize
  BY NowTop
<1>3. PICK v : v = stack[base]
  OBVIOUS
<1>4. IsValue(v) /\ IsHNF(v)
  BY <1>1, <1>3 DEF ModeInv
<1>5. Good(v) /\ v # Unboxed /\ (v \in FunWord \/ IsPap(v)) /\ Deref(v) = v
  BY <1>1, <1>4, ValueFacts, DerefFacts
<1>6. absMode = "ret" /\ absNode = Unboxed /\ absLocals = AbsWords(stack, base, 1)
  BY <1>1, AbsNow
<1>7. absLocals = <<AbsValue(v)>>
  <2>1. base + 1 - 1 = base
    BY <1>2, ArityFacts
  <2> QED BY <1>3, <1>6, <2>1 DEF AbsWords
<1>8. Returned(v)
  BY <1>1, <1>2, <1>3, <1>4, <1>5, <1>6, <1>7 DEF Returned
<1> QED BY <1>8

\* What a return to the code of another frame than stg_STOP finds.
LEMMA ReturnFacts ==
  ASSUME NEW fs, Running(fs), NEW pc, pc \in {"case", "apk", "upd"}, DoReturn(pc)
  PROVE  \E v, k : /\ Returned(v) /\ Waits(stack, base, absKont, base', k)
                   /\ stack[base - 2][2] = pc /\ SavedBase = base'
                   /\ top' = base - 3 /\ Result = v
<1>1. mode = "ret" /\ stack[base - 2][2] = pc /\ top' = base - 3 /\ base' = stack[base - 3][2]
      /\ SavedBase = base'
  BY DEF DoReturn, ReturnPc, SavedBase, FRAME_SIZE
<1>2. PICK v : Returned(v)
  BY <1>1, ReturnedFacts
<1>3. TopFrame(stack, base, absKont) /\ base \in 6..StackSize /\ stack[base] = v
  BY <1>2 DEF Returned
<1>4. PICK k : Waits(stack, base, absKont, stack[base - 3][2], k)
  BY <1>1, <1>3, PoppedTop
<1>5. Result = v
  <2>1. top' + 3 = base
    BY <1>1, <1>3, ArityFacts
  <2> QED BY <1>3, <2>1 DEF Result, FRAME_SIZE
<1> QED BY <1>1, <1>2, <1>4, <1>5

\* The abstract frame that a value is returned to.
LEMMA TopEnds ==
  ASSUME NEW st, NEW b, NEW k, TopFrame(st, b, k), NEW e
  PROVE  Ends(Append(k, e), k, e)
<1>1. PICK fs \in Seq(Nat) :
        Linked(fs, st) /\ Len(fs) > 1 /\ fs[Len(fs)] = b /\ KontOf(st, fs, Len(fs)) = k
  BY DEF TopFrame
<1>2. PICK n \in Nat : Len(fs) = n
  BY SeqFacts
<1>3. KontOf(st, fs, n) = k
  BY <1>1, <1>2
<1>4. Ends(Append(KontOf(st, fs, n), e), KontOf(st, fs, n), e)
  BY KontEnds
<1> QED BY <1>3, <1>4

\* The last frame that waits is the one below the topmost.
LEMMA LastFrame ==
  ASSUME NEW k, NEW st, NEW b, NEW c, Waits(st, b, absKont, c, k)
  PROVE  /\ absKont # << >> /\ Machine!Front(absKont) = k
         /\ Machine!Last(absKont) = AbsFrame(st, c, st[b - 2][2])
<1>1. TopFrame(st, c, k) /\ absKont = Append(k, AbsFrame(st, c, st[b - 2][2]))
  BY DEF Waits
<1>2. PICK e : e = AbsFrame(st, c, st[b - 2][2])
  OBVIOUS
<1>3. Ends(Append(k, e), k, e)
  BY <1>1, TopEnds
<1>4. Ends(absKont, k, e)
  BY <1>1, <1>2, <1>3
<1> QED BY <1>2, <1>4 DEF Ends

\* What the code of a function body finds when a call returns.
CaseReturned(c, v, k, f, n) ==
  /\ Returned(v) /\ TopFrame(stack, c, k) /\ c > 5 /\ c + 3 <= base
  /\ f \in FunWord /\ stack[c - 1] = f /\ Arity[f[2]] = n /\ n > 0 /\ c + n <= base - 3
  /\ \A i \in 0..(n - 1) : IsValue(stack[c + i])
  /\ Ends(absKont, k, [k |-> "case", node |-> f, args |-> AbsWords(stack, c, n)])

\* What a return into a case finds.
LEMMA CaseReturnedFacts ==
  ASSUME NEW fs, Running(fs), DoReturn("case")
  PROVE  \E c, n \in Nat : \E v, k, f :
           /\ CaseReturned(c, v, k, f, n)
           /\ base' = c /\ SavedBase = c /\ top' = base - 3 /\ Result = v
<1>1. PICK v, k : /\ Returned(v) /\ Waits(stack, base, absKont, base', k)
                  /\ stack[base - 2][2] = "case" /\ SavedBase = base'
                  /\ top' = base - 3 /\ Result = v
  BY ReturnFacts
<1>2. base' \in Nat
  BY <1>1, ArityFacts DEF Waits
<1>3. PICK c \in Nat : base' = c
  BY <1>2
<1>4. /\ TopFrame(stack, c, k) /\ Waiting(stack, c, base) /\ c \in 6..StackSize /\ c + 3 <= base
      /\ Waits(stack, base, absKont, c, k)
  BY <1>1, <1>3 DEF Waits
<1>5. PICK f : f = stack[c - 1]
  OBVIOUS
<1>6. /\ f \in FunWord /\ c + Arity[f[2]] <= base - 3
      /\ \A i \in 0..(Arity[f[2]] - 1) : IsValue(stack[c + i])
  BY <1>1, <1>4, <1>5 DEF Waiting
<1>7. Arity[f[2]] \in Nat /\ Arity[f[2]] > 0 /\ NArgs(f) = Arity[f[2]]
  BY <1>6, ArityFacts
<1>8. PICK n \in Nat : Arity[f[2]] = n
  BY <1>7
<1>9. AbsFrame(stack, c, "case") = [k |-> "case", node |-> f, args |-> AbsWords(stack, c, n)]
  BY <1>5, <1>7, <1>8 DEF AbsFrame
<1>10. Ends(absKont, k, AbsFrame(stack, c, stack[base - 2][2]))
  BY <1>4, LastFrame DEF Ends
<1>11. CaseReturned(c, v, k, f, n)
  <2>1. c > 5
    BY <1>4, ArityFacts
  <2> QED BY <1>1, <1>4, <1>5, <1>6, <1>7, <1>8, <1>9, <1>10, <2>1 DEF CaseReturned
<1> QED BY <1>1, <1>3, <1>11

\* A return into a case is a step of the abstract machine.
LEMMA ReturnCaseStep ==
  ASSUME NEW fs, Running(fs), ReturnCase
  PROVE  ApplyInv' /\ Machine!Next
<1>1. /\ DoReturn("case") /\ mode' = "body" /\ UNCHANGED value
      /\ \E r \in 1..NArgs(stack[SavedBase - 1]) :
           stack' = Write(stack, base' + r - 1, <<Result>>)
  BY DEF ReturnCase
<1>2. PICK c \in Nat : \E n \in Nat : \E v, k, f :
           /\ CaseReturned(c, v, k, f, n)
           /\ base' = c /\ SavedBase = c /\ top' = base - 3 /\ Result = v
  BY <1>1, CaseReturnedFacts
<1>3. PICK n \in Nat : \E v, k, f :
           /\ CaseReturned(c, v, k, f, n)
           /\ base' = c /\ SavedBase = c /\ top' = base - 3 /\ Result = v
  BY <1>2
<1>4. PICK v, k, f :
           /\ CaseReturned(c, v, k, f, n)
           /\ base' = c /\ SavedBase = c /\ top' = base - 3 /\ Result = v
  BY <1>3
<1>5. /\ Returned(v) /\ TopFrame(stack, c, k) /\ c > 5 /\ c + 3 <= base
      /\ f \in FunWord /\ stack[c - 1] = f /\ Arity[f[2]] = n /\ n > 0 /\ c + n <= base - 3
      /\ \A i \in 0..(n - 1) : IsValue(stack[c + i])
      /\ Ends(absKont, k, [k |-> "case", node |-> f, args |-> AbsWords(stack, c, n)])
  BY <1>4 DEF CaseReturned
<1>6. /\ StackInv /\ GoodStack(stack) /\ base \in Nat /\ base + 4 <= StackSize
      /\ IsValue(v) /\ Good(v)
      /\ absMode = "ret" /\ absLocals = <<AbsValue(v)>>
  BY <1>5, ArityFacts DEF Returned
<1>7. NArgs(f) = n /\ f[1] = "fun" /\ AbsValue(f) = f
  BY <1>5, ArityFacts, WordFacts, ValueFacts
<1>8. PICK r \in 1..n : stack' = Write(stack, c + r - 1, <<v>>)
  BY <1>1, <1>4, <1>5, <1>7
<1>9. PICK a \in Nat : c + r - 1 = a /\ c - 1 <= a /\ a # c - 1 /\ a < base - 3
  BY <1>5, <1>6
<1>10. stack' = Write(stack, a, <<v>>)
  BY <1>8, <1>9
<1>11. WordAt(stack', stack, a, v)
  BY <1>6, <1>10, WordWritten
<1>12. GoodStack(stack') /\ stack'[c - 1] = f
       /\ \A i \in 0..(n - 1) : stack'[c + i] = IF i + 1 = r THEN v ELSE stack[c + i]
  <2>1. c - 1 \in 0..(StackSize + Guard - 1)
    BY <1>5, <1>6, ArityFacts
  <2>2. ASSUME NEW i \in 0..(n - 1)
        PROVE  stack'[c + i] = IF i + 1 = r THEN v ELSE stack[c + i]
    <3>1. c + i \in 0..(StackSize + Guard - 1) /\ (c + i = a <=> i + 1 = r)
      BY <1>5, <1>6, <1>9, ArityFacts
    <3> QED BY <1>11, <3>1 DEF WordAt
  <2> QED BY <1>5, <1>9, <1>11, <2>1, <2>2 DEF WordAt
<1>13. TopFrame(stack', c, k)
  BY <1>5, <1>6, <1>9, <1>10, WriteAbove
<1>14. StackInv' /\ absValue' = absValue
  BY <1>1, <1>6, <1>12, ValueKept
<1>15. BodyInv'
  <2>1. Node' = f /\ base' = c /\ top' = base - 3
    BY <1>4, <1>12 DEF Node
  <2>2. top' \in Nat /\ c + n <= top' /\ c + n + 4 <= StackSize
    BY <1>5, <1>6, <2>1, ArityFacts
  <2>3. \A i \in 0..(n - 1) : IsValue(stack'[c + i])
    BY <1>5, <1>6, <1>12
  <2> QED BY <1>5, <1>7, <2>1, <2>2, <2>3 DEF BodyInv
<1>16. ModeInv'
  BY <1>1, <1>15 DEF ModeInv
<1>17. /\ ApplyInv' /\ absMode' = "body" /\ absKont' = k /\ absNode' = f
       /\ absLocals' = AbsWords(stack', c, n)
  <2>1. c + 4 <= StackSize
    BY <1>5, <1>6, ArityFacts
  <2> QED BY <1>1, <1>4, <1>7, <1>12, <1>13, <1>14, <1>16, <2>1, NextState
<1>18. AbsWords(stack', c, n) = [AbsWords(stack, c, n) EXCEPT ![r] = AbsValue(v)]
  <2>1. ASSUME NEW i \in 1..n
        PROVE  stack'[c + i - 1] = IF i = r THEN v ELSE stack[c + i - 1]
    <3>1. PICK j \in 0..(n - 1) : j = i - 1 /\ c + j = c + i - 1 /\ j + 1 = i
      OBVIOUS
    <3> QED BY <1>12, <3>1
  <2>2. [i \in 1..n |-> AbsValue(stack'[c + i - 1])] =
          [[i \in 1..n |-> AbsValue(stack[c + i - 1])] EXCEPT ![r] = AbsValue(v)]
    BY <2>1
  <2> QED BY <2>2 DEF AbsWords
<1>19. r \in DOMAIN AbsWords(stack, c, n)
  BY DEF AbsWords
<1>20. Machine!ReturnStep
  <2>1. PICK e : e = [k |-> "case", node |-> f, args |-> AbsWords(stack, c, n)]
    OBVIOUS
  <2>2. e.k = "case" /\ e.node = f /\ e.args = AbsWords(stack, c, n)
    BY <2>1
  <2>3. absKont # << >> /\ Machine!Front(absKont) = k /\ Machine!Last(absKont) = e
    BY <1>5, <2>1 DEF Ends
  <2>4. absLocals[1] = AbsValue(v)
    BY <1>6
  <2>5. Machine!Body(e.node, [e.args EXCEPT ![r] = absLocals[1]])
    BY <1>17, <1>18, <2>2, <2>4 DEF Machine!Body
  <2> QED BY <1>6, <1>14, <1>17, <1>19, <2>2, <2>3, <2>5 DEF Machine!ReturnStep
<1> QED BY <1>17, <1>20 DEF Machine!Next

\* What the code of an update frame finds.
UpdReturned(c, v, k, th) ==
  /\ Returned(v) /\ TopFrame(stack, c, k) /\ c > 5 /\ c + 2 <= base - 3
  /\ th \in ThunkWord /\ stack[c] = th /\ stack[c - 1][1] = "upd"
  /\ Ends(absKont, k, UpdFrame(th))

\* What a return to an update frame finds.
LEMMA UpdReturnedFacts ==
  ASSUME NEW fs, Running(fs), DoReturn("upd")
  PROVE  \E c \in Nat : \E v, k, th :
           UpdReturned(c, v, k, th) /\ base' = c /\ Result = v
<1>1. PICK v, k : /\ Returned(v) /\ Waits(stack, base, absKont, base', k)
                  /\ stack[base - 2][2] = "upd" /\ SavedBase = base'
                  /\ top' = base - 3 /\ Result = v
  BY ReturnFacts
<1>2. base' \in Nat
  BY <1>1, ArityFacts DEF Waits
<1>3. PICK c \in Nat : base' = c
  BY <1>2
<1>4. /\ TopFrame(stack, c, k) /\ Waiting(stack, c, base) /\ c \in 6..StackSize
      /\ Waits(stack, base, absKont, c, k)
  BY <1>1, <1>3 DEF Waits
<1>5. PICK th : th = stack[c]
  OBVIOUS
<1>6. th \in ThunkWord /\ c + 2 <= base - 3 /\ stack[c - 1][1] = "upd"
  BY <1>1, <1>4, <1>5 DEF Waiting
<1>7. AbsFrame(stack, c, "upd") = UpdFrame(th)
  BY <1>5 DEF AbsFrame, UpdFrame
<1>8. Ends(absKont, k, AbsFrame(stack, c, stack[base - 2][2]))
  BY <1>4, LastFrame DEF Ends
<1>9. UpdReturned(c, v, k, th)
  <2>1. c > 5
    BY <1>4, ArityFacts
  <2> QED BY <1>1, <1>4, <1>5, <1>6, <1>7, <1>8, <2>1 DEF UpdReturned
<1> QED BY <1>1, <1>3, <1>9

\* A thunk that has got the value v.
LEMMA ThunkUpdated ==
  ASSUME StackInv, NEW th \in ThunkWord, NEW v, IsValue(v), IsHNF(v),
         value' = [value EXCEPT ![th[2]] = v], GoodStack(stack')
  PROVE  StackInv' /\ absValue' = [absValue EXCEPT ![th[2]] = AbsValue(v)]
<1>1. DOMAIN value = Thunk /\ DOMAIN value' = Thunk
      /\ \A t \in Thunk : value'[t] = IF t = th[2] THEN v ELSE value[t]
  BY DEF StackInv
<1>2. StackInv'
  BY <1>1 DEF StackInv
<1>3. \A t \in Thunk : AbsValue(value'[t]) = IF t = th[2] THEN AbsValue(v) ELSE AbsValue(value[t])
  BY <1>1
<1>4. [t \in Thunk |-> AbsValue(value'[t])] =
        [[t \in Thunk |-> AbsValue(value[t])] EXCEPT ![th[2]] = AbsValue(v)]
  BY <1>3
<1> QED BY <1>2, <1>4 DEF absValue

\* A return to an update frame is a step of the abstract machine.
LEMMA ReturnUpdStep ==
  ASSUME NEW fs, Running(fs), ReturnUpd
  PROVE  ApplyInv' /\ Machine!Next
<1>1. /\ DoReturn("upd") /\ mode' = mode /\ mode = "ret"
      /\ value' = [value EXCEPT ![stack[base'][2]] = Result]
      /\ stack' = Write(stack, base', <<Result, Result>>)
  BY DEF ReturnUpd, UpdRegs, DoReturn
<1>2. PICK c \in Nat : \E v, k, th :
           UpdReturned(c, v, k, th) /\ base' = c /\ Result = v
  BY <1>1, UpdReturnedFacts
<1>3. PICK v, k, th : UpdReturned(c, v, k, th) /\ base' = c /\ Result = v
  BY <1>2
<1>4. /\ Returned(v) /\ TopFrame(stack, c, k) /\ c > 5 /\ c + 2 <= base - 3
      /\ th \in ThunkWord /\ stack[c] = th /\ stack[c - 1][1] = "upd"
      /\ Ends(absKont, k, UpdFrame(th))
  BY <1>3 DEF UpdReturned
<1>5. /\ StackInv /\ GoodStack(stack) /\ base \in Nat /\ base + 4 <= StackSize
      /\ IsValue(v) /\ IsHNF(v) /\ Good(v)
      /\ absMode = "ret" /\ absNode = Unboxed /\ absLocals = <<AbsValue(v)>>
  BY <1>4, ArityFacts DEF Returned
<1>6. PICK ws : ws = <<v, v>>
  OBVIOUS
<1>7. PICK n \in Nat : n = 2 /\ Len(ws) = n /\ \A j \in 1..n : ws[j] = v
  BY <1>6
<1>8. stack' = Write(stack, c, ws)
  BY <1>1, <1>3, <1>6
<1>9. WrittenAt(stack', stack, c, ws, n)
  BY <1>5, <1>7, <1>8, Written
<1>10. GoodStack(stack') /\ stack'[c] = v /\ stack'[c - 1] = stack[c - 1]
  <2>1. c \in 0..(StackSize + Guard - 1) /\ c - 1 \in 0..(StackSize + Guard - 1)
        /\ c \in c..(c + n - 1) /\ c - 1 \notin c..(c + n - 1) /\ c - c + 1 = 1 /\ 1 \in 1..n
    BY <1>4, <1>5, <1>7, ArityFacts
  <2> QED BY <1>7, <1>9, <2>1 DEF WrittenAt
<1>11. TopFrame(stack', c, k)
  <2>1. c - 1 <= c
    OBVIOUS
  <2> QED BY <1>4, <1>5, <1>8, <2>1, WriteAbove
<1>12. StackInv' /\ absValue' = [absValue EXCEPT ![th[2]] = AbsValue(v)]
  BY <1>1, <1>3, <1>4, <1>5, <1>10, ThunkUpdated
<1>13. /\ ApplyInv'
       /\ absMode' = "ret" /\ absNode' = Unboxed /\ absLocals' = <<AbsValue(v)>>
       /\ absKont' = k
  <2>1. c + 4 <= StackSize
    BY <1>4, <1>5, ArityFacts
  <2>2. stack'[c - 1][1] # "apk"
    BY <1>4, <1>10
  <2> QED BY <1>1, <1>3, <1>5, <1>10, <1>11, <1>12, <2>1, <2>2, ReturnedStep
<1>14. Machine!ReturnStep
  <2>1. PICK e : e = UpdFrame(th)
    OBVIOUS
  <2>2. e.k = "upd" /\ e.node = th
    BY <2>1 DEF UpdFrame
  <2>3. absKont # << >> /\ Machine!Front(absKont) = k /\ Machine!Last(absKont) = e
    BY <1>4, <2>1 DEF Ends
  <2>4. absLocals[1] = AbsValue(v)
    BY <1>5
  <2> QED BY <1>5, <1>12, <1>13, <2>2, <2>3, <2>4 DEF Machine!ReturnStep
<1> QED BY <1>13, <1>14 DEF Machine!Next

\* The arguments that a frame has.
LEMMA ArgsThere ==
  ASSUME NEW st, NEW b \in Nat, NEW n \in Nat, \A i \in 0..(n - 1) : st[b + i] \in Arg,
         NEW as, WordsOf(st, b, n) = as
  PROVE  HasArgs(st, b, n, as)
<1>1. \A i \in 1..n : AbsValue(st[b + i - 1]) = st[b + i - 1]
  <2> SUFFICES ASSUME NEW i \in 1..n PROVE AbsValue(st[b + i - 1]) = st[b + i - 1]
    OBVIOUS
  <2>1. PICK j \in 0..(n - 1) : j = i - 1 /\ b + j = b + i - 1
    OBVIOUS
  <2>2. st[b + j] \in Arg
    OBVIOUS
  <2> QED BY <2>1, <2>2, ValueFacts
<1>2. AbsWords(st, b, n) = WordsOf(st, b, n)
  BY <1>1 DEF AbsWords, WordsOf
<1> QED BY <1>2 DEF HasArgs

\* What the code of an application frame finds.
ApkReturned(c, v, k, n, as) ==
  /\ Returned(v) /\ TopFrame(stack, c, k) /\ c > 5 /\ c + n + 1 <= base - 3
  /\ IsApk(stack[c - 1], n, as) /\ HasArgs(stack, c, n, as)
  /\ Ends(absKont, k, Machine!Apk(as))

\* What a return to arguments that wait finds.
LEMMA ApkReturnedFacts ==
  ASSUME NEW fs, Running(fs), DoReturn("apk")
  PROVE  \E c, n \in Nat : \E v, k, as :
           ApkReturned(c, v, k, n, as) /\ base' = c /\ SavedBase = c /\ Result = v
<1>1. PICK v, k : /\ Returned(v) /\ Waits(stack, base, absKont, base', k)
                  /\ stack[base - 2][2] = "apk" /\ SavedBase = base'
                  /\ top' = base - 3 /\ Result = v
  BY ReturnFacts
<1>2. base' \in Nat
  BY <1>1, ArityFacts DEF Waits
<1>3. PICK c \in Nat : base' = c
  BY <1>2
<1>4. /\ TopFrame(stack, c, k) /\ Waiting(stack, c, base) /\ c \in 6..StackSize
      /\ Waits(stack, base, absKont, c, k)
  BY <1>1, <1>3 DEF Waits
<1>5. PICK w : w = stack[c - 1]
  OBVIOUS
<1>6. /\ w[2] \in Nat \ {0} /\ c + w[2] + 1 <= base - 3
      /\ \A i \in 0..(w[2] - 1) : stack[c + i] \in Arg
      /\ Exact(w[3], WordsOf(stack, c, w[2]))
  BY <1>1, <1>4, <1>5 DEF Waiting
<1>7. PICK n \in Nat : w[2] = n /\ n > 0
  BY <1>6
<1>8. PICK as : as = WordsOf(stack, c, n)
  OBVIOUS
<1>9. HasArgs(stack, c, n, as)
  <2>1. \A i \in 0..(n - 1) : stack[c + i] \in Arg
    BY <1>6, <1>7
  <2> QED BY <1>8, <2>1, ArgsThere
<1>10. IsApk(w, n, as)
  BY <1>6, <1>7, <1>8 DEF IsApk
<1>11. AbsFrame(stack, c, "apk") = Machine!Apk(as)
  <2>1. AbsWords(stack, c, n) = as
    BY <1>9 DEF HasArgs
  <2> QED BY <1>5, <1>7, <2>1 DEF AbsFrame, Machine!Apk, Machine!Unboxed, Unboxed
<1>12. Ends(absKont, k, AbsFrame(stack, c, stack[base - 2][2]))
  BY <1>4, LastFrame DEF Ends
<1>13. ApkReturned(c, v, k, n, as)
  <2>1. c > 5 /\ c + n + 1 <= base - 3
    BY <1>4, <1>6, <1>7, ArityFacts
  <2> QED BY <1>1, <1>4, <1>5, <1>9, <1>10, <1>11, <1>12, <2>1 DEF ApkReturned
<1> QED BY <1>1, <1>3, <1>13

\* The function that was returned takes the place of the node.
Resumed(new, moved, c, k, v, n, as) ==
  /\ GoodStack(new) /\ TopFrame(new, c, k) /\ new[c - 1] = v
  /\ HasArgs(new, c, n, as) /\ moved[c + n] = v

\* The result and the arguments that waited for it, as a call.
LEMMA ApkResumed ==
  ASSUME NEW st, GoodStack(st), NEW c \in Nat, c > 5, NEW k, TopFrame(st, c, k),
         NEW n \in Nat, c + n + 4 <= StackSize, NEW as, HasArgs(st, c, n, as),
         NEW v, Good(v), NEW moved, moved = Write(st, c + n, <<v>>),
         NEW new, new = Write(moved, c - 1, <<v>>)
  PROVE  Resumed(new, moved, c, k, v, n, as)
<1>1. PICK a \in Nat : c + n = a
  OBVIOUS
<1>2. PICK b \in Nat : c - 1 = b
  OBVIOUS
<1>3. moved = Write(st, a, <<v>>) /\ new = Write(moved, b, <<v>>)
  BY <1>1, <1>2
<1>4. WordAt(moved, st, a, v)
  BY <1>3, WordWritten
<1>5. GoodStack(moved)
  BY <1>4 DEF WordAt
<1>6. WordAt(new, moved, b, v)
  BY <1>3, <1>5, WordWritten
<1>7. TopFrame(moved, c, k)
  <2>1. c - 1 <= a
    BY <1>1
  <2> QED BY <1>3, <2>1, WriteAbove
<1>8. TopFrame(new, c, k)
  <2>1. c - 1 <= b
    BY <1>2
  <2> QED BY <1>3, <1>5, <1>7, <2>1, WriteAbove
<1>9. a \in 0..(StackSize + Guard - 1) /\ b \in 0..(StackSize + Guard - 1) /\ a # b
  BY <1>1, <1>2, ArityFacts
<1>10. moved[a] = v /\ new[b] = v
  BY <1>4, <1>6, <1>9 DEF WordAt
<1>11. \A i \in 0..(n - 1) : new[c + i] = st[c + i]
  <2> SUFFICES ASSUME NEW i \in 0..(n - 1) PROVE new[c + i] = st[c + i]
    OBVIOUS
  <2>1. c + i \in 0..(StackSize + Guard - 1) /\ c + i # a /\ c + i # b
    BY <1>1, <1>2, ArityFacts
  <2> QED BY <1>4, <1>6, <2>1 DEF WordAt
<1>12. HasArgs(new, c, n, as)
  BY <1>11, KeptArgs
<1> QED BY <1>1, <1>2, <1>6, <1>8, <1>10, <1>12 DEF WordAt, Resumed

\* A return to arguments that wait is a step of the abstract machine.
LEMMA ReturnApkStep ==
  ASSUME NEW fs, Running(fs), ReturnApk
  PROVE  ApplyInv' /\ Machine!Next
<1>1. DoReturn("apk")
  BY DEF ReturnApk
<1>2. PICK c \in Nat : \E n \in Nat : \E v, k, as :
           ApkReturned(c, v, k, n, as) /\ base' = c /\ SavedBase = c /\ Result = v
  BY <1>1, ApkReturnedFacts
<1>3. PICK n \in Nat : \E v, k, as :
           ApkReturned(c, v, k, n, as) /\ base' = c /\ SavedBase = c /\ Result = v
  BY <1>2
<1>4. PICK v, k, as :
           ApkReturned(c, v, k, n, as) /\ base' = c /\ SavedBase = c /\ Result = v
  BY <1>3
<1>5. /\ Returned(v) /\ TopFrame(stack, c, k) /\ c > 5 /\ c + n + 1 <= base - 3
      /\ IsApk(stack[c - 1], n, as) /\ HasArgs(stack, c, n, as)
      /\ Ends(absKont, k, Machine!Apk(as))
  BY <1>4 DEF ApkReturned
<1>6. /\ StackInv /\ GoodStack(stack) /\ base \in Nat /\ base + 4 <= StackSize
      /\ Good(v) /\ Deref(v) = v /\ (v \in FunWord \/ IsPap(v))
      /\ absMode = "ret" /\ absLocals = <<AbsValue(v)>>
  BY <1>5, ArityFacts DEF Returned
<1>7. PICK w : w = stack[c - 1]
  OBVIOUS
<1>8. n > 0 /\ w[2] = n /\ Exact(w[3], as)
  BY <1>5, <1>7 DEF IsApk
<1>9. c + n + 4 <= StackSize
  BY <1>5, <1>6, ArityFacts
<1>10. PICK moved : moved = Write(stack, c + n, <<v>>)
  OBVIOUS
<1>11. PICK new : new = Write(moved, c - 1, <<v>>)
  OBVIOUS
<1>12. /\ GoodStack(new) /\ TopFrame(new, c, k) /\ new[c - 1] = v
       /\ HasArgs(new, c, n, as) /\ moved[c + n] = v
  <2>1. Resumed(new, moved, c, k, v, n, as)
    BY <1>5, <1>6, <1>9, <1>10, <1>11, ApkResumed
  <2> QED BY <2>1 DEF Resumed
<1>13. /\ stack' = new /\ mode' = "apply" /\ given' = n /\ mask' = w[3] /\ UNCHANGED value
  <2>1. ~ stackOverflow(c, n)
    BY <1>9, ArityFacts DEF stackOverflow, FRAME_SIZE
  <2> QED BY <1>4, <1>6, <1>7, <1>8, <1>10, <1>11, <1>12, <2>1 DEF ReturnApk
<1>14. /\ ApplyInv'
       /\ absMode' = "apply" /\ absNode' = AbsValue(v) /\ absLocals' = as
       /\ absKont' = k /\ absValue' = absValue
  <2>1. v \in FunWord \cup ThunkWord \/ IsPap(v)
    BY <1>6
  <2>2. /\ GoodStack(stack') /\ TopFrame(stack', base', k) /\ stack'[base' - 1] = v
        /\ base' + n + 4 <= StackSize /\ HasArgs(stack', base', n, as) /\ Exact(mask', as)
    BY <1>4, <1>8, <1>9, <1>12, <1>13
  <2> QED BY <1>6, <1>8, <1>13, <2>1, <2>2, PendingStep
<1>15. Machine!ReturnStep
  <2>1. PICK e : e = Machine!Apk(as)
    OBVIOUS
  <2>2. e.k = "apk" /\ e.args = as
    BY <2>1 DEF Machine!Apk
  <2>3. absKont # << >> /\ Machine!Front(absKont) = k /\ Machine!Last(absKont) = e
    BY <1>5, <2>1 DEF Ends
  <2>4. absLocals[1] = AbsValue(v)
    BY <1>6
  <2>5. Machine!Apply(absLocals[1], e.args)
    BY <1>14, <2>2, <2>4 DEF Machine!Apply
  <2> QED BY <1>6, <1>14, <2>2, <2>3, <2>5 DEF Machine!ReturnStep
<1> QED BY <1>14, <1>15 DEF Machine!Next

-----------------------------------------------------------------------------
(***************************************************************************)
(* The frame of stg_STOP, and the theorems.                                *)
(***************************************************************************)

\* The frame of stg_STOP gets the result.
LEMMA ReturnStopStep ==
  ASSUME NEW fs, Running(fs), ReturnStop
  PROVE  ApplyInv' /\ Machine!Next
<1>1. /\ mode = "ret" /\ stack[base - 2][2] = "stop" /\ top' = base - 3
      /\ base' = stack[base - 3][2] /\ mode' = "stop" /\ stack' = stack /\ UNCHANGED value
  BY DEF ReturnStop, DoReturn, ReturnPc, SavedBase, FRAME_SIZE
<1>2. PICK v : Returned(v)
  BY <1>1, ReturnedFacts
<1>3. /\ StackInv /\ GoodStack(stack) /\ TopFrame(stack, base, absKont)
      /\ base \in Nat /\ stack[base] = v
      /\ absMode = "ret" /\ absNode = Unboxed /\ absLocals = <<AbsValue(v)>>
  BY <1>2, ArityFacts DEF Returned
<1>4. /\ stack[base - 3][2] = 3 /\ absKont = << >>
      /\ \E gs \in Seq(Nat) : Linked(gs, stack) /\ Len(gs) = 1
  BY <1>1, <1>3, PoppedTop
<1>5. PICK gs \in Seq(Nat) : Linked(gs, stack) /\ Len(gs) = 1
  BY <1>4
<1>6. PICK n \in Nat : Len(gs) = n /\ n = 1
  BY <1>5
<1>7. base' = gs[Len(gs)]
  <2>1. gs[1] = 3
    BY <1>5 DEF Linked
  <2> QED BY <1>1, <1>4, <1>6, <2>1
<1>8. StackInv' /\ absValue' = absValue
  BY <1>1, <1>3, ValueKept
<1>9. ApplyInv'
  <2>1. ModeInv'
    BY <1>1 DEF ModeInv
  <2>2. TopInv(gs)'
    BY <1>1, <1>6, <1>7 DEF TopInv
  <2> QED BY <1>1, <1>5, <1>8, <2>1, <2>2 DEF ApplyInv
<1>10. /\ absMode' = "stop" /\ absNode' = Unboxed
       /\ absKont' = KontOf(stack', gs, Len(gs))
       /\ absLocals' = AbsWords(stack', top' + 3, 1)
  <2>1. Linked(gs, stack')
    BY <1>1, <1>5
  <2> QED BY <1>1, <1>7, <2>1, AbsNext
<1>11. absKont' = << >>
  BY <1>6, <1>10 DEF KontOf
<1>12. absLocals' = <<AbsValue(v)>>
  <2>1. top' + 3 = base /\ base + 1 - 1 = base
    BY <1>1, <1>3
  <2> QED BY <1>1, <1>3, <1>10, <2>1 DEF AbsWords
<1>13. Machine!ReturnStep
  BY <1>3, <1>4, <1>8, <1>10, <1>11, <1>12 DEF Machine!ReturnStep
<1> QED BY <1>9, <1>13 DEF Machine!Next

\* The stack of Thread::initialize and Capability::eval.
LEMMA InitStep ==
  ASSUME ApplyInit
  PROVE  ApplyInv /\ Machine!Init
<1>1. /\ mode = "start" /\ base = 3 /\ top = 4
      /\ value = [t \in Thunk |-> Unboxed]
  BY DEF ApplyInit
<1>2. StackSize \in Nat /\ StackSize > 3 /\ Guard \in Nat
  BY ArityFacts
<1>3. /\ DOMAIN stack = 0..(StackSize + Guard - 1)
      /\ stack[1] = <<"pc", "none">> /\ stack[2] = <<"stop">> /\ stack[3] = <<"thunk", Main>>
  <2>1. {1, 2, 3} \subseteq 0..(StackSize + Guard - 1)
    BY <1>2
  <2> QED BY <2>1 DEF ApplyInit
<1>4. \A i \in DOMAIN stack : stack[i][1] # "pap"
  BY <1>2 DEF ApplyInit, Unboxed
<1>5. StackInv
  BY <1>1, <1>3, <1>4 DEF StackInv, GoodStack, Good
<1>6. ModeInv
  BY <1>1, <1>3 DEF ModeInv
<1>7. PICK n \in Nat : n = 1
  OBVIOUS
<1>8. PICK fs \in Seq(Nat) : Len(fs) = n /\ fs[1] = 3
  <2>1. <<3>> \in Seq(Nat) /\ Len(<<3>>) = n /\ <<3>>[1] = 3
    BY <1>7
  <2> QED BY <2>1
<1>9. Linked(fs, stack)
  <2>1. Len(fs) = n /\ n = 1 /\ fs[1] = 3
    BY <1>7, <1>8
  <2>2. \A i \in 1..n : fs[i] = 3
    BY <2>1
  <2>3. \A i, j \in 1..n : ~ (i < j)
    BY <2>1
  <2>4. 2..(n - 1) = {}
    BY <2>1
  <2>5. stack[1][2] = "none" /\ stack[2][1] = "stop"
    BY <1>3
  <2> QED BY <1>2, <2>1, <2>2, <2>3, <2>4, <2>5 DEF Linked
<1>10. TopInv(fs)
  BY <1>1, <1>7, <1>8 DEF TopInv
<1>11. ApplyInv
  BY <1>5, <1>6, <1>9, <1>10 DEF ApplyInv
<1>12. KontOf(stack, fs, Len(fs)) = << >>
  BY <1>7, <1>8 DEF KontOf
<1>13. /\ absMode = "apply" /\ absNode = <<"thunk", Main>> /\ absLocals = << >>
       /\ absKont = << >>
  BY <1>1, <1>9, <1>10, <1>12, AbsNow
<1>14. absValue = [t \in Thunk |-> Machine!Unboxed]
  <2>1. AbsValue(Unboxed) = Unboxed
    BY ValueFacts DEF Arg
  <2> QED BY <1>1, <2>1 DEF absValue, Machine!Unboxed, Unboxed
<1> QED BY <1>11, <1>13, <1>14 DEF Machine!Init

\* Every step is one of the machine.
LEMMA ApplyStepKept ==
  ASSUME ApplyInv, ApplyNext
  PROVE  ApplyInv' /\ Machine!Next
<1>1. mode # "overflow"
  BY DEF ApplyNext, Start, Instruction, ApplyPap, ApplyThunk, ApplyOver, ApplyExact, ApplyPartial,
         ReturnCase, ReturnApk, ReturnUpd, ReturnStop, DoReturn
<1>2. PICK fs : Running(fs)
  BY <1>1 DEF ApplyInv, Running
<1>3. CASE Start
  BY <1>2, <1>3, StartStep
<1>4. CASE Instruction
  <2>1. CASE \E v \in Operand, as \in ArgList : v # Unboxed /\ (Call(v, as) \/ CallT(v, as))
    BY <1>2, <2>1, CallStep, CallTStep
  <2>2. CASE \E v \in Range(Locals) : Eval(v) \/ \E r \in 1..NArgs(Node) : EvalHNF(v, r)
    BY <1>2, <2>2, EvalStep, EvalHNFStep
  <2>3. CASE \E v \in Operand : Ret(v)
    BY <1>2, <2>3, RetStep
  <2> QED BY <1>4, <2>1, <2>2, <2>3 DEF Instruction
<1>5. CASE ApplyPap
  BY <1>2, <1>5, ApplyPapStep
<1>6. CASE ApplyThunk
  BY <1>2, <1>6, ApplyThunkStep
<1>7. CASE ApplyOver
  BY <1>2, <1>7, ApplyOverStep
<1>8. CASE ApplyExact
  BY <1>2, <1>8, ApplyExactStep
<1>9. CASE ApplyPartial
  BY <1>2, <1>9, ApplyPartialStep
<1>10. CASE ReturnCase
  BY <1>2, <1>10, ReturnCaseStep
<1>11. CASE ReturnApk
  BY <1>2, <1>11, ReturnApkStep
<1>12. CASE ReturnUpd
  BY <1>2, <1>12, ReturnUpdStep
<1>13. CASE ReturnStop
  BY <1>2, <1>13, ReturnStopStep
<1> QED BY <1>3, <1>4, <1>5, <1>6, <1>7, <1>8, <1>9, <1>10, <1>11, <1>12, <1>13 DEF ApplyNext

\* Between instructions nothing changes for the machine either.
LEMMA ApplyStutter ==
  ASSUME ApplyInv, UNCHANGED applyVars
  PROVE  ApplyInv' /\ UNCHANGED Machine!vars
<1>1. UNCHANGED <<mode, stack, base, top, given, mask, value>>
  BY DEF applyVars
<1>2. ApplyInv'
  BY <1>1 DEF ApplyInv, StackInv, ModeInv, TopInv, BodyInv, PendingInv, Node
<1>3. UNCHANGED <<absMode, absNode, absLocals, absKont, absValue>>
  BY <1>1 DEF absMode, absNode, absLocals, absKont, absValue, Node
<1> QED BY <1>2, <1>3 DEF Machine!vars

\* The masks that the invariant gives.
LEMMA MasksOf ==
  ASSUME ApplyInv
  PROVE  MasksExact
<1>1. ASSUME mode = "apply"
      PROVE  MaskExact(mask, Words(base, given))
  <2>1. Exact(mask, WordsOf(stack, base, given))
    BY <1>1 DEF ApplyInv, ModeInv, PendingInv
  <2> QED BY <2>1 DEF Exact, MaskExact, Words, WordsOf
<1>2. ASSUME mode # "overflow", NEW b \in Frames, stack[b - 1][1] = "apk"
      PROVE  MaskExact(stack[b - 1][3], Words(b, stack[b - 1][2]))
  <2>1. PICK fs \in Seq(Nat) : Linked(fs, stack) /\ TopInv(fs)
    BY <1>2 DEF ApplyInv
  <2>2. PICK n \in Nat : Len(fs) = n /\ n > 0
    BY <2>1, BaseFacts
  <2>3. Chain(stack)[base] = UpTo(fs, n)
    BY <1>2, <2>1, <2>2, AbsNow
  <2>4. PICK i \in 1..n : b = fs[i]
    BY <2>3 DEF Frames, Range, UpTo
  <2>5. i # 1
    <3>1. fs[1] = 3 /\ stack[2][1] = "stop"
      BY <2>1 DEF Linked
    <3> QED BY <1>2, <2>4, <3>1
  <2>6. i # n
    BY <1>2, <2>1, <2>2, <2>4, <2>5 DEF TopInv, Node
  <2>7. Waiting(stack, b, fs[i + 1])
    <3>1. i \in 2..(n - 1)
      BY <2>5, <2>6
    <3> QED BY <2>1, <2>2, <2>4, <3>1 DEF Linked
  <2>8. Exact(stack[b - 1][3], WordsOf(stack, b, stack[b - 1][2]))
    BY <1>2, <2>7, WordFacts DEF Waiting
  <2> QED BY <2>8 DEF Exact, MaskExact, Words, WordsOf
<1>3. ASSUME NEW i \in DOMAIN stack, stack[i][1] = "pap"
      PROVE  MaskExact(stack[i][4], stack[i][3])
  BY <1>3 DEF ApplyInv, StackInv, GoodStack, Good, IsPap, Exact, MaskExact
<1> QED BY <1>1, <1>2, <1>3 DEF MasksExact

\* The frames on the stack are linked, every frame is what its return
\* address makes of it, and what the mode promises of the top frame holds.
THEOREM ApplyInvariant == ApplySpec => []ApplyInv
<1>1. ApplyInit => ApplyInv
  BY InitStep
<1>2. ApplyInv /\ [ApplyNext]_applyVars => ApplyInv'
  BY ApplyStepKept, ApplyStutter
<1> QED BY <1>1, <1>2, PTL DEF ApplySpec

\* generic_apply, the returns and the code of update and application frames
\* implement the eval/apply machine on the stack of words.
THEOREM MachineRefined == ApplySpec => ImplementsEvalApply
<1>1. ApplyInit => ApplyInv /\ Machine!Init
  BY InitStep
<1>2. ApplyInv /\ [ApplyNext]_applyVars => ApplyInv' /\ [Machine!Next]_(Machine!vars)
  BY ApplyStepKept, ApplyStutter
<1> QED BY <1>1, <1>2, PTL DEF ApplySpec, ImplementsEvalApply, Machine!Spec

\* Pointer masks are exact, of pending applications, application frames and
\* PAPs, whatever the arities and the calls: only those that come from a join
\* of more arguments than a mask has bits are not.
THEOREM ExactMasks == ApplySpec => []MasksExact
<1>1. ApplyInv => MasksExact
  BY MasksOf
<1> QED BY <1>1, ApplyInvariant, PTL
=============================================================================
