---------------------------- MODULE Instructions ----------------------------
(***************************************************************************)
(* Bytecode instructions as their readers take them apart: the interpreter *)
(* (vm/capability.cc), the recorder (vm/jit.cc), the collector             *)
(* (topFrameBitmask, vm/memorymanager.cc) and the printer                  *)
(* (vm/bytecode.cc); and a conditional branch on its way to machine code   *)
(* (vm/jit.cc, vm/assembler.cc).                                           *)
(*                                                                         *)
(* A byte has ByteSize values and a word of a register WordValues; an      *)
(* instruction has four bytes.  An address counts instructions and is 0    *)
(* for the instruction in question.                                        *)
(***************************************************************************)
EXTENDS Integers, Sequences, Functions

CONSTANTS
  ByteSize,    \* 256
  WordValues,  \* 2^64
  MaxCases,    \* bound on the alternatives of a case
  MaxTag,      \* bound on constructor tags
  MaxInsArgs   \* bound on the arguments of a call or an allocation

ASSUME InstructionsAssumption ==
  /\ {ByteSize, WordValues, MaxCases, MaxTag, MaxInsArgs} \subseteq Nat \ {0}
  /\ WordValues % 2 = 0 /\ ByteSize % 2 = 0
  /\ {2 * MaxTag, 2 * MaxCases} \subseteq 1..(ByteSize * ByteSize - 1)

VARIABLES
  question,  \* an instruction, and what it is executed with
  reading    \* what its readers make of it

insVars == <<question, reading>>

HalfSize == ByteSize * ByteSize
Ask(q, r) == question' = q /\ reading' = r

-----------------------------------------------------------------------------
(***************************************************************************)
(* Fields.                                                                 *)
(***************************************************************************)

abc(op, a, b, c) == op + ByteSize * a + HalfSize * c + HalfSize * ByteSize * b
ad(op, a, d) == op + ByteSize * a + HalfSize * d
kBranchBias == HalfSize \div 2
aj(op, a, offset) == ad(op, a, (kBranchBias + offset) % HalfSize)

\* BcIns::d and j.  The difference fits into 16 bits.
InsD(raw) == raw \div HalfSize
InsJ(raw) == InsD(raw) - kBranchBias

\* DISPATCH_NEXT with DECODE_BC.
DecodeBC(raw) ==
  LET d == InsD(raw) IN
  [op |-> raw % ByteSize, a |-> (raw \div ByteSize) % ByteSize, b |-> d \div ByteSize, c |-> d % ByteSize]
\* a(), b(), c() of the recorder.
InsABC(raw) ==
  [op |-> raw % ByteSize, a |-> (raw \div ByteSize) % ByteSize,
   b |-> raw \div (HalfSize * ByteSize), c |-> (raw \div HalfSize) % ByteSize]

\* pc += (pc - 1)->j() of a conditional branch; pc is behind its second word.
BranchTarget(raw) == 2 + InsJ(raw)

\* pc += opC - kBranchBias of JMP: opC is unsigned, with AddressSize values,
\* and so is the difference, which is added to a wider pointer.
AddressSize == HalfSize * HalfSize
JumpTarget(raw) == 1 + ((InsD(raw) - kBranchBias) % AddressSize)

-----------------------------------------------------------------------------
(***************************************************************************)
(* Lengths.  n is the operand C.                                           *)
(***************************************************************************)

BcRound(n) == (n + 3) \div 4

\* The words between the instruction and its arguments, how many bytes of
\* arguments it has, and whether a word that leads to a map follows them.
ArgsBegin(op) == IF op = "CALL" THEN 2 ELSE 1
ArgBytes(op, n) == CASE op \in {"CALL", "ALLOC"} -> n [] op = "ALLOCAP" -> n + 1 [] OTHER -> 0

\* Where the interpreter goes on: after ALLOC1, ALLOC, ALLOCAP and EVAL of a
\* value, after the return into a CALL or EVAL.
NextPcAlloc(n) == 1 + BcRound(n) + 1
NextPcAllocAp(n) == 1 + BcRound(n + 1) + 1
ReturnPcCall(n) == 1 + 1 + BcRound(n) + 1
ReturnPcEval == 1 + 1
NextPc(op, n) ==
  CASE op = "CALL" -> ReturnPcCall(n)
    [] op = "ALLOC" -> NextPcAlloc(n)
    [] op = "ALLOCAP" -> NextPcAllocAp(n)
    [] OTHER -> ReturnPcEval

\* The recorder's return pc of a CALL.
RecordedReturnPc(n) == (0 + 1) + 1 + BcRound(n) + 1

\* The word by which the collector finds the map of the top frame, and of a
\* frame below it.
topFrameBitmask(op, n) ==
  CASE op = "ALLOC1" -> 1
    [] op = "ALLOC" -> 1 + BcRound(n)
    [] op = "ALLOCAP" -> 1 + BcRound(n + 1)
MapWord(op, n) == IF op \in {"CALL", "EVAL"} THEN NextPc(op, n) - 1 ELSE topFrameBitmask(op, n)

\* The instruction after this one, for the printer.
debugPrint(op, n) ==
  CASE op = "CALL" -> 2 + BcRound(n) + 1
    [] op = "ALLOC" -> 1 + 1 + BcRound(n)
    [] op = "ALLOCAP" -> 1 + 1 + BcRound(n + 1)
    [] OTHER -> 2

-----------------------------------------------------------------------------
(***************************************************************************)
(* Cases.  alts is a sequence of <<tag, target>>, with ascending tags.     *)
(***************************************************************************)

\* The words of CASE and CASE_S.  A half of a word is the target of a tag.
CaseTable(alts) ==
  [w \in 1..BcRound(2 * Len(alts)) |->
     alts[2 * w - 1][2] + HalfSize * (IF 2 * w <= Len(alts) THEN alts[2 * w][2] ELSE 0)]
CaseSTable(alts) ==
  <<alts[1][1] + HalfSize * alts[Len(alts)][1]>>
    \o [i \in 1..Len(alts) |-> alts[i][2] + HalfSize * alts[i][1]]

\* CASE: table[tag - 1], by the halves of its words.  An assertion ends the
\* program if there is no such entry.
Stopped == -1
CaseTarget(n, table, tag) ==
  LET i == tag - 1
      word == table[(i \div 2) + 1]
  IN IF ~ i < n THEN Stopped
     ELSE 1 + ((n + 1) \div 2) + IF i % 2 = 0 THEN word % HalfSize ELSE word \div HalfSize

\* The binary search of CASE_S among the alternatives from lo to hi.
SearchFrom(targets, tag) ==
  LET search[w \in 0..Len(targets)] ==
        [r \in {s \in (0..Len(targets)) \X (-1..(Len(targets) - 1)) : s[2] - s[1] + 1 <= w} |->
           IF r[2] - r[1] < 0 THEN 0
           ELSE LET mid == r[1] + ((r[2] - r[1]) \div 2)
                    alt == targets[mid + 1]
                    alttag == alt \div HalfSize
                IN IF tag = alttag THEN (alt % HalfSize) + 1
                   ELSE IF tag < alttag THEN search[w - 1][<<r[1], mid - 1>>]
                   ELSE search[w - 1][<<mid + 1, r[2]>>]]
  IN search[Len(targets)][<<0, Len(targets) - 1>>]

StrictRange(tag, minTag, maxTag) == minTag < tag /\ tag < maxTag
InRange(tag, minTag, maxTag) == minTag <= tag /\ tag <= maxTag

CaseSTarget(n, table, tag) ==
  LET offset == IF InRange(tag, table[1] % HalfSize, table[1] \div HalfSize)
                THEN SearchFrom(Tail(table), tag) ELSE 0
  IN 1 + n + 1 + offset

-----------------------------------------------------------------------------
(***************************************************************************)
(* Conditional branches.                                                   *)
(***************************************************************************)

\* The order of the instructions ISxx, and of xx among the operations of IR.
Cond == <<"LT", "GE", "LE", "GT", "EQ", "NE", "LTU", "GEU", "LEU", "GTU">>
CondIndex(c) == (CHOOSE i \in DOMAIN Cond : Cond[i] = c) - 1

AsInt(w) == IF w < WordValues \div 2 THEN w ELSE w - WordValues

\* The interpreter's ISxx, CMPxx and the recorder's evalCond.
Holds(c, x, y) ==
  CASE c = "LT" -> AsInt(x) < AsInt(y)
    [] c = "GE" -> AsInt(x) >= AsInt(y)
    [] c = "LE" -> AsInt(x) <= AsInt(y)
    [] c = "GT" -> AsInt(x) > AsInt(y)
    [] c = "EQ" -> x = y
    [] c = "NE" -> x # y
    [] c = "LTU" -> x < y
    [] c = "GEU" -> x >= y
    [] c = "LEU" -> x <= y
    [] c = "GTU" -> x > y
evalCond(c, x, y) == Holds(c, x, y)

\* The operation that is recorded; to invert it its last bit is flipped.
NotInverted(c, invert) == c
bcCond2irCond(c, invert) ==
  LET i == CondIndex(c)
  IN Cond[1 + IF invert THEN (IF i % 2 = 0 THEN i + 1 ELSE i - 1) ELSE i]

\* Condition codes, in the order of their encoding.
CC == <<"O", "NO", "B", "AE", "E", "NE", "BE", "A", "S", "NS", "P", "NP", "L", "GE", "LE", "G">>

\* asm_compmap: the condition code that leaves the trace.
asm_compmap ==
  << <<"GE", "AE">>, <<"L", "B">>, <<"G", "A">>, <<"LE", "BE">>, <<"NE", "NE">>, <<"E", "E">> >>
GuardCode(c) ==
  IF CondIndex(c) < 6 THEN asm_compmap[1 + CondIndex(c)][1]
  ELSE asm_compmap[1 + CondIndex(c) - CondIndex("LTU")][2]

\* What CMP x, y does to the flags, and when a condition holds of them.  The
\* last bit of the encoding of a condition negates it.
Flags(x, y) ==
  LET d == AsInt(x) - AsInt(y)
      r == (x - y) % WordValues
  IN [C |-> x < y, Z |-> r = 0, S |-> r >= WordValues \div 2, O |-> d # AsInt(r), P |-> FALSE]
Satisfies(f, cc) ==
  LET i == (CHOOSE k \in DOMAIN CC : CC[k] = cc) - 1
      test == <<f.O, f.C, f.Z, f.C \/ f.Z, f.S, f.P, f.S # f.O, f.Z \/ f.S # f.O>>[(i \div 2) + 1]
  IN IF i % 2 = 0 THEN test ELSE ~ test

\* The guard recorded for a branch on x and y leaves the trace on u and v.
GuardExits(c, x, y, u, v) ==
  Satisfies(Flags(u, v), GuardCode(bcCond2irCond(c, ~ evalCond(c, x, y))))

-----------------------------------------------------------------------------

NoQuestion == [what |-> "none"]
InsInit == question = NoQuestion /\ reading = << >>

AskFields ==
  \E op, a, b, c \in 0..(ByteSize - 1) :
    Ask([what |-> "fields", op |-> op, a |-> a, b |-> b, c |-> c],
        <<DecodeBC(abc(op, a, b, c)), InsABC(abc(op, a, b, c))>>)

AskBranch ==
  \E a \in 0..(ByteSize - 1), j \in (- kBranchBias)..(kBranchBias - 1) :
    Ask([what |-> "offset", j |-> j], BranchTarget(aj(0, a, j)))
AskJump ==
  \E j \in (- kBranchBias)..(kBranchBias - 1) :
    Ask([what |-> "jump", j |-> j], JumpTarget(aj(0, 0, j)))

AskLength ==
  \E op \in {"CALL", "ALLOC", "ALLOCAP", "ALLOC1", "EVAL"}, n \in 1..MaxInsArgs :
    Ask([what |-> "length", op |-> op, n |-> n],
        [next |-> NextPc(op, n), map |-> MapWord(op, n), print |-> debugPrint(op, n),
         recorded |-> IF op = "CALL" THEN RecordedReturnPc(n) ELSE NextPc(op, n)])

\* Alternatives for the tags, each with a target of its own; tags and targets
\* have 16 bits.
Alts(tags) == [i \in DOMAIN tags |-> <<tags[i], 2 * i - 1>>]
Ascending(n) == {t \in [1..n -> 1..MaxTag] : \A i, k \in 1..n : i < k => t[i] < t[k]}
AskCase ==
  \E n \in 1..MaxCases : \E tag \in 1..(MaxCases + 1) :
    LET alts == Alts([i \in 1..n |-> i])
    IN  Ask([what |-> "case", alts |-> alts, tag |-> tag], CaseTarget(n, CaseTable(alts), tag))
AskCaseS ==
  \E n \in 1..MaxTag : \E tags \in Ascending(n) : \E tag \in 1..MaxTag :
    Ask([what |-> "case_s", alts |-> Alts(tags), tag |-> tag],
        CaseSTarget(n, CaseSTable(Alts(tags)), tag))

AskGuard ==
  \E c \in Range(Cond), x, y, u, v \in 0..(WordValues - 1) :
    Ask([what |-> "guard", c |-> c, recorded |-> <<x, y>>, now |-> <<u, v>>],
        GuardExits(c, x, y, u, v))

InsNext ==
  /\ question = NoQuestion
  /\ AskFields \/ AskBranch \/ AskJump \/ AskLength \/ AskCase \/ AskCaseS \/ AskGuard

InsSpec == InsInit /\ [][InsNext]_insVars

-----------------------------------------------------------------------------
(***************************************************************************)
(* Properties.                                                             *)
(***************************************************************************)

\* The readers of an instruction agree: the interpreter and the recorder on
\* its operands, all four on where it ends; the collector finds the word of
\* the map behind the arguments and before the next instruction; a branch
\* goes where it was told, and so does a JMP, except one back, which goes as
\* many instructions ahead as an unsigned operand has values; and a case goes
\* to the alternative of the tag, or, if there is none, CASE_S behind the
\* instruction and CASE not on.
DecodingExact ==
  LET q == question IN
  CASE q.what = "fields" ->
         \A i \in 1..2 : reading[i] = [op |-> q.op, a |-> q.a, b |-> q.b, c |-> q.c]
    [] q.what = "offset" -> reading = 2 + q.j
    [] q.what = "jump" -> reading = 1 + q.j + (IF q.j < 0 THEN AddressSize ELSE 0)
    [] q.what = "length" ->
         /\ reading.map = reading.next - 1
         /\ 4 * ArgsBegin(q.op) + ArgBytes(q.op, q.n) <= 4 * reading.map
         /\ reading.print = reading.next /\ reading.recorded = reading.next
    [] q.what = "case" ->
         reading = IF q.tag \in DOMAIN q.alts
                   THEN 1 + BcRound(2 * Len(q.alts)) + q.alts[q.tag][2] ELSE Stopped
    [] q.what = "case_s" ->
         LET hit == {i \in DOMAIN q.alts : q.alts[i][1] = q.tag}
             end == 1 + 1 + Len(q.alts)
         IN IF hit = {} THEN reading = end
            ELSE \A i \in hit : reading = end + q.alts[i][2] + 1
    [] OTHER -> TRUE

\* A compiled branch stays on its trace exactly when the interpreter would
\* go the way it went while the trace was recorded, for every comparison and
\* all values, signed or not (bcCond2irCond, asm_compmap, x86CC).
BranchesAgree ==
  LET q == question IN
  q.what = "guard" =>
    (reading <=> (Holds(q.c, q.now[1], q.now[2]) # Holds(q.c, q.recorded[1], q.recorded[2])))

=============================================================================
