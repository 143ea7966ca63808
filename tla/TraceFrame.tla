----------------------------- MODULE TraceFrame -----------------------------
(***************************************************************************)
(* Entering and leaving compiled traces: the assembly routines of          *)
(* amd64/fragment.cc, instruction by instruction, with the code that jumps *)
(* to them (the exit stubs, the quick heap check failure) and the C        *)
(* functions that they call.  A signal handler may overwrite what is below *)
(* the stack pointer at any time.                                          *)
(*                                                                         *)
(* The stack is an array of words.  Contents are pairs: <<"num", n>> for   *)
(* addresses and numbers, and symbolic contents for everything else.       *)
(***************************************************************************)
EXTENDS Integers, Sequences

CONSTANTS
  NSpills,     \* spill slots in the frame (256)
  ExitNos,     \* exit numbers that a trace uses
  HeapBytes    \* the words that a heap check asks for

ASSUME TraceFrameAssumption ==
  /\ NSpills \in Nat /\ NSpills % 2 = 0 /\ NSpills > 0
  /\ ExitNos \subseteq 0..511
  /\ HeapBytes \in Nat

\* RID_EAX .. RID_R15D.
RegName == <<"rax", "rcx", "rdx", "rbx", "rsp", "rbp", "rsi", "rdi",
             "r8", "r9", "r10", "r11", "r12", "r13", "r14", "r15">>
RegNames == {RegName[i] : i \in 1..16}
CalleeSaved == {"rbx", "rbp", "r12", "r13", "r14", "r15"}

\* The ExitState in words, and the offsets of the frame from rsp.
FPR == 0
GPR == 16
HPLIM == 32
STACKLIM == 33
THREAD == 35
F_ID == 36
SPILL == 37
F_ID_OFFS == F_ID - HPLIM
SPILL_SP_OFFS == SPILL - HPLIM
SAVE_SIZE == 10 + NSpills

VARIABLES
  reg,      \* the registers
  mem,      \* the C stack
  prog,     \* the instructions to execute next, up to a jump or return
  where,    \* "c", "asm", "trace", "abort"
  left,     \* registers, stack and exit number when the trace was left
  caller    \* the registers when asmEnter was called

frameVars == <<reg, mem, prog, where, left, caller>>

Num(n) == <<"num", n>>
Junk == <<"junk", 0>>

\* Where the stack pointer is when asmEnter is called; at a call, and so
\* after the push of rbp, it is aligned to two words.
StackTop == SAVE_SIZE + 41
StackWords == 0..(StackTop + 1)

-----------------------------------------------------------------------------
(***************************************************************************)
(* Instructions.                                                           *)
(***************************************************************************)

\* ret finds the code to continue with by the return address.
ReturnTo(label) == <<"code", label>>

At(m, b, n) == m.reg[b][2] + n

Push(m, v) ==
  [reg |-> [m.reg EXCEPT !["rsp"] = Num(At(m, "rsp", -1))],
   mem |-> [m.mem EXCEPT ![At(m, "rsp", -1)] = v]]

Exec(m, i) ==
  CASE i[1] = "push" -> Push(m, m.reg[i[2]])
    [] i[1] = "pushi8" -> Push(m, Num(IF i[2] < 128 THEN i[2] ELSE i[2] - 256))
    [] i[1] = "pop" -> [m EXCEPT !.reg = [@ EXCEPT ![i[2]] = m.mem[At(m, "rsp", 0)],
                                                   !["rsp"] = Num(At(m, "rsp", 1))]]
    [] i[1] = "mov" -> [m EXCEPT !.reg[i[2]] = m.reg[i[3]]]
    [] i[1] = "movi" -> [m EXCEPT !.reg[i[2]] = Num(i[3])]
    [] i[1] = "lea" -> [m EXCEPT !.reg[i[2]] = Num(At(m, i[3], i[4]))]
    [] i[1] = "sub" -> [m EXCEPT !.reg[i[2]] = Num(@[2] - m.reg[i[3]][2])]
    [] i[1] = "store" -> [m EXCEPT !.mem[At(m, i[3], i[4])] = m.reg[i[2]]]
    [] i[1] = "load" -> [m EXCEPT !.reg[i[2]] = m.mem[At(m, i[3], i[4])]]
    [] i[1] = "addmem" -> [m EXCEPT !.mem[At(m, i[3], i[4])] = Num(@[2] + m.reg[i[2]][2])]
    [] i[1] = "movzbl" -> [m EXCEPT !.reg[i[2]] = Num(m.mem[At(m, i[3], i[4])][2] % 256)]
    [] i[1] = "movah" ->
         [m EXCEPT !.reg["rax"] = Num((@[2] % 256) + 256 * (m.mem[At(m, i[2], i[3])][2] % 256))]

\* add to or subtract from rsp.
Rsp(n) == <<"lea", "rsp", "rsp", n>>
Pushes(names) == [i \in DOMAIN names |-> <<"push", names[i]>>]
Loads(names, b, offs) == [i \in DOMAIN names |-> <<"load", names[i], b, offs[i]>>]
Stores(names, b, offs) == [i \in DOMAIN names |-> <<"store", names[i], b, offs[i]>>]

Saved == <<"rbx", "r12", "r13", "r14", "r15">>
SavedAt == <<-1, -2, -3, -4, -5>>

\* rdi = F_id, rsi = T, rdx = hp, rcx = hplim, r8 = stacklim, r9 = code.
asmEnter ==
  <<<<"push", "rbp">>, <<"mov", "rax", "rsp">>, Rsp(-SAVE_SIZE)>>
  \o Stores(Saved, "rax", SavedAt)
  \o <<<<"lea", "rax", "rax", -NSpills>>>>
  \o Stores(<<"rdi", "rsi", "r8", "rcx">>, "rax", <<-6, -7, -9, -10>>)
  \o <<<<"mov", "rbp", "rsi">>, <<"mov", "r12", "rdx">>, <<"trace">>>>

\* Plausible error: the frame is given up before the registers are restored.
DeallocateFirst(size) ==
  <<<<"lea", "rax", "rsp", size>>, Rsp(size)>> \o Loads(Saved, "rax", SavedAt)
Leave(size) ==
  <<<<"lea", "rax", "rsp", size>>>> \o Loads(Saved, "rax", SavedAt) \o <<Rsp(size)>>

asmExit ==
  Pushes(<<"r13", "r12", "r11", "r10", "r9", "r8", "rdi", "rsi", "rbp">>)
  \o <<<<"lea", "rbp", "rsp", 11>>>>
  \o Pushes(<<"rbp", "rbx", "rdx", "rcx", "rax">>)
  \o <<<<"movzbl", "rax", "rbp", -1>>, <<"movah", "rbp", -2>>, <<"mov", "rdi", "rax">>>>
  \o Stores(<<"r15", "r14">>, "rbp", <<-1, -2>>)
  \o <<Rsp(-16), <<"mov", "rsi", "rsp">>, <<"call", "exitTrace">>>>
  \o Leave(SAVE_SIZE + 32)
  \o <<<<"pop", "rbp">>, <<"ret">>>>

asmTrace ==
  <<<<"push", "r14">>, <<"load", "r14", "rsp", 1>>, <<"store", "r15", "rsp", 1>>>>
  \o Pushes(<<"r13", "r12", "r11", "r10", "r9", "r8", "rdi", "rsi", "rbp", "r14", "rbx", "rdx",
              "rcx", "rax">>)
  \o <<Rsp(-16), <<"mov", "rdi", "rsp">>, <<"call", "debugTrace">>, Rsp(16)>>
  \o Loads(<<"rax", "rcx", "rdx", "rbp", "rsi", "rdi", "r8", "r9", "r10", "r11">>, "rsp",
           <<0, 1, 2, 5, 6, 7, 8, 9, 10, 11>>)
  \o <<<<"store", "r14", "rsp", 15>>, <<"load", "r14", "rsp", 14>>, Rsp(15), <<"ret">>>>

asmHeapOverflow ==
  <<<<"sub", "r12", "rsi">>>>
  \o Pushes(<<"r12", "r11", "r10", "r9", "r8", "rdi", "rsi", "rbp">>)
  \o <<<<"lea", "rbp", "rsp", 11>>>>
  \o Pushes(<<"rbp", "rbx", "rdx", "rcx", "rax">>)
  \o <<Rsp(-16), <<"mov", "rdi", "rsp">>, <<"call", "heapCheckFail">>, <<"jnz", "rax">>>>

\* The common case of asmHeapOverflow, and the one that needs a collection.
Retry ==
  <<Rsp(16)>>
  \o Loads(<<"rax", "rcx", "rdx", "rbx", "rbp", "rsi", "r8", "r9", "r10", "r11", "r12">>, "rsp",
           <<0, 1, 2, 3, 5, 6, 8, 9, 10, 11, 12>>)
  \o <<Rsp(13), <<"ret">>>>
NoReincrement ==
  <<<<"load", "rdi", "rsp", 23>>, <<"load", "rax", "rsp", 31>>, <<"store", "rax", "rsp", 23>>,
    <<"load", "rsi", "rsp", 22>>, <<"load", "rax", "rsp", 30>>, <<"store", "rax", "rsp", 22>>>>
  \o Stores(<<"r15", "r14", "r13">>, "rsp", <<31, 30, 29>>)
  \o <<<<"mov", "rsi", "rsp">>, <<"call", "exitTrace">>>>
  \o Leave(SAVE_SIZE + 32) \o <<<<"pop", "rbp">>, <<"ret">>>>
Collect ==
  <<<<"load", "rdi", "rsp", 23>>, <<"load", "rax", "rsp", 31>>, <<"store", "rax", "rsp", 23>>,
    <<"load", "rsi", "rsp", 22>>, <<"addmem", "rsi", "rsp", 28>>,
    <<"load", "rax", "rsp", 30>>, <<"store", "rax", "rsp", 22>>>>
  \o Stores(<<"r15", "r14", "r13">>, "rsp", <<31, 30, 29>>)
  \o <<<<"mov", "rsi", "rsp">>, <<"call", "exitTrace">>>>
  \o Leave(SAVE_SIZE + 32) \o <<<<"pop", "rbp">>, <<"ret">>>>

asmStackOverflow == Leave(SAVE_SIZE) \o <<<<"call", "handleStackOverflow">>>>

\* The exit stub: the low and the high byte of the exit number.
StubGroup == 32
ExitStub(n) ==
  LET group == n \div StubGroup
  IN  <<<<"pushi8", ((group * StubGroup) % 256) + (n % StubGroup)>>,
        <<"pushi8", (group * StubGroup) \div 256>>>>

\* heapCheckFailure.
HeapCheckStub(n) ==
  <<<<"push", "rdi">>, <<"push", "rsi">>, <<"movi", "rdi", n>>, <<"movi", "rsi", HeapBytes>>,
    <<"callasm", "stub">>>>
StubEnd == <<<<"pop", "rsi">>, <<"pop", "rdi">>, <<"trace">>>>

-----------------------------------------------------------------------------
(***************************************************************************)
(* Execution.                                                              *)
(***************************************************************************)

M == [reg |-> reg, mem |-> mem]
BelowRsp(m) == {a \in StackWords : a < m.reg["rsp"][2]}

\* What a signal handler or a C function leaves of the stack.
Overwrite(m) == [a \in StackWords |-> IF a \in BelowRsp(m) THEN Junk ELSE m.mem[a]]

Nothing == [reg |-> << >>, mem |-> << >>, n |-> -1, why |-> "enter"]

FrameInit ==
  /\ reg = [r \in RegNames |-> IF r = "rsp" THEN Num(StackTop + 1) ELSE <<"C", r>>]
  /\ mem = [a \in StackWords |-> Junk]
  /\ prog = << >> /\ where = "c" /\ left = Nothing /\ caller = reg

Go(m) == reg' = m.reg /\ mem' = m.mem

\* The interpreter calls asmEnter.
Enter ==
  /\ where = "c" /\ left = Nothing
  /\ LET args == [reg EXCEPT !["rdi"] = <<"F_id", 0>>, !["rsi"] = <<"T", 0>>, !["rdx"] = Num(100),
                             !["rcx"] = <<"hplim", 0>>, !["r8"] = <<"stacklim", 0>>]
     IN  Go(Push([reg |-> args, mem |-> mem], ReturnTo("c")))
  /\ where' = "asm" /\ prog' = asmEnter
  /\ UNCHANGED <<left, caller>>

Rest == Tail(prog)
Running == prog # << >> /\ where = "asm"

Step ==
  /\ Running /\ Head(prog)[1] \notin {"call", "callasm", "jnz", "ret", "trace"}
  /\ Go(Exec(M, Head(prog)))
  /\ prog' = Rest
  /\ UNCHANGED <<where, left, caller>>

\* The branch after heapCheckFail.
Branch ==
  /\ Running /\ Head(prog)[1] = "jnz"
  /\ prog' = IF reg["rax"] = Num(0) THEN Retry ELSE Collect
  /\ UNCHANGED <<reg, mem, where, left, caller>>

CallHeapOverflow ==
  /\ Running /\ Head(prog)[1] = "callasm"
  /\ Go(Push(M, ReturnTo("stub")))
  /\ prog' = asmHeapOverflow
  /\ UNCHANGED <<where, left, caller>>

Return ==
  /\ Running /\ Head(prog)[1] = "ret"
  /\ Go(Exec(M, <<"lea", "rsp", "rsp", 1>>))
  /\ LET to == mem[reg["rsp"][2]][2]
     IN  /\ prog' = IF to = "stub" THEN StubEnd ELSE << >>
         /\ where' = IF to = "stub" THEN "asm" ELSE to
  /\ UNCHANGED <<left, caller>>

Jump ==
  /\ Running /\ Head(prog)[1] = "trace"
  /\ where' = "trace" /\ prog' = << >>
  /\ UNCHANGED <<reg, mem, left, caller>>

\* A C function saves the callee-saved registers only.  heapCheckFail sets
\* the heap pointer and the heap limit if it finds a new block.
AfterC(result) ==
  [r \in RegNames |-> IF r \in CalleeSaved \cup {"rsp"} THEN reg[r]
                      ELSE IF r = "rax" THEN result ELSE Junk]

CallC ==
  /\ Running /\ Head(prog)[1] = "call" /\ Head(prog)[2] # "handleStackOverflow"
  /\ LET s == At(M, "rsp", 0) IN
     \/ /\ Head(prog)[2] = "heapCheckFail"
        /\ reg' = AfterC(Num(0))
        /\ mem' = [Overwrite(M) EXCEPT ![s + GPR + 12] = Num(200), ![s + HPLIM] = <<"hplim", 1>>]
     \/ /\ reg' = AfterC(Num(1))
        /\ mem' = Overwrite(M)
  /\ prog' = Rest
  /\ UNCHANGED <<where, left, caller>>

\* handleStackOverflow ends the program.
Abort ==
  /\ Running /\ Head(prog) = <<"call", "handleStackOverflow">>
  /\ where' = "abort" /\ prog' = << >>
  /\ UNCHANGED <<reg, mem, left, caller>>

\* A trace uses all registers but rsp, and its spill slots; it may have
\* linked to another one (emitSetTraceId).  It exits at a guard, fails its
\* heap check or the check of the stack, or calls asmTrace.
TraceRegs == [r \in RegNames |-> IF r = "rsp" THEN reg[r] ELSE IF r = "r12" THEN Num(150)
                                 ELSE <<"T", r>>]
TraceMem(id) ==
  LET frame == reg["rsp"][2]
  IN  [a \in StackWords |-> IF a \in (frame + SPILL_SP_OFFS)..(frame + SPILL_SP_OFFS + NSpills - 1)
                         THEN <<"spill", a - frame - SPILL_SP_OFFS>>
                       ELSE IF a = frame + F_ID_OFFS THEN <<"F_id", id>> ELSE mem[a]]

LeaveTrace ==
  /\ where = "trace"
  /\ \E id \in 0..1, n \in ExitNos, why \in {"exit", "heap", "stack", "debug"} :
       /\ why = "debug" => left.why = "enter"
       /\ why = "heap" => left.why # "heap"
       /\ LET m == [reg |-> TraceRegs, mem |-> TraceMem(id)]
          IN  /\ left' = [reg |-> m.reg, mem |-> m.mem, n |-> n, why |-> why]
              /\ Go(IF why = "debug" THEN Push(m, ReturnTo("trace")) ELSE m)
       /\ prog' = CASE why = "exit" -> ExitStub(n) \o asmExit
                    [] why = "heap" -> HeapCheckStub(n)
                    [] why = "stack" -> asmStackOverflow
                    [] why = "debug" -> asmTrace
  /\ where' = "asm"
  /\ UNCHANGED caller

\* A signal handler runs on this stack, and returns.
Signal ==
  /\ mem' = Overwrite(M)
  /\ mem' # mem
  /\ UNCHANGED <<reg, prog, where, left, caller>>

FrameNext ==
  \/ Enter \/ Step \/ Branch \/ CallHeapOverflow \/ Return \/ Jump \/ CallC \/ Abort
  \/ LeaveTrace \/ Signal

FrameSpec == FrameInit /\ [][FrameNext]_frameVars

-----------------------------------------------------------------------------
(* Properties *)

FrameOf(m) == SubSeq([i \in 1..(SPILL_SP_OFFS + NSpills) |-> m.mem[m.reg["rsp"][2] + i - 1]],
                     1, SPILL_SP_OFFS + NSpills)

Calls(f) == Running /\ Head(prog) = <<"call", f>>

\* When exitTrace is called, whichever way the trace was left and whenever
\* a signal arrives, its arguments are the exit number and an ExitState with
\* the registers, the heap limit, the thread, the fragment and the spill
\* slots of the trace at its exit; and all C functions are called with an
\* aligned stack.
ExitStateExact ==
  /\ Calls("exitTrace") =>
       LET s == reg["rsi"][2] IN
       /\ reg["rdi"] = Num(left.n)
       /\ \A i \in 1..16 : mem[s + GPR + i - 1] = left.reg[RegName[i]]
       /\ FrameOf([reg |-> left.reg, mem |-> [a \in StackWords |-> IF a < s THEN Junk ELSE mem[a]]])
            = FrameOf(left)
       /\ s + HPLIM = left.reg["rsp"][2]
  /\ Running /\ Head(prog)[1] = "call" => reg["rsp"][2] % 2 = 0

\* Back in the interpreter, the registers that a C function must preserve
\* have the values they had before asmEnter; back in the trace from asmTrace
\* and from a heap check that found a new block, all registers and the frame
\* are as they were, apart from the heap pointer and its limit.
RegistersRestored ==
  /\ where = "c" => \A r \in CalleeSaved \cup {"rsp"} : reg[r] = caller[r]
  /\ where = "trace" /\ left.why # "enter" =>
       /\ \A r \in RegNames \ {"r12"} : reg[r] = left.reg[r]
       /\ reg["r12"] = IF left.why = "debug" THEN left.reg["r12"] ELSE Num(200)
       /\ Tail(FrameOf(M)) = Tail(FrameOf(left))
       /\ FrameOf(M)[1] = <<"hplim", IF left.why = "debug" THEN 0 ELSE 1>>

=============================================================================
