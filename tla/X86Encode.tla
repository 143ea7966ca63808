----------------------------- MODULE X86Encode ------------------------------
(***************************************************************************)
(* The x86-64 encoding of operands and immediates: emit_op, emit_rmro,     *)
(* emit_rmrxo, emit_mrm, emit_gri, emit_gmrmi, emit_rr and loadi_u64 of    *)
(* assembler.cc.  An instruction is encoded into the fields of REX prefix, *)
(* ModRM, SIB, displacement and immediate, and decoded by the rules of the *)
(* processor, which treat the registers 4, 5, 12 and 13 specially.         *)
(***************************************************************************)
EXTENDS Integers

CONSTANTS
  Displacements,  \* offsets of memory operands and immediates
  HalfRange       \* 2^32: numbers of half a word

ASSUME X86EncodeAssumption ==
  /\ Displacements \subseteq Int
  /\ HalfRange \in Nat /\ HalfRange % 2 = 0

VARIABLES
  want,   \* what the caller of an emitter asked for
  enc     \* the fields of the encoding

encVars == <<want, enc>>

GPRs == 0..15
ESP == 4
EBP == 5
NoReg16 == 16      \* RID_NONE
XM_OFS0 == 0
XM_OFS8 == 1
XM_OFS32 == 2
XM_REG == 3

checki8(i) == -128 <= i /\ i <= 127

\* A byte keeps the low 8 bits of a number, and is sign-extended.
Byte(i) == IF i % 256 < 128 THEN i % 256 ELSE (i % 256) - 256

NoSib == [index |-> -1, base |-> -1]
NoOperand == [r |-> 0, base |-> NoReg16, index |-> NoReg16, ofs |-> 0, memory |-> FALSE]

\* emit_op and MODRM: the low three bits of a register go to a field of the
\* instruction, the fourth to the REX prefix.
Fields(rr, rb, rx, mode, sib, disp) ==
  [R |-> rr \div 8, X |-> rx \div 8, B |-> rb \div 8, reg |-> rr % 8, rm |-> rb % 8,
   mod |-> mode, sib |-> sib, disp |-> disp]

NoBaseCheck(rb, ofs) ==
  IF ofs = 0 THEN XM_OFS0 ELSE IF checki8(ofs) THEN XM_OFS8 ELSE XM_OFS32

\* The shortest displacement; ebp and r13 always need one.
OfsMode(rb, ofs) ==
  IF ofs = 0 /\ rb % 8 # EBP THEN XM_OFS0 ELSE IF checki8(ofs) THEN XM_OFS8 ELSE XM_OFS32

Disp(mode, ofs) ==
  IF mode = XM_OFS0 THEN 0 ELSE IF mode = XM_OFS8 THEN Byte(ofs) ELSE ofs

\* op rr, [rb + ofs] (emit_rmro, and emit_mrm without index).
emit_rmro(rr, rb, ofs) ==
  LET mode == OfsMode(rb, ofs)
  IN  Fields(rr, rb, 0, mode, IF rb % 8 = ESP THEN [index |-> ESP, base |-> ESP] ELSE NoSib,
             Disp(mode, ofs))

\* op rr, [ofs] with an absolute address.
emit_abs(rr, ofs) ==
  Fields(rr, ESP, 0, XM_OFS0, [index |-> ESP, base |-> EBP], ofs)

\* op rr, [rb + rx + ofs] (emit_rmrxo with emit_opmx).
emit_rmrxo(rr, rb, rx, ofs) ==
  LET mode == OfsMode(rb, ofs)
  IN  [Fields(rr, rb, rx, mode, [index |-> rx % 8, base |-> rb % 8], Disp(mode, ofs))
         EXCEPT !.rm = ESP]

\* op rr, rb (emit_rr).
emit_rr(rr, rb) == Fields(rr, rb, 0, XM_REG, NoSib, 0)

\* op rb, i (emit_gri, emit_gmrmi): the short form sign-extends a byte.
emit_gri(rb, i) ==
  Fields(0, rb, 0, XM_REG, NoSib, IF checki8(i) THEN Byte(i) ELSE i)

\* The constant in register rb after loadi_u32 (zero-extended), loadi_i32
\* (sign-extended) or the full 64-bit move.
checku32(w) == w < HalfRange
checki32(w) == w < HalfRange \div 2 \/ w >= HalfRange * HalfRange - HalfRange \div 2
SignExtend(h) == IF h < HalfRange \div 2 THEN h ELSE HalfRange * HalfRange - HalfRange + h
loadi_u64(rb, w) ==
  Fields(0, rb, 0, XM_REG, NoSib,
         IF checku32(w) THEN w % HalfRange
         ELSE IF checki32(w) THEN SignExtend(w % HalfRange) ELSE w)

\* What the processor makes of the fields.
Decode(e) ==
  LET rr == e.reg + 8 * e.R
      mem(b, x) == [r |-> rr, base |-> b, index |-> x, ofs |-> e.disp, memory |-> TRUE]
      idx == e.sib.index + 8 * e.X
  IN  IF e.mod = XM_REG THEN [NoOperand EXCEPT !.r = rr, !.base = e.rm + 8 * e.B, !.ofs = e.disp]
      ELSE IF e.rm = 4
        THEN mem(IF e.mod = XM_OFS0 /\ e.sib.base = 5 THEN NoReg16 ELSE e.sib.base + 8 * e.B,
                 IF idx = 4 THEN NoReg16 ELSE idx)
      ELSE IF e.rm = 5 /\ e.mod = XM_OFS0 THEN [mem(NoReg16, NoReg16) EXCEPT !.index = -1]
      ELSE mem(e.rm + 8 * e.B, NoReg16)

-----------------------------------------------------------------------------

EncInit == want = NoOperand /\ enc = Fields(0, NoReg16, 0, XM_REG, NoSib, 0)

EncMemory ==
  \E rr, rb \in GPRs, ofs \in Displacements :
    /\ want' = [r |-> rr, base |-> rb, index |-> NoReg16, ofs |-> ofs, memory |-> TRUE]
    /\ enc' = emit_rmro(rr, rb, ofs)

EncAbsolute ==
  \E rr \in GPRs, ofs \in Displacements :
    /\ want' = [r |-> rr, base |-> NoReg16, index |-> NoReg16, ofs |-> ofs, memory |-> TRUE]
    /\ enc' = emit_abs(rr, ofs)

\* insPLOAD; rsp is not allocated and never an index.
EncIndexed ==
  \E rr, rb \in GPRs, rx \in GPRs \ {ESP}, ofs \in Displacements :
    /\ want' = [r |-> rr, base |-> rb, index |-> rx, ofs |-> ofs, memory |-> TRUE]
    /\ enc' = emit_rmrxo(rr, rb, rx, ofs)

EncRegisters ==
  \E rr, rb \in GPRs :
    /\ want' = [NoOperand EXCEPT !.r = rr, !.base = rb]
    /\ enc' = emit_rr(rr, rb)

EncImmediate ==
  \E rb \in GPRs, i \in Displacements :
    /\ want' = [NoOperand EXCEPT !.base = rb, !.ofs = i]
    /\ enc' = emit_gri(rb, i)

EncConstant ==
  \E rb \in GPRs, w \in 0..(HalfRange * HalfRange - 1) :
    /\ want' = [NoOperand EXCEPT !.base = rb, !.ofs = w]
    /\ enc' = loadi_u64(rb, w)

EncNext ==
  /\ want = NoOperand
  /\ EncMemory \/ EncAbsolute \/ EncIndexed \/ EncRegisters \/ EncImmediate \/ EncConstant

EncSpec == EncInit /\ [][EncNext]_encVars

\* The processor finds the registers, the base, the index, the offset and
\* the immediate or constant that were asked for, whatever registers the
\* allocator chose, and also at the borders of the short forms.
EncodingExact == want = NoOperand \/ Decode(enc) = want

=============================================================================
