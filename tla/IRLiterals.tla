----------------------------- MODULE IRLiterals -----------------------------
(***************************************************************************)
(* The literals of a trace (vm/ir.cc literal, baseLiteral, literalValue).  *)
(*                                                                         *)
(* Literals fill the buffer downwards from REF_BIAS: the cell i of lits is *)
(* the reference -i, and a reference is the code's minus REF_BIAS.  A word *)
(* has two halves of HalfWord values each, where the code's have 2^32.     *)
(***************************************************************************)
EXTENDS Integers, Sequences

CONSTANTS
  HalfWord,     \* 2^32
  Literals,     \* the literals the recorder asks for: pairs of type and word
  BaseOffsets,  \* the offsets it asks for with baseLiteral
  MaxLiterals   \* bound on the number of requests

Word == 0..(HalfWord * HalfWord - 1)

ASSUME LiteralsAssumption ==
  /\ HalfWord \in Nat /\ HalfWord > 1 /\ HalfWord % 2 = 0
  /\ \A l \in Literals : l = <<l[1], l[2]>> /\ l[1] # "base" /\ l[2] \in Word
  /\ MaxLiterals \in Nat

VARIABLES
  lits,    \* the literal cells of buffer_, and the KINT, KWORD, KBASEO chains
  asked    \* the requests so far, with the references they returned

litVars == <<lits, asked>>

\* kOpIsSigned.
SignedTypes == {"I64", "I32"}

Low(w) == w % HalfWord
High(w) == w \div HalfWord

\* The words that a half h stands for: (int64_t)(int32_t), (uint64_t)(uint32_t).
SignExtend(h) ==
  IF h < HalfWord \div 2 THEN h ELSE HalfWord * HalfWord - HalfWord + h
ZeroExtend(h) == h

checki32(w) == w = SignExtend(Low(w))

\* Any earlier literal that a request can share.
Cell(o, t, u) == [o |-> o, t |-> t, u |-> u]
Holds(ls, i, t, w) ==
  \/ checki32(w) /\ ls[i] = Cell("KINT", t, Low(w))
  \/ /\ ~checki32(w) /\ ls[i] = Cell("KWORD", t, Low(w))
     /\ ls[i + 1].u = High(w)

Find(ls, t, w) == {i \in DOMAIN ls : Holds(ls, i, t, w)}

\* The cells after a request that shares none, and the reference it returns.
Added(ls, cells) == [lits |-> ls \o cells, ref |-> -(Len(ls) + 1)]

literal(ls, t, w) ==
  LET found == Find(ls, t, w) IN
  IF found # {} THEN [lits |-> ls, ref |-> -(CHOOSE i \in found : TRUE)]
  ELSE Added(ls, IF checki32(w) THEN <<Cell("KINT", t, Low(w))>>
                 ELSE <<Cell("KWORD", t, Low(w)), Cell("KWORDHI", t, High(w))>>)

\* The offset of a stack address from the base at the start of the trace.
baseLiteral(ls, ofs) ==
  LET found == {i \in DOMAIN ls : ls[i] = Cell("KBASEO", "PTR", ofs)} IN
  IF found # {} THEN [lits |-> ls, ref |-> -(CHOOSE i \in found : TRUE)]
  ELSE Added(ls, <<Cell("KBASEO", "PTR", ofs)>>)

\* What a trace that starts with the base at the address base, or its
\* exit, takes a literal for.
NeverSigned(ls, ref, base) ==
  LET c == ls[-ref] IN
  CASE c.o = "KINT" -> ZeroExtend(c.u)
    [] c.o = "KWORD" -> c.u + HalfWord * ls[1 - ref].u
    [] c.o = "KBASEO" -> base + c.u
literalValue(ls, ref, base) ==
  LET c == ls[-ref] IN
  CASE c.o = "KINT" -> IF c.t \in SignedTypes THEN SignExtend(c.u) ELSE ZeroExtend(c.u)
    [] c.o = "KWORD" -> c.u + HalfWord * ls[1 - ref].u
    [] c.o = "KBASEO" -> base + c.u

-----------------------------------------------------------------------------

LitInit == lits = << >> /\ asked = << >>

AskLiteral(t, w) ==
  /\ Len(asked) < MaxLiterals
  /\ LET r == literal(lits, t, w) IN
       /\ lits' = r.lits
       /\ asked' = Append(asked, [t |-> t, w |-> w, ref |-> r.ref])

AskBase(ofs) ==
  /\ Len(asked) < MaxLiterals
  /\ LET r == baseLiteral(lits, ofs) IN
       /\ lits' = r.lits
       /\ asked' = Append(asked, [t |-> "base", w |-> ofs, ref |-> r.ref])

LitNext ==
  \/ \E l \in Literals : AskLiteral(l[1], l[2])
  \/ \E o \in BaseOffsets : AskBase(o)

LitSpec == LitInit /\ [][LitNext]_litVars

\* Every literal the recorder asked for still stands for the word it asked
\* for, whatever was added to the buffer after it (literal, literalValue).
LiteralExact ==
  \A k \in DOMAIN asked :
    asked[k].t # "base" => literalValue(lits, asked[k].ref, 0) = asked[k].w

\* A stack address is an offset from the base the trace starts with, so
\* baseLiteral means the same frame wherever the trace is entered.
BaseLiteralMoves ==
  \A k \in DOMAIN asked : \A base \in 0..HalfWord :
    asked[k].t = "base" => literalValue(lits, asked[k].ref, base) = base + asked[k].w

\* Two requests get one reference exactly if they have the same type and
\* value: CSE and the cancelling fold rules compare references only.
LiteralsShared ==
  \A j, k \in DOMAIN asked :
    (asked[j].ref = asked[k].ref) <=> (asked[j].t = asked[k].t /\ asked[j].w = asked[k].w)

\* The literals of a trace mean what the recorder asked for, move with the
\* base where they are stack addresses, and are shared exactly when equal.
LiteralsExact == LiteralExact /\ BaseLiteralMoves /\ LiteralsShared

=============================================================================
