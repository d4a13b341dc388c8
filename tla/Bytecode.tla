------------------------------ MODULE Bytecode ------------------------------
(***************************************************************************)
(* The instruction set of the bispe bytecode: words, opcodes, error codes, *)
(* the arithmetic of the machine and the division of a segment into 128    *)
(* bit lines of four words.  Everything here is constant level; the        *)
(* machines that execute the code are BytecodeMachine (what a program      *)
(* means) and Interpreter (what the assembler does).                       *)
(***************************************************************************)
EXTENDS Integers

CONSTANTS
  WordMod,     \* 2^32 in the code: words are 0 .. WordMod-1
  Junk         \* a word nobody can predict: memory that was never written,
               \* or a line whose cipher block chain was broken

ASSUME WordAssumption ==
  /\ WordMod \in Nat
  /\ WordMod >= 32
  /\ WordMod % 4 = 0
  /\ Junk \notin Int

Word == 0 .. WordMod - 1
WordJ == Word \cup {Junk}

-----------------------------------------------------------------------------
(* Opcodes and error codes.                                                *)

INSTR_NOP == 0
INSTR_FINISH == 1
INSTR_PUSH == 2
INSTR_PRINT == 3
INSTR_LOAD == 4
INSTR_STORE == 5
INSTR_ADD == 6
INSTR_SUB == 7
INSTR_MUL == 8
INSTR_DIV == 9
INSTR_MOD == 10
INSTR_JMP == 11
INSTR_JEQ == 12
INSTR_JNE == 13
INSTR_JL == 14
INSTR_JLE == 15
INSTR_JG == 16
INSTR_JGE == 17
INSTR_CALL == 18
INSTR_RET == 19
INSTR_PROLOG == 20
INSTR_EPILOG == 21
INSTR_ARGLOAD == 22

\* The last opcode of the jump table (maximum_opcode).
MaxOpcode == 22

ERR_INV_OPCODE == 1
ERR_JMP_BOUNDS == 2
ERR_STACK_OVERFLOW == 3
ERR_STACK_UNDERFLOW == 4
ERR_CALL_OVERFLOW == 5
ERR_CALL_UNDERFLOW == 6
ERR_DIV_ZERO == 7
ERR_ARG_RANGE == 8

ErrorCodes == 1 .. 8

-----------------------------------------------------------------------------
(* Lines.  Addresses count words from the base pointer of their segment.   *)

LineOf(p) == p \div 4
Ofs(p) == p % 4

\* What is left of an operand in words after "shl $2" on a 32 bit register:
\* the two highest bits are lost.
Displacement(d) == d % (WordMod \div 4)

-----------------------------------------------------------------------------
(* Arithmetic and comparison.  A result computed from an unpredictable     *)
(* word is unpredictable; a decision taken on one can go either way.       *)

Signed(w) == IF w < WordMod \div 2 THEN w ELSE w - WordMod

\* The value a word read from memory can turn out to have.
Readings(w) == IF w = Junk THEN Word ELSE {w}

\* l is the second element from the top of the stack, r the top.  DIV and
\* MOD are the unsigned "div" of the processor.
Arith(op, l, r) ==
  IF l = Junk \/ r = Junk THEN Junk
  ELSE CASE op = INSTR_ADD -> (l + r) % WordMod
         [] op = INSTR_SUB -> (l - r) % WordMod
         [] op = INSTR_MUL -> (l * r) % WordMod
         [] op = INSTR_DIV -> l \div r
         [] op = INSTR_MOD -> l % r

\* Conditional jumps compare as signed numbers.
Compare(op, l, r) ==
  CASE op = INSTR_JEQ -> l = r
    [] op = INSTR_JNE -> l # r
    [] op = INSTR_JL  -> Signed(l) < Signed(r)
    [] op = INSTR_JLE -> Signed(l) <= Signed(r)
    [] op = INSTR_JG  -> Signed(l) > Signed(r)
    [] op = INSTR_JGE -> Signed(l) >= Signed(r)

\* The outcomes a conditional jump can have.
Outcomes(op, l, r) ==
  IF l = Junk \/ r = Junk THEN BOOLEAN ELSE {Compare(op, l, r)}
=============================================================================
