-------------------------- MODULE InterpreterProofs --------------------------
(***************************************************************************)
(* Proofs about Interpreter, for every program, argument vector, cycle     *)
(* length and segment size.  The inductive invariant has one part per      *)
(* group of registers and memory; the lemmas follow the macros of the      *)
(* assembler, the proof that a step preserves the invariant follows the    *)
(* instructions.  The second half shows that Interpreter implements        *)
(* BytecodeMachine: every instruction the assembler executes is a step of  *)
(* the machine, and the entry, the outro and the return of a cycle cannot  *)
(* be seen by the program.  The last theorem carries what FramesProofs     *)
(* shows of the machine over to the interpreter.                           *)
(***************************************************************************)
EXTENDS Interpreter, TLAPS

ContextOK ==
  /\ code_seg \in Programs
  /\ argv \in Arguments
  /\ bispe_instr_per_cycle \in Ipcs

SavedOK ==
  /\ instr_ptr \in Nat
  /\ stack_ptr \in StackSlots
  /\ call_ptr \in CallSlots

FlagsOK == halt_flag \in BOOLEAN /\ error_code \in 0 .. 8

InstrOK ==
  /\ cur_instr_ptr \in Nat
  /\ rinstr_line \in Line
  /\ instr_cnt \in Nat
  /\ pc \in {"entry", "exec", "outro", "check", "done", "oops"}
  /\ CycleBudget

StackOK ==
  /\ cur_stack_ptr \in StackSlots
  /\ rstack_line \in Line
  /\ stack_seg \in [StackSlots -> WordJ]

CallOK ==
  /\ cur_call_ptr \in CallSlots
  /\ cur_call_line \in 0 .. CallLines - 1
  /\ rcall_line \in Line
  /\ call_seg \in [CallSlots -> WordJ]
  /\ cur_call_line <= LineOf(cur_call_ptr)

PrintOK ==
  /\ print_seg \in [PrintSlots -> WordJ]
  /\ print_ptr \in PrintSlots
  /\ output \in Seq(WordJ)
  /\ Len(output) <= PrintWords
  /\ RingHoldsLatest

IndInv == ContextOK /\ SavedOK /\ FlagsOK /\ InstrOK /\ StackOK /\ CallOK /\ PrintOK

-----------------------------------------------------------------------------
(* Words and lines.                                                        *)

\* An address is its line and its offset in the line.
LEMMA LineOfs == \A p \in Int : /\ LineOf(p) \in Int
                                /\ Ofs(p) \in 0 .. 3
                                /\ p = 4 * LineOf(p) + Ofs(p)
  BY DEF LineOf, Ofs

\* Whatever a word turns out to be, it is a word.
LEMMA ReadingsType == ASSUME NEW w \in WordJ PROVE Readings(w) \subseteq Word
  BY WordAssumption DEF Readings, WordJ

\* An operand loses its highest bits and stays a natural number.
LEMMA DisplacementType == ASSUME NEW d \in Word PROVE Displacement(d) \in Nat
<1>1. WordMod \div 4 \in Nat /\ WordMod \div 4 > 0
  BY WordAssumption
<1>2. \A m \in Nat : m > 0 => d % m \in Nat
  BY DEF Word
<1> QED
  BY <1>1, <1>2 DEF Displacement

\* Reducing a number gives a word.
LEMMA ModWord == \A n \in Int : n % WordMod \in Word
  BY WordAssumption DEF Word

\* A quotient of words is a word.
LEMMA QuotientWord == ASSUME NEW l \in Word, NEW r \in Word, r # 0
                      PROVE l \div r \in Word
  BY WordAssumption DEF Word

\* So is a remainder.
LEMMA RemainderWord == ASSUME NEW l \in Word, NEW r \in Word, r # 0
                       PROVE l % r \in Word
  BY WordAssumption DEF Word

\* ADD, SUB and MUL leave a word or Junk.
LEMMA ArithType ==
  ASSUME NEW l \in WordJ, NEW r \in WordJ,
         NEW op \in {INSTR_ADD, INSTR_SUB, INSTR_MUL, INSTR_DIV, INSTR_MOD},
         op \in {INSTR_DIV, INSTR_MOD} => r # 0
  PROVE  Arith(op, l, r) \in WordJ
<1>1. CASE l = Junk \/ r = Junk
  BY <1>1 DEF Arith, WordJ
<1>2. CASE ~(l = Junk \/ r = Junk)
  <2>1. l \in Word /\ r \in Word
    BY <1>2 DEF WordJ
  <2>2. l + r \in Int /\ l - r \in Int /\ l * r \in Int
    BY <2>1, WordAssumption DEF Word
  <2>3. /\ (l + r) % WordMod \in Word
        /\ (l - r) % WordMod \in Word
        /\ (l * r) % WordMod \in Word
    BY <2>2, ModWord
  <2>4. op \in {INSTR_DIV, INSTR_MOD} => l \div r \in Word /\ l % r \in Word
    BY <2>1, QuotientWord, RemainderWord
  <2> QED
    BY <1>2, <2>3, <2>4 DEF Arith, WordJ, INSTR_ADD, INSTR_SUB, INSTR_MUL,
                            INSTR_DIV, INSTR_MOD
<1> QED
  BY <1>1, <1>2

\* decrypt_memory_cbc inside a segment gives a line.
LEMMA ReadLineType ==
  ASSUME NEW n \in Nat, NEW seg \in [0 .. 4 * n - 1 -> WordJ],
         NEW l \in 0 .. n - 1
  PROVE  ReadLine(seg, l) \in Line
  BY DEF ReadLine, Line

\* Writing lines changes neither the size of a segment nor its type.
LEMMA WriteChainType ==
  ASSUME NEW n \in Nat, NEW seg \in [0 .. 4 * n - 1 -> WordJ],
         NEW l, NEW e, NEW line \in Line
  PROVE  WriteChain(seg, l, line, e) \in [0 .. 4 * n - 1 -> WordJ]
<1>1. DOMAIN seg = 0 .. 4 * n - 1
  OBVIOUS
<1>2. ASSUME NEW w \in 0 .. 4 * n - 1
      PROVE  (IF LineOf(w) = l THEN line[Ofs(w)]
              ELSE IF LineOf(w) = e + 1 THEN Junk ELSE seg[w]) \in WordJ
  <2>1. Ofs(w) \in 0 .. 3
    BY LineOfs
  <2>2. line[Ofs(w)] \in WordJ /\ Junk \in WordJ /\ seg[w] \in WordJ
    BY <2>1 DEF Line, WordJ
  <2> QED
    BY <2>2
<1> QED
  BY <1>1, <1>2 DEF WriteChain

-----------------------------------------------------------------------------
(* The macros of the assembler.                                            *)

\* The code is a sequence of words and whatever lies behind it is Junk.
LEMMA CodeLineType ==
  ASSUME ContextOK, NEW l \in Nat PROVE CodeLine(l) \in Line
<1>1. code_seg \in Seq(Word)
  BY InterpreterAssumption DEF ContextOK
<1>2. ASSUME NEW k \in 0 .. 3 PROVE CodeAt(4 * l + k) \in WordJ
  BY <1>1 DEF CodeAt, WordJ
<1> QED
  BY <1>2 DEF CodeLine, Line

\* inc_instr_ptr keeps a line of code in the register.
LEMMA InstrLineType ==
  ASSUME ContextOK, InstrOK, NEW p \in Nat PROVE InstrLineAt(p) \in Line
<1>1. LineOf(p) \in Nat
  BY LineOfs DEF LineOf
<1> QED
  BY <1>1, CodeLineType DEF InstrLineAt, InstrOK

\* An operand is a word.
LEMMA OperandType == ASSUME ContextOK, InstrOK PROVE Operand \subseteq Word
<1>1. cur_instr_ptr + 1 \in Nat
  BY DEF InstrOK
<1>2. InstrLineAt(cur_instr_ptr + 1)[Ofs(cur_instr_ptr + 1)] \in WordJ
  BY <1>1, InstrLineType, LineOfs DEF Line
<1> QED
  BY <1>2, ReadingsType DEF Operand

\* inc_and_check_cycle_cnt never lets the counter pass its limit.
LEMMA CountInstrOK ==
  ASSUME ContextOK, InstrOK, pc = "exec", CountInstr,
         UNCHANGED bispe_instr_per_cycle
  PROVE  /\ instr_cnt' \in Nat
         /\ pc' \in {"exec", "outro"}
         /\ CycleBudget'
<1>1. bispe_instr_per_cycle \in Nat
  BY InterpreterAssumption DEF ContextOK
<1> QED
  BY <1>1 DEF InstrOK, CountInstr, CycleBudget

\* What does not concern an instruction's effect stays as it is.
ControlOK == ContextOK /\ SavedOK /\ FlagsOK /\ InstrOK

\* goto_next_instr
LEMMA NextInstrOK ==
  ASSUME ControlOK, pc = "exec", NEW p \in Nat, NextInstr(p)
  PROVE  ControlOK'
<1>1. ContextOK' /\ SavedOK' /\ FlagsOK'
  BY DEF ControlOK, ContextOK, SavedOK, FlagsOK, NextInstr, context, saved
<1>2. CASE Mapped(p)
  <2>1. InstrLineAt(p) \in Line
    BY InstrLineType DEF ControlOK
  <2>2. instr_cnt' \in Nat /\ pc' \in {"exec", "outro"} /\ CycleBudget'
    BY <1>2, CountInstrOK DEF ControlOK, NextInstr, context
  <2>3. cur_instr_ptr' \in Nat /\ rinstr_line' \in Line
    BY <1>2, <2>1 DEF NextInstr
  <2> QED
    BY <1>1, <2>2, <2>3 DEF ControlOK, InstrOK
<1>3. CASE ~Mapped(p)
  <2>1. InstrOK'
    BY <1>3 DEF NextInstr, ControlOK, InstrOK, instrregs, CycleBudget
  <2> QED
    BY <1>1, <2>1 DEF ControlOK
<1> QED
  BY <1>2, <1>3

\* calc_jmp_target, fetch_instr_line and the count of the jump
LEMMA JumpToOK ==
  ASSUME ControlOK, pc = "exec", NEW t \in Nat, JumpTo(t)
  PROVE  ControlOK'
<1>1. ContextOK' /\ SavedOK' /\ FlagsOK'
  BY DEF ControlOK, ContextOK, SavedOK, FlagsOK, JumpTo, context, saved
<1>2. instr_cnt' \in Nat /\ pc' \in {"exec", "outro"} /\ CycleBudget'
  BY CountInstrOK DEF ControlOK, JumpTo, context
<1>3. LineOf(t) \in Nat
  BY DEF LineOf
<1>4. cur_instr_ptr' \in Nat /\ rinstr_line' \in Line
  BY <1>3, CodeLineType DEF JumpTo, ControlOK
<1> QED
  BY <1>1, <1>2, <1>4 DEF ControlOK, InstrOK

\* inc_stack_ptr and ins_stack, unless the stack overflows
LEMMA PushStackOK ==
  ASSUME StackOK, ~StackOverflow, NEW v \in WordJ, PushStack(v)
  PROVE  StackOK'
<1>1. cur_stack_ptr + 1 \in StackSlots
  BY InterpreterAssumption DEF StackOK, StackSlots, StackOverflow, Ofs
<1>2. Ofs(cur_stack_ptr + 1) \in 0 .. 3
  BY <1>1 DEF Ofs, StackSlots
<1>3. stack_seg' \in [StackSlots -> WordJ]
  BY WriteChainType, InterpreterAssumption
     DEF PushStack, StackSegAfterInc, WriteLine, StackOK, StackSlots
<1>4. rstack_line' \in Line
  BY <1>2 DEF PushStack, StackOK, Line
<1> QED
  BY <1>1, <1>3, <1>4 DEF PushStack, StackOK

\* Below the top, dec_stack_ptr has the right line at hand.
LEMMA StackLineType ==
  ASSUME StackOK, NEW p \in StackSlots PROVE StackLineAt(p) \in Line
<1>1. LineOf(p) \in 0 .. StackLines - 1
  BY InterpreterAssumption DEF StackSlots, LineOf
<1> QED
  BY <1>1, ReadLineType, InterpreterAssumption
     DEF StackLineAt, StackOK, StackSlots

\* The words the instructions pop are words or Junk.
LEMMA PopTypes ==
  ASSUME StackOK
  PROVE  Top \in WordJ /\ (cur_stack_ptr >= 1 => Second \in WordJ)
<1>1. cur_stack_ptr \in Int
  BY DEF StackOK, StackSlots
<1>2. Top \in WordJ
  BY <1>1, LineOfs DEF Top, StackOK, Line
<1>3. ASSUME cur_stack_ptr >= 1 PROVE Second \in WordJ
  <2>1. cur_stack_ptr - 1 \in StackSlots
    BY <1>3, InterpreterAssumption DEF StackOK, StackSlots
  <2>2. StackLineAt(cur_stack_ptr - 1) \in Line
    BY <2>1, StackLineType
  <2>3. Ofs(cur_stack_ptr - 1) \in 0 .. 3
    BY <1>1, LineOfs
  <2> QED
    BY <2>2, <2>3 DEF Second, Line
<1> QED
  BY <1>2, <1>3

\* dec_stack_ptr
LEMMA PopStackOK ==
  ASSUME StackOK, NEW n \in Nat, cur_stack_ptr >= n, PopStack(n)
  PROVE  StackOK'
<1>1. cur_stack_ptr - n \in StackSlots
  BY InterpreterAssumption DEF StackOK, StackSlots
<1> QED
  BY <1>1, StackLineType DEF PopStack, StackOK

\* Every address of the call segment lies on one of its lines.
LEMMA CallLineRange ==
  ASSUME NEW p \in CallSlots PROVE LineOf(p) \in 0 .. CallLines - 1
  BY InterpreterAssumption DEF CallSlots, LineOf

\* A displacement the underflow test lets pass names a slot of the segment
\* at or below the call pointer.
LEMMA BelowTop ==
  ASSUME CallOK, NEW d \in Word, LineOf(cur_call_ptr - Displacement(d)) >= 0
  PROVE  /\ cur_call_ptr - Displacement(d) \in CallSlots
         /\ LineOf(cur_call_ptr - Displacement(d)) <= LineOf(cur_call_ptr)
<1>1. Displacement(d) \in Nat
  BY DisplacementType
<1> QED
  BY <1>1, InterpreterAssumption DEF CallOK, CallSlots, LineOf

\* fetch_call_line leaves a segment and a line.
LEMMA FetchCallLineType ==
  ASSUME CallOK, NEW p, NEW l \in 0 .. CallLines - 1
  PROVE  /\ CallSegFor(p, l) \in [CallSlots -> WordJ]
         /\ CallLineFor(p, l) \in Line
<1>1. CallSegFor(p, l) \in [CallSlots -> WordJ]
  BY WriteChainType, InterpreterAssumption DEF CallSegFor, CallOK, CallSlots
<1>2. ReadLine(CallSegFor(p, l), l) \in Line
  BY <1>1, ReadLineType, InterpreterAssumption DEF CallSlots
<1> QED
  BY <1>1, <1>2 DEF CallLineFor, CallOK

\* save_call_element loads the line of the address it writes to.
LEMMA SaveCallElementOK ==
  ASSUME CallOK, NEW p, NEW q \in CallSlots, NEW v \in WordJ,
         SaveCallElement(p, q, v)
  PROVE  /\ cur_call_line' = LineOf(q)
         /\ cur_call_line' \in 0 .. CallLines - 1
         /\ rcall_line' \in Line
         /\ call_seg' \in [CallSlots -> WordJ]
<1>1. LineOf(q) \in 0 .. CallLines - 1
  BY CallLineRange
<1>2. CallLineFor(p, LineOf(q)) \in Line
  BY <1>1, FetchCallLineType
<1>3. call_seg' \in [CallSlots -> WordJ]
  BY <1>1, FetchCallLineType DEF SaveCallElement
<1>4. rcall_line' \in Line
  BY <1>2 DEF SaveCallElement, Line
<1> QED
  BY <1>1, <1>3, <1>4 DEF SaveCallElement

\* dec_call_ptr never leaves the loaded line above the call pointer.
LEMMA DecCallPtrOK ==
  ASSUME cur_call_ptr \in CallSlots, NEW n \in Nat, cur_call_ptr >= n,
         NEW seg \in [CallSlots -> WordJ], NEW line \in Line,
         NEW l \in 0 .. CallLines - 1, DecCallPtr(n, seg, line, l)
  PROVE  CallOK'
<1> DEFINE q == cur_call_ptr - n
           flushed == WriteChain(seg, l, line, LineOf(cur_call_ptr))
<1>1. q \in CallSlots
  BY InterpreterAssumption DEF CallSlots
<1>2. cur_call_ptr' = q
  BY DEF DecCallPtr
<1>3. CASE 4 * l <= q
  <2>1. l <= LineOf(q)
    BY <1>1, <1>3 DEF CallSlots, LineOf
  <2>2. call_seg' = seg /\ rcall_line' = line /\ cur_call_line' = l
    BY <1>3 DEF DecCallPtr
  <2> QED
    BY <1>1, <1>2, <2>1, <2>2 DEF CallOK
<1>4. CASE ~(4 * l <= q)
  <2>1. flushed \in [CallSlots -> WordJ]
    BY WriteChainType, InterpreterAssumption DEF CallSlots
  <2>2. LineOf(q) \in 0 .. CallLines - 1
    BY <1>1, CallLineRange
  <2>3. ReadLine(flushed, LineOf(q)) \in Line
    BY <2>1, <2>2, ReadLineType, InterpreterAssumption DEF CallSlots
  <2>4. /\ call_seg' = flushed
        /\ rcall_line' = ReadLine(flushed, LineOf(q))
        /\ cur_call_line' = LineOf(q)
    BY <1>4 DEF DecCallPtr
  <2>5. cur_call_line' <= LineOf(cur_call_ptr')
    BY <1>2, <2>2, <2>4
  <2> QED
    BY <1>1, <1>2, <2>1, <2>2, <2>3, <2>4, <2>5 DEF CallOK
<1> QED
  BY <1>3, <1>4

-----------------------------------------------------------------------------
(* The print ring and the error exits.                                     *)

\* What is not touched stays in order.
LEMMA Untouched ==
  /\ StackOK /\ UNCHANGED stackstate => StackOK'
  /\ CallOK /\ UNCHANGED callstate => CallOK'
  /\ PrintOK /\ UNCHANGED printstate => PrintOK'
<1>1. StackOK /\ UNCHANGED stackstate => StackOK'
  BY DEF StackOK, stackstate
<1>2. CallOK /\ UNCHANGED callstate => CallOK'
  BY DEF CallOK, callstate
<1>3. PrintOK /\ UNCHANGED printstate => PrintOK'
  BY DEF PrintOK, printstate, RingHoldsLatest
<1> QED
  BY <1>1, <1>2, <1>3

\* Writing a word to the ring keeps the words in front of the pointer the
\* last ones printed, whether the pointer wraps or not.
LEMMA PrintRingOK ==
  ASSUME PrintOK, NEW v \in WordJ,
         print_seg' = [print_seg EXCEPT ![print_ptr] = v],
         print_ptr' = IF print_ptr + 1 >= PrintWords THEN 0 ELSE print_ptr + 1,
         output' = Window(output, v)
  PROVE  PrintOK'
<1>1. /\ print_ptr \in 0 .. PrintWords - 1
      /\ PrintWords \in Nat \ {0}
      /\ output \in Seq(WordJ)
      /\ Len(output) \in 0 .. PrintWords
      /\ Len(output) >= print_ptr
  BY InterpreterAssumption DEF PrintOK, PrintSlots, RingHoldsLatest
<1>2. print_seg' \in [PrintSlots -> WordJ] /\ print_ptr' \in PrintSlots
  BY <1>1 DEF PrintOK, PrintSlots
<1>3. CASE Len(output) < PrintWords
  <2>1. output' = Append(output, v)
    BY <1>3 DEF Window
  <2>2. /\ output' \in Seq(WordJ)
        /\ Len(output') = Len(output) + 1
        /\ output'[Len(output) + 1] = v
        /\ \A j \in 1 .. Len(output) : output'[j] = output[j]
    BY <1>1, <2>1
  <2>3. Len(output') <= PrintWords /\ Len(output') >= print_ptr'
    BY <1>1, <1>3, <2>2
  <2>4. ASSUME NEW i \in 0 .. print_ptr' - 1
        PROVE  print_seg'[i] = output'[Len(output') - print_ptr' + 1 + i]
    <3>1. print_ptr' = print_ptr + 1 /\ i \in 0 .. print_ptr
      BY <1>1
    <3>2. Len(output') - print_ptr' + 1 + i = Len(output) - print_ptr + 1 + i
      BY <1>1, <2>2, <3>1
    <3>3. CASE i = print_ptr
      <4>1. print_seg'[i] = v
        BY <3>3 DEF PrintOK
      <4>2. Len(output) - print_ptr + 1 + i = Len(output) + 1
        BY <1>1, <3>3
      <4> QED
        BY <2>2, <3>2, <4>1, <4>2
    <3>4. CASE i # print_ptr
      <4>1. i \in 0 .. print_ptr - 1
        BY <1>1, <3>1, <3>4
      <4>2. print_seg'[i] = print_seg[i]
        BY <1>1, <4>1 DEF PrintOK, PrintSlots
      <4>3. print_seg[i] = output[Len(output) - print_ptr + 1 + i]
        BY <4>1 DEF PrintOK, RingHoldsLatest
      <4>4. Len(output) - print_ptr + 1 + i \in 1 .. Len(output)
        BY <1>1, <4>1
      <4> QED
        BY <2>2, <3>2, <4>2, <4>3, <4>4
    <3> QED
      BY <3>3, <3>4
  <2> QED
    BY <1>2, <2>2, <2>3, <2>4 DEF PrintOK, RingHoldsLatest
<1>4. CASE Len(output) = PrintWords
  <2>1. output' = Append(Tail(output), v)
    BY <1>1, <1>4 DEF Window
  <2>2. /\ Tail(output) \in Seq(WordJ)
        /\ Len(Tail(output)) = Len(output) - 1
        /\ \A j \in 1 .. Len(output) - 1 : Tail(output)[j] = output[j + 1]
    BY <1>1, <1>4
  <2>3. /\ output' \in Seq(WordJ)
        /\ Len(output') = Len(output)
        /\ output'[Len(output)] = v
        /\ \A j \in 1 .. Len(output) - 1 : output'[j] = output[j + 1]
    BY <1>1, <2>1, <2>2
  <2>4. Len(output') <= PrintWords /\ Len(output') >= print_ptr'
    BY <1>1, <1>4, <2>3
  <2>5. ASSUME NEW i \in 0 .. print_ptr' - 1
        PROVE  print_seg'[i] = output'[Len(output') - print_ptr' + 1 + i]
    <3>1. print_ptr' = print_ptr + 1 /\ i \in 0 .. print_ptr
          /\ print_ptr + 1 < PrintWords
      BY <1>1
    <3>2. Len(output') - print_ptr' + 1 + i = Len(output) - print_ptr + i
      BY <1>1, <2>3, <3>1
    <3>3. CASE i = print_ptr
      <4>1. print_seg'[i] = v
        BY <3>3 DEF PrintOK
      <4>2. Len(output) - print_ptr + i = Len(output)
        BY <1>1, <3>3
      <4> QED
        BY <2>3, <3>2, <4>1, <4>2
    <3>4. CASE i # print_ptr
      <4>1. i \in 0 .. print_ptr - 1
        BY <1>1, <3>1, <3>4
      <4>2. print_seg'[i] = print_seg[i]
        BY <1>1, <4>1 DEF PrintOK, PrintSlots
      <4>3. print_seg[i] = output[Len(output) - print_ptr + 1 + i]
        BY <4>1 DEF PrintOK, RingHoldsLatest
      <4>4. /\ Len(output) - print_ptr + i \in 1 .. Len(output) - 1
            /\ (Len(output) - print_ptr + i) + 1 = Len(output) - print_ptr + 1 + i
        BY <1>1, <1>4, <3>1, <4>1
      <4> QED
        BY <2>3, <3>2, <4>2, <4>3, <4>4
    <3> QED
      BY <3>3, <3>4
  <2> QED
    BY <1>2, <2>3, <2>4, <2>5 DEF PrintOK, RingHoldsLatest
<1> QED
  BY <1>1, <1>3, <1>4

\* The error exits leave the cycle; only the two stack segments may have
\* been written before.
LEMMA ErrorOK ==
  ASSUME IndInv, NEW err \in 0 .. 8, Error(err),
         stack_seg' \in [StackSlots -> WordJ],
         call_seg' \in [CallSlots -> WordJ]
  PROVE  IndInv'
<1>1. ContextOK' /\ SavedOK' /\ FlagsOK'
  BY DEF IndInv, Error, context, saved, ContextOK, SavedOK, FlagsOK
<1>2. InstrOK'
  BY DEF IndInv, Error, instrregs, InstrOK, CycleBudget
<1>3. StackOK'
  BY DEF IndInv, Error, StackOK
<1>4. CallOK'
  BY DEF IndInv, Error, CallOK
<1>5. PrintOK'
  BY Untouched DEF IndInv, Error
<1> QED
  BY <1>1, <1>2, <1>3, <1>4, <1>5 DEF IndInv

\* Most of them come before anything is written.
LEMMA ErrorInPlaceOK ==
  ASSUME IndInv, NEW err \in 0 .. 8, ErrorInPlace(err)
  PROVE  IndInv'
<1>1. stack_seg' \in [StackSlots -> WordJ] /\ call_seg' \in [CallSlots -> WordJ]
  BY DEF IndInv, ErrorInPlace, StackOK, CallOK
<1> QED
  BY <1>1, ErrorOK DEF ErrorInPlace

\* The write-back of inc_stack_ptr before its overflow test.
LEMMA StackSegAfterIncType ==
  ASSUME StackOK PROVE StackSegAfterInc \in [StackSlots -> WordJ]
  BY WriteChainType, InterpreterAssumption
     DEF StackSegAfterInc, WriteLine, StackOK, StackSlots

\* Arithmetic on the two topmost words.
LEMMA ReplaceTopOK ==
  ASSUME IndInv, pc = "exec", cur_stack_ptr >= 1, NEW v \in WordJ, ReplaceTop(v)
  PROVE  IndInv'
<1>1. cur_stack_ptr - 1 \in StackSlots
  BY InterpreterAssumption DEF IndInv, StackOK, StackSlots
<1>2. StackLineAt(cur_stack_ptr - 1) \in Line
  BY <1>1, StackLineType DEF IndInv
<1>3. StackOK'
  BY <1>1, <1>2 DEF IndInv, ReplaceTop, StackOK, Line
<1>4. ControlOK'
  <2>1. cur_instr_ptr + 1 \in Nat
    BY DEF IndInv, InstrOK
  <2> QED
    BY <2>1, NextInstrOK DEF IndInv, ControlOK, ReplaceTop
<1>5. CallOK' /\ PrintOK'
  BY Untouched DEF IndInv, ReplaceTop
<1> QED
  BY <1>3, <1>4, <1>5 DEF IndInv, ControlOK

-----------------------------------------------------------------------------
(* The cycle and the loop around it.                                       *)

\* start_interpreter establishes the invariant.
LEMMA InitInd == Init => IndInv
<1> SUFFICES ASSUME Init PROVE IndInv
  OBVIOUS
<1>1. ContextOK /\ SavedOK /\ FlagsOK
  <2>1. ContextOK
    BY DEF Init, ContextOK
  <2>2. SavedOK
    BY InterpreterAssumption DEF Init, SavedOK, StackSlots, CallSlots
  <2>3. halt_flag \in BOOLEAN
    BY DEF Init
  <2>4. error_code \in 0 .. 8
    BY DEF Init
  <2> QED
    BY <2>1, <2>2, <2>3, <2>4 DEF FlagsOK
<1>2. ZeroLine \in Line
  BY WordAssumption DEF ZeroLine, Line, WordJ, Word
<1>3. InstrOK
  BY <1>2 DEF Init, InstrOK, CycleBudget
<1>4. StackOK
  BY <1>2, InterpreterAssumption DEF Init, StackOK, StackSlots, WordJ
<1>5. CallOK
  BY <1>2, InterpreterAssumption DEF Init, CallOK, CallSlots, WordJ, LineOf
<1>6. PrintOK
  <2>1. print_seg \in [PrintSlots -> WordJ] /\ print_ptr \in PrintSlots
    BY InterpreterAssumption DEF Init, PrintSlots, WordJ
  <2>2. output \in Seq(WordJ) /\ Len(output) = 0 /\ print_ptr = 0
    BY DEF Init
  <2> QED
    BY <2>1, <2>2, InterpreterAssumption DEF PrintOK, RingHoldsLatest
<1> QED
  BY <1>1, <1>3, <1>4, <1>5, <1>6 DEF IndInv

\* bispe_cycle_entry
LEMMA EntryOK == IndInv /\ bispe_cycle_entry => IndInv'
<1> SUFFICES ASSUME IndInv, bispe_cycle_entry PROVE IndInv'
  OBVIOUS
<1>1. ContextOK' /\ SavedOK' /\ FlagsOK'
  BY DEF IndInv, bispe_cycle_entry, context, saved, ContextOK, SavedOK, FlagsOK
<1>2. InstrOK'
  <2>1. LineOf(instr_ptr) \in Nat
    BY DEF IndInv, SavedOK, LineOf
  <2>2. CodeLine(LineOf(instr_ptr)) \in Line
    BY <2>1, CodeLineType DEF IndInv
  <2>3. bispe_instr_per_cycle' \in Nat \ {0}
    BY <1>1, InterpreterAssumption DEF ContextOK
  <2>4. instr_cnt' = 0 /\ pc' = "exec" /\ rinstr_line' = CodeLine(LineOf(instr_ptr))
        /\ cur_instr_ptr' = instr_ptr
    BY DEF bispe_cycle_entry
  <2> QED
    BY <2>2, <2>3, <2>4 DEF IndInv, SavedOK, InstrOK, CycleBudget
<1>3. StackOK'
  <2>1. LineOf(stack_ptr) \in 0 .. StackLines - 1
    BY InterpreterAssumption DEF IndInv, SavedOK, StackSlots, LineOf
  <2>2. ReadLine(stack_seg, LineOf(stack_ptr)) \in Line
    BY <2>1, ReadLineType, InterpreterAssumption DEF IndInv, StackOK, StackSlots
  <2> QED
    BY <2>2 DEF IndInv, SavedOK, StackOK, bispe_cycle_entry
<1>4. CallOK'
  <2>1. LineOf(call_ptr) \in 0 .. CallLines - 1
    BY CallLineRange DEF IndInv, SavedOK
  <2>2. ReadLine(call_seg, LineOf(call_ptr)) \in Line
    BY <2>1, ReadLineType, InterpreterAssumption DEF IndInv, CallOK, CallSlots
  <2>3. cur_call_line' <= LineOf(cur_call_ptr')
    BY <2>1 DEF bispe_cycle_entry
  <2> QED
    BY <2>1, <2>2, <2>3 DEF IndInv, SavedOK, CallOK, bispe_cycle_entry
<1>5. PrintOK'
  BY Untouched DEF IndInv, bispe_cycle_entry
<1> QED
  BY <1>1, <1>2, <1>3, <1>4, <1>5 DEF IndInv

\* bispe_cycle_outro
LEMMA OutroOK == IndInv /\ bispe_cycle_outro => IndInv'
<1> SUFFICES ASSUME IndInv, bispe_cycle_outro PROVE IndInv'
  OBVIOUS
<1>1. ContextOK' /\ FlagsOK'
  BY DEF IndInv, bispe_cycle_outro, context, ContextOK, FlagsOK
<1>2. SavedOK'
  BY DEF IndInv, bispe_cycle_outro, SavedOK, InstrOK, StackOK, CallOK
<1>3. InstrOK'
  BY DEF IndInv, bispe_cycle_outro, instrregs, InstrOK, CycleBudget
<1>4. stack_seg' \in [StackSlots -> WordJ]
  BY WriteChainType, InterpreterAssumption
     DEF IndInv, bispe_cycle_outro, WriteLine, StackOK, StackSlots
<1>5. call_seg' \in [CallSlots -> WordJ]
  BY WriteChainType, InterpreterAssumption
     DEF IndInv, bispe_cycle_outro, CallOK, CallSlots
<1>6. StackOK'
  BY <1>4 DEF IndInv, bispe_cycle_outro, StackOK
<1>7. CallOK'
  BY <1>5 DEF IndInv, bispe_cycle_outro, CallOK
<1>8. PrintOK'
  BY Untouched DEF IndInv, bispe_cycle_outro
<1> QED
  BY <1>1, <1>2, <1>3, <1>6, <1>7, <1>8 DEF IndInv

\* The registers are cleared behind a cycle.
LEMMA ReturnedOK == IndInv /\ CycleReturned => IndInv'
<1> SUFFICES ASSUME IndInv, CycleReturned PROVE IndInv'
  OBVIOUS
<1>1. ContextOK' /\ SavedOK' /\ FlagsOK'
  BY DEF IndInv, CycleReturned, context, saved, ContextOK, SavedOK, FlagsOK
<1>2. ZeroLine \in Line
  BY WordAssumption DEF ZeroLine, Line, WordJ, Word
<1>3. InstrOK'
  BY <1>2 DEF CycleReturned, InstrOK, CycleBudget
<1>4. StackOK'
  BY <1>2, InterpreterAssumption DEF IndInv, CycleReturned, StackOK, StackSlots
<1>5. CallOK'
  BY <1>2, InterpreterAssumption
     DEF IndInv, CycleReturned, CallOK, CallSlots, LineOf
<1>6. PrintOK'
  BY Untouched DEF IndInv, CycleReturned
<1> QED
  BY <1>1, <1>3, <1>4, <1>5, <1>6 DEF IndInv

-----------------------------------------------------------------------------
(* The instructions.                                                       *)

\* The instruction behind the current one has an address.
LEMMA NextAddress ==
  InstrOK => cur_instr_ptr + 1 \in Nat /\ cur_instr_ptr + 2 \in Nat
  BY DEF InstrOK

\* NOP
LEMMA NopOK == IndInv /\ instr_nop => IndInv'
<1> SUFFICES ASSUME IndInv, instr_nop PROVE IndInv'
  OBVIOUS
<1>1. ControlOK'
  BY NextAddress, NextInstrOK DEF IndInv, ControlOK, instr_nop, Dispatch
<1>2. StackOK' /\ CallOK' /\ PrintOK'
  BY Untouched DEF IndInv, instr_nop
<1> QED
  BY <1>1, <1>2 DEF IndInv, ControlOK

\* FINISH
LEMMA FinishOK == IndInv /\ instr_finish => IndInv'
<1> SUFFICES ASSUME IndInv, instr_finish PROVE IndInv'
  OBVIOUS
<1>1. ContextOK' /\ SavedOK'
  BY DEF IndInv, instr_finish, context, saved, ContextOK, SavedOK
<1>2. FlagsOK'
  <2>1. halt_flag' \in BOOLEAN
    BY DEF instr_finish
  <2>2. error_code' \in 0 .. 8
    BY DEF IndInv, instr_finish, FlagsOK
  <2> QED
    BY <2>1, <2>2 DEF FlagsOK
<1>3. InstrOK'
  BY DEF IndInv, instr_finish, instrregs, InstrOK, CycleBudget
<1>4. StackOK' /\ CallOK' /\ PrintOK'
  BY Untouched DEF IndInv, instr_finish
<1> QED
  BY <1>1, <1>2, <1>3, <1>4 DEF IndInv

\* PUSH
LEMMA PushOK == IndInv /\ instr_push => IndInv'
<1> SUFFICES ASSUME IndInv, instr_push PROVE IndInv'
  OBVIOUS
<1>1. CASE StackOverflow
  <2>1. /\ Error(ERR_STACK_OVERFLOW)
        /\ stack_seg' = StackSegAfterInc
        /\ UNCHANGED call_seg
    BY <1>1 DEF instr_push
  <2>2. stack_seg' \in [StackSlots -> WordJ] /\ call_seg' \in [CallSlots -> WordJ]
    BY <2>1, StackSegAfterIncType DEF IndInv, CallOK
  <2> QED
    BY <2>1, <2>2, ErrorOK DEF ERR_STACK_OVERFLOW
<1>2. CASE ~StackOverflow
  <2>1. PICK d \in Operand : /\ PushStack(d)
                             /\ NextInstr(cur_instr_ptr + 2)
                             /\ UNCHANGED <<callstate, printstate>>
    BY <1>2 DEF instr_push
  <2>2. d \in WordJ
    BY OperandType DEF IndInv, WordJ
  <2>3. StackOK'
    BY <1>2, <2>1, <2>2, PushStackOK DEF IndInv
  <2>4. ControlOK'
    BY <2>1, NextAddress, NextInstrOK DEF IndInv, ControlOK, instr_push, Dispatch
  <2>5. CallOK' /\ PrintOK'
    BY <2>1, Untouched DEF IndInv
  <2> QED
    BY <2>3, <2>4, <2>5 DEF IndInv, ControlOK
<1> QED
  BY <1>1, <1>2

\* PRINT
LEMMA PrintInstrOK == IndInv /\ instr_print => IndInv'
<1> SUFFICES ASSUME IndInv, instr_print PROVE IndInv'
  OBVIOUS
<1>1. CASE cur_stack_ptr < 1
  BY <1>1, ErrorInPlaceOK DEF instr_print, ERR_STACK_UNDERFLOW
<1>2. CASE ~(cur_stack_ptr < 1)
  <2>1. cur_stack_ptr >= 1
    BY <1>2 DEF IndInv, StackOK, StackSlots
  <2>2. StackOK'
    BY <1>2, <2>1, PopStackOK DEF IndInv, instr_print
  <2>3. PrintOK'
    BY <1>2, PopTypes, PrintRingOK DEF IndInv, instr_print
  <2>4. CallOK'
    BY <1>2, Untouched DEF IndInv, instr_print
  <2>5. ControlOK'
    BY <1>2, NextAddress, NextInstrOK DEF IndInv, ControlOK, instr_print, Dispatch
  <2> QED
    BY <2>2, <2>3, <2>4, <2>5 DEF IndInv, ControlOK
<1> QED
  BY <1>1, <1>2

\* LOAD
LEMMA LoadOK == IndInv /\ instr_load => IndInv'
<1> SUFFICES ASSUME IndInv, instr_load PROVE IndInv'
  OBVIOUS
<1> DEFINE q(d) == cur_call_ptr - Displacement(d)
<1>1. PICK d \in Operand :
        CASE LineOf(q(d)) < 0 -> ErrorInPlace(ERR_CALL_UNDERFLOW)
          [] LineOf(q(d)) >= 0 /\ StackOverflow ->
               /\ Error(ERR_STACK_OVERFLOW)
               /\ call_seg' = CallSegFor(cur_call_ptr, LineOf(q(d)))
               /\ stack_seg' = StackSegAfterInc
          [] OTHER ->
               /\ call_seg' = CallSegFor(cur_call_ptr, LineOf(q(d)))
               /\ rcall_line' = CallLineFor(cur_call_ptr, LineOf(q(d)))
               /\ cur_call_line' = LineOf(q(d))
               /\ PushStack(CallLineFor(cur_call_ptr, LineOf(q(d)))[Ofs(q(d))])
               /\ NextInstr(cur_instr_ptr + 2)
               /\ UNCHANGED <<cur_call_ptr, printstate>>
  BY DEF instr_load
<1>2. d \in Word
  BY OperandType DEF IndInv
<1>3. q(d) \in Int /\ LineOf(q(d)) \in Int
  <2>1. Displacement(d) \in Int /\ cur_call_ptr \in Int
    BY <1>2, DisplacementType DEF IndInv, CallOK, CallSlots
  <2> QED
    BY <2>1, LineOfs
<1>4. CASE LineOf(q(d)) < 0
  BY <1>1, <1>3, <1>4, ErrorInPlaceOK DEF ERR_CALL_UNDERFLOW
<1>5. ASSUME LineOf(q(d)) >= 0
      PROVE  /\ q(d) \in CallSlots
             /\ LineOf(q(d)) <= LineOf(cur_call_ptr)
             /\ LineOf(q(d)) \in 0 .. CallLines - 1
             /\ CallSegFor(cur_call_ptr, LineOf(q(d))) \in [CallSlots -> WordJ]
             /\ CallLineFor(cur_call_ptr, LineOf(q(d))) \in Line
  <2>1. q(d) \in CallSlots /\ LineOf(q(d)) <= LineOf(cur_call_ptr)
    BY <1>2, <1>5, BelowTop DEF IndInv
  <2>2. LineOf(q(d)) \in 0 .. CallLines - 1
    BY <2>1, CallLineRange
  <2> QED
    BY <2>1, <2>2, FetchCallLineType DEF IndInv
<1> HIDE DEF q
<1>6. CASE LineOf(q(d)) >= 0 /\ StackOverflow
  <2>1. /\ Error(ERR_STACK_OVERFLOW)
        /\ call_seg' = CallSegFor(cur_call_ptr, LineOf(q(d)))
        /\ stack_seg' = StackSegAfterInc
    BY <1>1, <1>3, <1>6
  <2>2. stack_seg' \in [StackSlots -> WordJ] /\ call_seg' \in [CallSlots -> WordJ]
    BY <1>5, <1>6, <2>1, StackSegAfterIncType DEF IndInv
  <2> QED
    BY <2>1, <2>2, ErrorOK DEF ERR_STACK_OVERFLOW
<1>7. CASE LineOf(q(d)) >= 0 /\ ~StackOverflow
  <2>1. /\ call_seg' = CallSegFor(cur_call_ptr, LineOf(q(d)))
        /\ rcall_line' = CallLineFor(cur_call_ptr, LineOf(q(d)))
        /\ cur_call_line' = LineOf(q(d))
        /\ PushStack(CallLineFor(cur_call_ptr, LineOf(q(d)))[Ofs(q(d))])
        /\ NextInstr(cur_instr_ptr + 2)
        /\ UNCHANGED <<cur_call_ptr, printstate>>
    BY <1>1, <1>3, <1>7
  <2>2. CallLineFor(cur_call_ptr, LineOf(q(d)))[Ofs(q(d))] \in WordJ
    BY <1>3, <1>5, <1>7, LineOfs DEF Line
  <2>3. StackOK'
    BY <1>7, <2>1, <2>2, PushStackOK DEF IndInv
  <2>4. CallOK'
    BY <1>5, <1>7, <2>1 DEF IndInv, CallOK
  <2>5. ControlOK'
    BY <2>1, NextAddress, NextInstrOK DEF IndInv, ControlOK, instr_load, Dispatch
  <2>6. PrintOK'
    BY <2>1, Untouched DEF IndInv
  <2> QED
    BY <2>3, <2>4, <2>5, <2>6 DEF IndInv, ControlOK
<1> QED
  BY <1>3, <1>4, <1>6, <1>7

\* STORE
LEMMA StoreOK == IndInv /\ instr_store => IndInv'
<1> SUFFICES ASSUME IndInv, instr_store PROVE IndInv'
  OBVIOUS
<1> DEFINE q(d) == cur_call_ptr - Displacement(d)
<1>1. PICK d \in Operand :
        CASE cur_stack_ptr < 1 -> ErrorInPlace(ERR_STACK_UNDERFLOW)
          [] cur_stack_ptr >= 1 /\ LineOf(q(d)) < 0 ->
               ErrorInPlace(ERR_CALL_UNDERFLOW)
          [] OTHER ->
               /\ PopStack(1)
               /\ SaveCallElement(cur_call_ptr, q(d), Top)
               /\ NextInstr(cur_instr_ptr + 2)
               /\ UNCHANGED <<cur_call_ptr, printstate>>
  BY DEF instr_store
<1>2. d \in Word
  BY OperandType DEF IndInv
<1>3. LineOf(q(d)) \in Int /\ cur_stack_ptr \in Int
  BY <1>2, DisplacementType, LineOfs DEF IndInv, CallOK, CallSlots, StackOK, StackSlots
<1>4. LineOf(q(d)) >= 0 => q(d) \in CallSlots /\ LineOf(q(d)) <= LineOf(cur_call_ptr)
  BY <1>2, BelowTop DEF IndInv
<1> HIDE DEF q
<1>5. CASE cur_stack_ptr < 1
  BY <1>1, <1>3, <1>5, ErrorInPlaceOK DEF ERR_STACK_UNDERFLOW
<1>6. CASE cur_stack_ptr >= 1 /\ LineOf(q(d)) < 0
  BY <1>1, <1>3, <1>6, ErrorInPlaceOK DEF ERR_CALL_UNDERFLOW
<1>7. CASE cur_stack_ptr >= 1 /\ LineOf(q(d)) >= 0
  <2>1. /\ PopStack(1)
        /\ SaveCallElement(cur_call_ptr, q(d), Top)
        /\ NextInstr(cur_instr_ptr + 2)
        /\ UNCHANGED <<cur_call_ptr, printstate>>
    BY <1>1, <1>3, <1>7
  <2>2. StackOK'
    BY <1>7, <2>1, PopStackOK DEF IndInv
  <2>3. /\ cur_call_line' = LineOf(q(d))
        /\ cur_call_line' \in 0 .. CallLines - 1
        /\ rcall_line' \in Line
        /\ call_seg' \in [CallSlots -> WordJ]
    BY <1>4, <1>7, <2>1, PopTypes, SaveCallElementOK DEF IndInv
  <2>4. CallOK'
    BY <1>4, <1>7, <2>1, <2>3 DEF IndInv, CallOK
  <2>5. ControlOK'
    BY <2>1, NextAddress, NextInstrOK DEF IndInv, ControlOK, instr_store, Dispatch
  <2>6. PrintOK'
    BY <2>1, Untouched DEF IndInv
  <2> QED
    BY <2>2, <2>4, <2>5, <2>6 DEF IndInv, ControlOK
<1> QED
  BY <1>3, <1>5, <1>6, <1>7

\* ADD, SUB and MUL
LEMMA ArithmeticOK ==
  ASSUME IndInv, NEW op \in {INSTR_ADD, INSTR_SUB, INSTR_MUL}, Arithmetic(op)
  PROVE  IndInv'
<1>1. CASE cur_stack_ptr < 1
  BY <1>1, ErrorInPlaceOK DEF Arithmetic, ERR_STACK_UNDERFLOW
<1>2. CASE ~(cur_stack_ptr < 1)
  <2>1. cur_stack_ptr >= 1
    BY <1>2 DEF IndInv, StackOK, StackSlots
  <2>2. Top \in WordJ /\ Second \in WordJ
    BY <2>1, PopTypes DEF IndInv
  <2>3. Arith(op, Second, Top) \in WordJ
    BY <2>2, ArithType
       DEF INSTR_ADD, INSTR_SUB, INSTR_MUL, INSTR_DIV, INSTR_MOD
  <2> QED
    BY <1>2, <2>1, <2>3, ReplaceTopOK DEF Arithmetic, Dispatch
<1> QED
  BY <1>1, <1>2

\* DIV and MOD
LEMMA DivisionOK ==
  ASSUME IndInv, NEW op \in {INSTR_DIV, INSTR_MOD}, Division(op)
  PROVE  IndInv'
<1>1. CASE cur_stack_ptr < 1
  BY <1>1, ErrorInPlaceOK DEF Division, ERR_STACK_UNDERFLOW
<1>2. CASE ~(cur_stack_ptr < 1) /\ ErrorInPlace(ERR_DIV_ZERO)
  BY <1>2, ErrorInPlaceOK DEF ERR_DIV_ZERO
<1>3. CASE /\ ~(cur_stack_ptr < 1)
           /\ Top # 0 /\ ReplaceTop(Arith(op, Second, Top))
  <2>1. cur_stack_ptr >= 1
    BY <1>3 DEF IndInv, StackOK, StackSlots
  <2>2. Top \in WordJ /\ Second \in WordJ
    BY <2>1, PopTypes DEF IndInv
  <2>3. Arith(op, Second, Top) \in WordJ
    BY <1>3, <2>2, ArithType
  <2> QED
    BY <1>3, <2>1, <2>3, ReplaceTopOK DEF Division, Dispatch
<1> QED
  BY <1>1, <1>2, <1>3 DEF Division

\* JMP
LEMMA JmpOK == IndInv /\ instr_jmp => IndInv'
<1> SUFFICES ASSUME IndInv, instr_jmp PROVE IndInv'
  OBVIOUS
<1>1. PICK t \in Operand :
        IF JmpBounds(t)
        THEN ErrorInPlace(ERR_JMP_BOUNDS)
        ELSE JumpTo(t) /\ UNCHANGED <<stackstate, callstate, printstate>>
  BY DEF instr_jmp
<1>2. t \in Nat
  BY OperandType DEF IndInv, Word
<1>3. CASE JmpBounds(t)
  BY <1>1, <1>3, ErrorInPlaceOK DEF ERR_JMP_BOUNDS
<1>4. CASE ~JmpBounds(t)
  <2>1. ControlOK'
    BY <1>1, <1>2, <1>4, JumpToOK DEF IndInv, ControlOK, instr_jmp, Dispatch
  <2>2. StackOK' /\ CallOK' /\ PrintOK'
    BY <1>1, <1>4, Untouched DEF IndInv
  <2> QED
    BY <2>1, <2>2 DEF IndInv, ControlOK
<1> QED
  BY <1>3, <1>4

\* JEQ, JNE, JL, JLE, JG and JGE
LEMMA ConditionalJumpOK ==
  ASSUME IndInv, NEW op, ConditionalJump(op) PROVE IndInv'
<1>1. CASE cur_stack_ptr < 2
  BY <1>1, ErrorInPlaceOK DEF ConditionalJump, ERR_STACK_UNDERFLOW
<1>2. CASE ~(cur_stack_ptr < 2)
  <2>1. PICK taken \in Outcomes(op, Second, Top), t \in Operand :
          IF taken /\ JmpBounds(t)
          THEN ErrorInPlace(ERR_JMP_BOUNDS)
          ELSE /\ PopStack(2)
               /\ IF taken THEN JumpTo(t) ELSE NextInstr(cur_instr_ptr + 2)
               /\ UNCHANGED <<callstate, printstate>>
    BY <1>2 DEF ConditionalJump
  <2>2. t \in Nat
    BY OperandType DEF IndInv, Word
  <2>3. CASE taken /\ JmpBounds(t)
    BY <2>1, <2>3, ErrorInPlaceOK DEF ERR_JMP_BOUNDS
  <2>4. CASE ~(taken /\ JmpBounds(t))
    <3>1. cur_stack_ptr >= 2
      BY <1>2 DEF IndInv, StackOK, StackSlots
    <3>2. StackOK'
      BY <2>1, <2>4, <3>1, PopStackOK DEF IndInv
    <3>3. JumpTo(t) \/ NextInstr(cur_instr_ptr + 2)
      BY <2>1, <2>4
    <3>4. ControlOK'
      BY <2>2, <3>3, NextAddress, JumpToOK, NextInstrOK
         DEF IndInv, ControlOK, ConditionalJump, Dispatch
    <3>5. CallOK' /\ PrintOK'
      BY <2>1, <2>4, Untouched DEF IndInv
    <3> QED
      BY <3>2, <3>4, <3>5 DEF IndInv, ControlOK
  <2> QED
    BY <2>3, <2>4
<1> QED
  BY <1>1, <1>2

\* CALL
LEMMA CallInstrOK == IndInv /\ instr_call => IndInv'
<1> SUFFICES ASSUME IndInv, instr_call PROVE IndInv'
  OBVIOUS
<1> DEFINE ra == (cur_instr_ptr + 2) % WordMod
<1>1. PICK t \in Operand :
        CASE JmpBounds(t) -> ErrorInPlace(ERR_JMP_BOUNDS)
          [] ~JmpBounds(t) /\ CallOverflow(1) -> ErrorInPlace(ERR_CALL_OVERFLOW)
          [] OTHER -> /\ cur_call_ptr' = cur_call_ptr + 1
                      /\ SaveCallElement(cur_call_ptr + 1, cur_call_ptr + 1, ra)
                      /\ JumpTo(t)
                      /\ UNCHANGED <<stackstate, printstate>>
  BY DEF instr_call
<1>2. t \in Nat
  BY OperandType DEF IndInv, Word
<1>3. ra \in WordJ
  BY ModWord DEF IndInv, InstrOK, WordJ
<1> HIDE DEF ra
<1>4. CASE JmpBounds(t)
  BY <1>1, <1>4, ErrorInPlaceOK DEF ERR_JMP_BOUNDS
<1>5. CASE ~JmpBounds(t) /\ CallOverflow(1)
  BY <1>1, <1>5, ErrorInPlaceOK DEF ERR_CALL_OVERFLOW
<1>6. CASE ~JmpBounds(t) /\ ~CallOverflow(1)
  <2>1. /\ cur_call_ptr' = cur_call_ptr + 1
        /\ SaveCallElement(cur_call_ptr + 1, cur_call_ptr + 1, ra)
        /\ JumpTo(t)
        /\ UNCHANGED <<stackstate, printstate>>
    BY <1>1, <1>6
  <2>2. cur_call_ptr + 1 \in CallSlots
    BY <1>6, InterpreterAssumption DEF CallOverflow, IndInv, CallOK, CallSlots
  <2>3. /\ cur_call_line' = LineOf(cur_call_ptr + 1)
        /\ cur_call_line' \in 0 .. CallLines - 1
        /\ rcall_line' \in Line
        /\ call_seg' \in [CallSlots -> WordJ]
    BY <1>3, <2>1, <2>2, SaveCallElementOK DEF IndInv
  <2>4. cur_call_line' <= LineOf(cur_call_ptr')
    BY <2>1, <2>3
  <2>5. CallOK'
    BY <2>1, <2>2, <2>3, <2>4 DEF CallOK
  <2>6. ControlOK'
    BY <1>2, <2>1, JumpToOK DEF IndInv, ControlOK, instr_call, Dispatch
  <2>7. StackOK' /\ PrintOK'
    BY <2>1, Untouched DEF IndInv
  <2> QED
    BY <2>5, <2>6, <2>7 DEF IndInv, ControlOK
<1> QED
  BY <1>4, <1>5, <1>6

\* RET
LEMMA RetOK == IndInv /\ instr_ret => IndInv'
<1> SUFFICES ASSUME IndInv, instr_ret PROVE IndInv'
  OBVIOUS
<1> DEFINE l == LineOf(cur_call_ptr)
           seg == CallSegFor(cur_call_ptr, l)
           line == CallLineFor(cur_call_ptr, l)
<1>1. PICK t \in Readings(line[Ofs(cur_call_ptr)]) :
        CASE JmpBounds(t) ->
               Error(ERR_JMP_BOUNDS) /\ call_seg' = seg /\ UNCHANGED stack_seg
          [] ~JmpBounds(t) /\ cur_call_ptr < 1 ->
               Error(ERR_CALL_UNDERFLOW) /\ call_seg' = seg /\ UNCHANGED stack_seg
          [] OTHER -> /\ DecCallPtr(1, seg, line, l)
                      /\ JumpTo(t)
                      /\ UNCHANGED <<stackstate, printstate>>
  BY DEF instr_ret
<1>2. cur_call_ptr \in CallSlots /\ cur_call_ptr \in Int
  BY DEF IndInv, CallOK, CallSlots
<1>3. l \in 0 .. CallLines - 1
  BY <1>2, CallLineRange
<1>4. seg \in [CallSlots -> WordJ] /\ line \in Line
  BY <1>3, FetchCallLineType DEF IndInv
<1>5. t \in Nat
  <2>1. line[Ofs(cur_call_ptr)] \in WordJ
    BY <1>2, <1>4, LineOfs DEF Line
  <2> QED
    BY <2>1, ReadingsType DEF Word
<1> HIDE DEF l, seg, line
<1>6. CASE JmpBounds(t) \/ cur_call_ptr < 1
  <2>1. /\ Error(ERR_JMP_BOUNDS) \/ Error(ERR_CALL_UNDERFLOW)
        /\ call_seg' = seg /\ UNCHANGED stack_seg
    BY <1>1, <1>6
  <2>2. stack_seg' \in [StackSlots -> WordJ] /\ call_seg' \in [CallSlots -> WordJ]
    BY <1>4, <2>1 DEF IndInv, StackOK
  <2> QED
    BY <2>1, <2>2, ErrorOK DEF ERR_JMP_BOUNDS, ERR_CALL_UNDERFLOW
<1>7. CASE ~JmpBounds(t) /\ ~(cur_call_ptr < 1)
  <2>1. /\ DecCallPtr(1, seg, line, l)
        /\ JumpTo(t)
        /\ UNCHANGED <<stackstate, printstate>>
    BY <1>1, <1>7
  <2>2. cur_call_ptr >= 1
    BY <1>2, <1>7
  <2>3. CallOK'
    BY <1>2, <1>3, <1>4, <2>1, <2>2, DecCallPtrOK
  <2>4. ControlOK'
    BY <1>5, <2>1, JumpToOK DEF IndInv, ControlOK, instr_ret, Dispatch
  <2>5. StackOK' /\ PrintOK'
    BY <2>1, Untouched DEF IndInv
  <2> QED
    BY <2>3, <2>4, <2>5 DEF IndInv, ControlOK
<1> QED
  BY <1>6, <1>7

\* PROLOG
LEMMA PrologOK == IndInv /\ instr_prolog => IndInv'
<1> SUFFICES ASSUME IndInv, instr_prolog PROVE IndInv'
  OBVIOUS
<1>1. PICK d \in Operand :
        IF CallOverflow(Displacement(d))
        THEN ErrorInPlace(ERR_CALL_OVERFLOW)
        ELSE /\ cur_call_ptr' = cur_call_ptr + Displacement(d)
             /\ NextInstr(cur_instr_ptr + 2)
             /\ UNCHANGED <<cur_call_line, rcall_line, call_seg, stackstate,
                            printstate>>
  BY DEF instr_prolog
<1>2. Displacement(d) \in Nat
  BY OperandType, DisplacementType DEF IndInv
<1>3. CASE CallOverflow(Displacement(d))
  BY <1>1, <1>3, ErrorInPlaceOK DEF ERR_CALL_OVERFLOW
<1>4. CASE ~CallOverflow(Displacement(d))
  <2>1. cur_call_ptr + Displacement(d) \in CallSlots
    BY <1>2, <1>4, InterpreterAssumption
       DEF CallOverflow, IndInv, CallOK, CallSlots
  <2>2. LineOf(cur_call_ptr) <= LineOf(cur_call_ptr + Displacement(d))
    BY <1>2 DEF IndInv, CallOK, CallSlots, LineOf
  <2>3. cur_call_line <= LineOf(cur_call_ptr + Displacement(d))
    BY <1>2, <2>1, <2>2 DEF IndInv, CallOK, CallSlots, LineOf
  <2>4. CallOK'
    BY <1>1, <1>4, <2>1, <2>3 DEF IndInv, CallOK
  <2>5. ControlOK'
    BY <1>1, <1>4, NextAddress, NextInstrOK
       DEF IndInv, ControlOK, instr_prolog, Dispatch
  <2>6. StackOK' /\ PrintOK'
    BY <1>1, <1>4, Untouched DEF IndInv
  <2> QED
    BY <2>4, <2>5, <2>6 DEF IndInv, ControlOK
<1> QED
  BY <1>3, <1>4

\* EPILOG
LEMMA EpilogOK == IndInv /\ instr_epilog => IndInv'
<1> SUFFICES ASSUME IndInv, instr_epilog PROVE IndInv'
  OBVIOUS
<1>1. PICK d \in Operand :
        IF cur_call_ptr < Displacement(d)
        THEN ErrorInPlace(ERR_CALL_UNDERFLOW)
        ELSE /\ DecCallPtr(Displacement(d), call_seg, rcall_line, cur_call_line)
             /\ NextInstr(cur_instr_ptr + 2)
             /\ UNCHANGED <<stackstate, printstate>>
  BY DEF instr_epilog
<1>2. Displacement(d) \in Nat
  BY OperandType, DisplacementType DEF IndInv
<1>3. CASE cur_call_ptr < Displacement(d)
  BY <1>1, <1>3, ErrorInPlaceOK DEF ERR_CALL_UNDERFLOW
<1>4. CASE ~(cur_call_ptr < Displacement(d))
  <2>1. cur_call_ptr >= Displacement(d)
    BY <1>2, <1>4 DEF IndInv, CallOK, CallSlots
  <2>2. CallOK'
    BY <1>1, <1>2, <1>4, <2>1, DecCallPtrOK DEF IndInv, CallOK
  <2>3. ControlOK'
    BY <1>1, <1>4, NextAddress, NextInstrOK
       DEF IndInv, ControlOK, instr_epilog, Dispatch
  <2>4. StackOK' /\ PrintOK'
    BY <1>1, <1>4, Untouched DEF IndInv
  <2> QED
    BY <2>2, <2>3, <2>4 DEF IndInv, ControlOK
<1> QED
  BY <1>3, <1>4

\* ARGLOAD
LEMMA ArgloadOK == IndInv /\ instr_argload => IndInv'
<1> SUFFICES ASSUME IndInv, instr_argload PROVE IndInv'
  OBVIOUS
<1> DEFINE q(d) == cur_call_ptr - Displacement(d)
<1>1. PICK d \in Operand :
        CASE d >= Len(argv) -> ErrorInPlace(ERR_ARG_RANGE)
          [] d < Len(argv) /\ LineOf(q(d)) < 0 -> ErrorInPlace(ERR_CALL_UNDERFLOW)
          [] OTHER -> /\ SaveCallElement(cur_call_ptr, q(d), argv[d + 1])
                      /\ NextInstr(cur_instr_ptr + 2)
                      /\ UNCHANGED <<cur_call_ptr, stackstate, printstate>>
  BY DEF instr_argload
<1>2. d \in Word /\ d \in Nat
  BY OperandType DEF IndInv, Word
<1>3. argv \in Seq(Word)
  BY InterpreterAssumption DEF IndInv, ContextOK
<1>4. LineOf(q(d)) \in Int
  <2>1. Displacement(d) \in Int /\ cur_call_ptr \in Int
    BY <1>2, DisplacementType DEF IndInv, CallOK, CallSlots
  <2> QED
    BY <2>1, LineOfs
<1>5. LineOf(q(d)) >= 0 => q(d) \in CallSlots /\ LineOf(q(d)) <= LineOf(cur_call_ptr)
  BY <1>2, BelowTop DEF IndInv
<1> HIDE DEF q
<1>6. CASE d >= Len(argv)
  BY <1>1, <1>2, <1>3, <1>6, ErrorInPlaceOK DEF ERR_ARG_RANGE
<1>7. CASE d < Len(argv) /\ LineOf(q(d)) < 0
  BY <1>1, <1>2, <1>3, <1>7, ErrorInPlaceOK DEF ERR_CALL_UNDERFLOW
<1>8. CASE d < Len(argv) /\ LineOf(q(d)) >= 0
  <2>1. /\ SaveCallElement(cur_call_ptr, q(d), argv[d + 1])
        /\ NextInstr(cur_instr_ptr + 2)
        /\ UNCHANGED <<cur_call_ptr, stackstate, printstate>>
    BY <1>1, <1>2, <1>3, <1>4, <1>8
  <2>2. argv[d + 1] \in WordJ
    BY <1>2, <1>3, <1>8 DEF WordJ
  <2>3. /\ cur_call_line' = LineOf(q(d))
        /\ cur_call_line' \in 0 .. CallLines - 1
        /\ rcall_line' \in Line
        /\ call_seg' \in [CallSlots -> WordJ]
    BY <1>5, <1>8, <2>1, <2>2, SaveCallElementOK DEF IndInv
  <2>4. CallOK'
    BY <1>5, <1>8, <2>1, <2>3 DEF IndInv, CallOK
  <2>5. ControlOK'
    BY <2>1, NextAddress, NextInstrOK DEF IndInv, ControlOK, instr_argload, Dispatch
  <2>6. StackOK' /\ PrintOK'
    BY <2>1, Untouched DEF IndInv
  <2> QED
    BY <2>4, <2>5, <2>6 DEF IndInv, ControlOK
<1> QED
  BY <1>2, <1>3, <1>4, <1>6, <1>7, <1>8

\* Unknown opcodes, and operands on an unmapped page.
LEMMA FaultOK == IndInv /\ (error_inv_opcode \/ OperandFault) => IndInv'
<1>1. ASSUME IndInv, error_inv_opcode PROVE IndInv'
  BY <1>1, ErrorInPlaceOK DEF error_inv_opcode, ERR_INV_OPCODE
<1>2. ASSUME IndInv, OperandFault PROVE IndInv'
  <2>1. ContextOK' /\ SavedOK' /\ FlagsOK'
    BY <1>2 DEF IndInv, OperandFault, context, saved, ContextOK, SavedOK, FlagsOK
  <2>2. InstrOK'
    BY <1>2 DEF IndInv, OperandFault, instrregs, InstrOK, CycleBudget
  <2>3. StackOK' /\ CallOK' /\ PrintOK'
    BY <1>2, Untouched DEF IndInv, OperandFault
  <2> QED
    BY <2>1, <2>2, <2>3 DEF IndInv
<1> QED
  BY <1>1, <1>2

\* Every instruction keeps the invariant.
LEMMA InstructionOK == IndInv /\ Instruction => IndInv'
<1> SUFFICES ASSUME IndInv, Instruction PROVE IndInv'
  OBVIOUS
<1>1. CASE instr_nop \/ instr_finish \/ instr_push \/ instr_print
  BY <1>1, NopOK, FinishOK, PushOK, PrintInstrOK
<1>2. CASE instr_load \/ instr_store
  BY <1>2, LoadOK, StoreOK
<1>3. CASE instr_add \/ instr_sub \/ instr_mul
  BY <1>3, ArithmeticOK DEF instr_add, instr_sub, instr_mul
<1>4. CASE instr_div \/ instr_mod
  BY <1>4, DivisionOK DEF instr_div, instr_mod
<1>5. CASE instr_jmp
  BY <1>5, JmpOK
<1>6. CASE \/ instr_jeq \/ instr_jne \/ instr_jl \/ instr_jle
           \/ instr_jg \/ instr_jge
  BY <1>6, ConditionalJumpOK
     DEF instr_jeq, instr_jne, instr_jl, instr_jle, instr_jg, instr_jge
<1>7. CASE instr_call \/ instr_ret \/ instr_prolog \/ instr_epilog \/ instr_argload
  BY <1>7, CallInstrOK, RetOK, PrologOK, EpilogOK, ArgloadOK
<1>8. CASE error_inv_opcode \/ OperandFault
  BY <1>8, FaultOK
<1> QED
  BY <1>1, <1>2, <1>3, <1>4, <1>5, <1>6, <1>7, <1>8 DEF Instruction

\* Every step of the interpreter keeps the invariant.
LEMMA NextInd == IndInv /\ [Next]_vars => IndInv'
<1>1. ASSUME IndInv, UNCHANGED vars PROVE IndInv'
  <2>1. ContextOK' /\ SavedOK' /\ FlagsOK'
    BY <1>1 DEF IndInv, vars, context, saved, ContextOK, SavedOK, FlagsOK
  <2>2. InstrOK'
    BY <1>1 DEF IndInv, vars, context, instrregs, InstrOK, CycleBudget
  <2>3. StackOK' /\ CallOK' /\ PrintOK'
    BY <1>1, Untouched DEF IndInv, vars
  <2> QED
    BY <2>1, <2>2, <2>3 DEF IndInv
<1> QED
  BY <1>1, InstructionOK, EntryOK, OutroOK, ReturnedOK DEF Next

-----------------------------------------------------------------------------
(* Theorems.                                                               *)

\* The invariant holds in every reachable state, for every program.
THEOREM Inductive == Spec => []IndInv
  BY InitInd, NextInd, PTL DEF Spec

\* The registers, pointers and segments keep their types: no program moves a
\* stack, call or print pointer out of its segment.
THEOREM TypeCorrect == Spec => []TypeOK
<1>1. IndInv => TypeOK
  <2> SUFFICES ASSUME IndInv PROVE TypeOK
    OBVIOUS
  <2>1. code_seg \in Seq(Word) /\ argv \in Seq(Word) /\ bispe_instr_per_cycle \in Ipcs
    BY InterpreterAssumption DEF IndInv, ContextOK
  <2> QED
    BY <2>1 DEF IndInv, SavedOK, FlagsOK, InstrOK, StackOK, CallOK, PrintOK, TypeOK
<1> QED
  BY <1>1, Inductive, PTL

\* The loop of encrypt_reg_cbc_chain always meets its end.
THEOREM ChainLoopEnds == Spec => []CallLineInFrame
<1>1. IndInv => CallLineInFrame
  BY DEF IndInv, CallOK, CallLineInFrame
<1> QED
  BY <1>1, Inductive, PTL

\* The instruction counter cannot pass the limit it is compared with.
THEOREM BudgetKept == Spec => []CycleBudget
<1>1. IndInv => CycleBudget
  BY DEF IndInv, InstrOK
<1> QED
  BY <1>1, Inductive, PTL

\* The words handed to user space are the words printed last.
THEOREM RingCorrect == Spec => []RingHoldsLatest
<1>1. IndInv => RingHoldsLatest
  BY DEF IndInv, PrintOK
<1> QED
  BY <1>1, Inductive, PTL

-----------------------------------------------------------------------------
(* The refinement.  StackView and CallView are the stacks as the machine   *)
(* of BytecodeMachine has them, put together from a segment and the line   *)
(* of it that is in a register.  The lemmas say how the macros of the      *)
(* assembler change these views; the proof about an instruction combines   *)
(* the views it changes.                                                   *)

StackView(seg, line, p) ==
  [i \in StackSlots |->
     IF i <= p THEN (IF LineOf(i) = LineOf(p) THEN line[Ofs(i)] ELSE seg[i])
     ELSE Junk]

CallView(seg, line, l, p) ==
  [i \in CallSlots |->
     IF i <= p THEN (IF LineOf(i) = l THEN line[Ofs(i)] ELSE seg[i]) ELSE Junk]

\* The line of code in the register is the line of the instruction pointer.
FetchOK == pc = "exec" => rinstr_line = CodeLine(LineOf(cur_instr_ptr))

\* When the flags can be set: an error leaves the cycle, FINISH goes through
\* the outro.
ModeOK ==
  /\ pc \in {"entry", "exec"} => ~halt_flag
  /\ pc \in {"entry", "exec", "outro", "oops"} => error_code = 0
  /\ error_code # 0 => halt_flag

RefInv == IndInv /\ FetchOK /\ ModeOK

-----------------------------------------------------------------------------
(* The mapping in the different places of the loop.                        *)

\* During a cycle the registers are in front of the memory.
LEMMA CycleView ==
  ASSUME pc \in {"exec", "outro", "oops"}, error_code = 0
  PROVE  /\ machine_ip = cur_instr_ptr
         /\ machine_sp = cur_stack_ptr
         /\ machine_cp = cur_call_ptr
         /\ machine_stack = StackView(stack_seg, rstack_line, cur_stack_ptr)
         /\ machine_call = CallView(call_seg, rcall_line, cur_call_line, cur_call_ptr)
  BY DEF machine_ip, machine_sp, machine_cp, machine_stack, machine_call,
         StackTop, CallTop, StackWord, CallWord, InCycle, Failed,
         StackView, CallView

\* The same for the state a step leads to.
LEMMA CycleViewNext ==
  ASSUME pc' \in {"exec", "outro", "oops"}, error_code' = 0
  PROVE  /\ machine_ip' = cur_instr_ptr'
         /\ machine_sp' = cur_stack_ptr'
         /\ machine_cp' = cur_call_ptr'
         /\ machine_stack' = StackView(stack_seg', rstack_line', cur_stack_ptr')
         /\ machine_call' = CallView(call_seg', rcall_line', cur_call_line', cur_call_ptr')
  BY DEF machine_ip, machine_sp, machine_cp, machine_stack, machine_call,
         StackTop, CallTop, StackWord, CallWord, InCycle, Failed,
         StackView, CallView

\* The status of the machine.
LEMMA StatusView ==
  /\ machine_status = IF pc = "oops" THEN "oops"
                      ELSE IF halt_flag THEN "halted" ELSE "running"
  /\ machine_status' = IF pc' = "oops" THEN "oops"
                       ELSE IF halt_flag' THEN "halted" ELSE "running"
  BY DEF machine_status

\* The stacks of a program that failed are lost.
LEMMA FailedView ==
  ASSUME error_code' # 0
  PROVE  /\ machine_ip' = 0 /\ machine_sp' = 0 /\ machine_cp' = 0
         /\ machine_stack' = Machine!EmptyStack
         /\ machine_call' = Machine!EmptyCall
<1>1. Machine!EmptyStack = [i \in StackSlots |-> Junk]
  BY DEF Machine!EmptyStack, Machine!StackSlots, StackSlots
<1>2. Machine!EmptyCall = [i \in CallSlots |-> Junk]
  BY DEF Machine!EmptyCall, Machine!CallSlots, CallSlots
<1> QED
  BY <1>1, <1>2 DEF machine_ip, machine_sp, machine_cp, machine_stack, machine_call,
         Failed

-----------------------------------------------------------------------------
(* Fetching and leaving an instruction.                                    *)

\* A word of the loaded line is the word of the code at its address.
LEMMA CodeWord ==
  ASSUME NEW p \in Nat PROVE CodeLine(LineOf(p))[Ofs(p)] = CodeAt(p)
<1>1. LineOf(p) \in Int /\ Ofs(p) \in 0 .. 3 /\ p = 4 * LineOf(p) + Ofs(p)
  BY LineOfs
<1> QED
  BY <1>1 DEF CodeLine

\* The opcode is the one the machine fetches.
LEMMA FetchRefined ==
  ASSUME RefInv, NEW op, Dispatch(op)
  PROVE  /\ pc = "exec" /\ error_code = 0 /\ ~halt_flag
         /\ Machine!Fetch(op)
<1>1. pc = "exec" /\ error_code = 0 /\ ~halt_flag
  BY DEF Dispatch, RefInv, ModeOK
<1>2. rinstr_line[Ofs(cur_instr_ptr)] = CodeAt(cur_instr_ptr)
  BY <1>1, CodeWord DEF RefInv, FetchOK, IndInv, InstrOK
<1>3. Machine!CodeAt(machine_ip) = CodeAt(cur_instr_ptr)
  BY <1>1, CycleView DEF Machine!CodeAt, CodeAt
<1>4. machine_status = "running"
  BY <1>1, StatusView
<1>5. Machine!Readings(CodeAt(cur_instr_ptr)) = Readings(CodeAt(cur_instr_ptr))
  BY DEF Machine!Readings, Readings, Machine!Word, Word
<1> QED
  BY <1>1, <1>2, <1>3, <1>4, <1>5 DEF Dispatch, Machine!Fetch

\* inc_instr_ptr finds the line of the address it moves to.
LEMMA InstrLineRight ==
  ASSUME RefInv, pc = "exec", NEW p \in Nat
  PROVE  InstrLineAt(p) = CodeLine(LineOf(p))
  BY DEF RefInv, FetchOK, InstrLineAt

\* The operand is the one of the machine.
LEMMA OperandRefined ==
  ASSUME RefInv, pc = "exec" PROVE Operand = Machine!Operand
<1> DEFINE p == cur_instr_ptr + 1
<1>1. p \in Nat /\ machine_ip + 1 = p
  BY CycleView DEF RefInv, IndInv, InstrOK, ModeOK
<1>2. InstrLineAt(p)[Ofs(p)] = CodeAt(p)
  BY <1>1, InstrLineRight, CodeWord
<1>3. Machine!CodeAt(p) = CodeAt(p) /\ Machine!Mapped(p) = Mapped(p)
  BY DEF Machine!CodeAt, CodeAt, Machine!Mapped, Mapped
<1>4. Machine!Readings(CodeAt(p)) = Readings(CodeAt(p))
  BY DEF Machine!Readings, Readings, Machine!Word, Word
<1> QED
  BY <1>1, <1>2, <1>3, <1>4 DEF Operand, Machine!Operand

\* What goto_next_instr and the jumps leave behind.
Resumed ==
  /\ pc' \in {"exec", "outro", "oops"}
  /\ error_code' = 0
  /\ FetchOK' /\ ModeOK'

\* goto_next_instr goes on as the machine does.
LEMMA NextRefined ==
  ASSUME RefInv, pc = "exec", NEW p \in Nat, NextInstr(p)
  PROVE  Machine!Continue(p) /\ Resumed
<1>1. error_code = 0 /\ ~halt_flag /\ machine_ip = cur_instr_ptr
  BY CycleView DEF RefInv, ModeOK
<1>2. /\ error_code' = 0 /\ ~halt_flag' /\ code_seg' = code_seg /\ argv' = argv
      /\ error_code' = error_code
  BY <1>1 DEF NextInstr, context
<1>3. Machine!Mapped(p) = Mapped(p)
  BY DEF Machine!Mapped, Mapped
<1>4. CASE Mapped(p)
  <2>1. cur_instr_ptr' = p /\ rinstr_line' = CodeLine(LineOf(p))
    BY <1>4, InstrLineRight DEF NextInstr
  <2>2. pc' \in {"exec", "outro"}
    BY <1>4 DEF NextInstr, CountInstr
  <2>3. CodeLine(LineOf(p))' = CodeLine(LineOf(p))
    BY <1>2 DEF CodeLine, CodeAt
  <2>4. FetchOK' /\ ModeOK'
    BY <1>2, <2>1, <2>2, <2>3 DEF FetchOK, ModeOK, CodeLine, CodeAt
  <2>5. machine_ip' = p /\ machine_status' = "running"
    BY <1>2, <2>1, <2>2, CycleViewNext, StatusView
  <2> QED
    BY <1>2, <1>3, <1>4, <2>2, <2>4, <2>5 DEF Machine!Continue, Resumed
<1>5. CASE ~Mapped(p)
  <2>1. pc' = "oops" /\ cur_instr_ptr' = cur_instr_ptr
    BY <1>5 DEF NextInstr, instrregs
  <2>2. FetchOK' /\ ModeOK'
    BY <1>2, <2>1 DEF FetchOK, ModeOK
  <2>3. machine_ip' = machine_ip /\ machine_status' = "oops"
    BY <1>1, <1>2, <2>1, CycleViewNext, StatusView
  <2> QED
    BY <1>2, <1>3, <1>5, <2>1, <2>2, <2>3 DEF Machine!Continue, Resumed
<1> QED
  BY <1>4, <1>5

\* A jump inside the code goes on as the machine does.
LEMMA JumpRefined ==
  ASSUME RefInv, pc = "exec", NEW t \in Nat, ~JmpBounds(t), JumpTo(t)
  PROVE  Machine!Continue(t) /\ Resumed
<1>1. error_code = 0 /\ ~halt_flag
  BY DEF RefInv, ModeOK
<1>2. /\ error_code' = 0 /\ ~halt_flag' /\ code_seg' = code_seg /\ argv' = argv
      /\ error_code' = error_code
  BY <1>1 DEF JumpTo, context
<1>3. Len(code_seg) \in Nat
  BY InterpreterAssumption DEF RefInv, IndInv, ContextOK
<1>4. Machine!Mapped(t)
  BY <1>3, InterpreterAssumption DEF JmpBounds, Machine!Mapped
<1>5. cur_instr_ptr' = t /\ pc' \in {"exec", "outro"}
  BY DEF JumpTo, CountInstr
<1>6. FetchOK' /\ ModeOK'
  BY <1>2, <1>5 DEF JumpTo, FetchOK, ModeOK, CodeLine, CodeAt
<1>7. machine_ip' = t /\ machine_status' = "running"
  BY <1>2, <1>5, CycleViewNext, StatusView
<1> QED
  BY <1>2, <1>4, <1>5, <1>6, <1>7 DEF Machine!Continue, Resumed

\* The error exits halt the machine with the same error.
LEMMA ErrorRefined ==
  ASSUME RefInv, NEW err \in 1 .. 8, Error(err)
  PROVE  Machine!Fail(err) /\ FetchOK' /\ ModeOK'
<1>1. error_code' = err /\ halt_flag' = TRUE /\ pc' = "check"
  BY DEF Error
<1>2. machine_status' = "halted"
  BY <1>1, StatusView
<1>3. /\ code_seg' = code_seg /\ argv' = argv
      /\ print_seg' = print_seg /\ print_ptr' = print_ptr
  BY DEF Error, context, printstate
<1>4. FetchOK' /\ ModeOK'
  BY <1>1 DEF FetchOK, ModeOK
<1> QED
  BY <1>1, <1>2, <1>3, <1>4, FailedView DEF Machine!Fail

-----------------------------------------------------------------------------
(* The operand stack.                                                      *)

\* The word of the stack at address i.
StackCell(i) == IF LineOf(i) = LineOf(cur_stack_ptr) THEN rstack_line[Ofs(i)]
                ELSE stack_seg[i]

CurStack == StackView(stack_seg, rstack_line, cur_stack_ptr)

\* Up to the stack pointer the view has the words of the stack.
LEMMA CurStackCells ==
  ASSUME NEW i \in StackSlots
  PROVE  CurStack[i] = IF i <= cur_stack_ptr THEN StackCell(i) ELSE Junk
  BY DEF CurStack, StackView, StackCell

\* The machine overflows when inc_stack_ptr does.
LEMMA OverflowRefined ==
  ASSUME StackOK
  PROVE  StackOverflow <=> cur_stack_ptr + 1 \notin Machine!StackSlots
  BY InterpreterAssumption DEF StackOK, StackSlots, Machine!StackSlots, StackOverflow, Ofs

\* inc_stack_ptr and ins_stack push a word.
LEMMA PushView ==
  ASSUME StackOK, ~StackOverflow, NEW v, PushStack(v)
  PROVE  /\ cur_stack_ptr' = cur_stack_ptr + 1
         /\ CurStack' = [CurStack EXCEPT ![cur_stack_ptr + 1] = v]
<1> DEFINE p == cur_stack_ptr
           q == cur_stack_ptr + 1
<1>1. p \in StackSlots /\ q \in StackSlots /\ p \in Nat
  BY InterpreterAssumption DEF StackOK, StackSlots, StackOverflow, Ofs
<1>2. /\ cur_stack_ptr' = q
      /\ rstack_line' = [rstack_line EXCEPT ![Ofs(q)] = v]
      /\ stack_seg' = StackSegAfterInc
  BY DEF PushStack
<1>3. DOMAIN rstack_line = 0 .. 3 /\ DOMAIN stack_seg = StackSlots
  BY DEF StackOK, Line
<1>4. ASSUME NEW i \in StackSlots
      PROVE  (IF i <= q THEN (IF LineOf(i) = LineOf(q) THEN rstack_line'[Ofs(i)]
                              ELSE stack_seg'[i]) ELSE Junk)
             = IF i = q THEN v ELSE CurStack[i]
  <2>1. i \in Nat /\ Ofs(i) \in 0 .. 3 /\ Ofs(q) \in 0 .. 3
    BY <1>1 DEF StackSlots, Ofs
  <2>2. CASE i = q
    BY <1>1, <1>2, <1>3, <2>1, <2>2
  <2>3. CASE i > q
    BY <1>1, <2>1, <2>3, CurStackCells
  <2>4. CASE i < q /\ LineOf(i) = LineOf(q)
    <3>1. i <= p /\ LineOf(i) = LineOf(p) /\ Ofs(i) # Ofs(q)
      BY <1>1, <2>1, <2>4 DEF LineOf, Ofs
    <3>2. rstack_line'[Ofs(i)] = rstack_line[Ofs(i)]
      BY <1>2, <1>3, <2>1, <3>1
    <3> QED
      BY <1>1, <2>1, <2>4, <3>1, <3>2, CurStackCells DEF StackCell
  <2>5. CASE i < q /\ LineOf(i) # LineOf(q)
    <3>1. i <= p /\ LineOf(i) # LineOf(p) + 1 /\ (LineOf(i) = LineOf(p) => Ofs(p) = 3)
      BY <1>1, <2>1, <2>5 DEF LineOf, Ofs
    <3>2. stack_seg'[i] = StackCell(i)
      <4>1. CASE Ofs(p) = 3
        BY <1>2, <1>3, <3>1, <4>1
           DEF StackSegAfterInc, WriteLine, WriteChain, StackCell
      <4>2. CASE Ofs(p) # 3
        BY <1>2, <3>1, <4>2 DEF StackSegAfterInc, StackCell
      <4> QED
        BY <4>1, <4>2
    <3> QED
      BY <1>1, <2>1, <2>5, <3>1, <3>2, CurStackCells
  <2> QED
    BY <1>1, <2>1, <2>2, <2>3, <2>4, <2>5
<1>5. CurStack' = [i \in StackSlots |-> IF i = q THEN v ELSE CurStack[i]]
  BY <1>2, <1>4 DEF CurStack, StackView
<1> QED
  BY <1>1, <1>2, <1>5 DEF CurStack, StackView

\* Below the stack pointer dec_stack_ptr has the words of the stack at hand.
LEMMA StackLineCells ==
  ASSUME StackOK, NEW q \in StackSlots, q <= cur_stack_ptr,
         NEW i \in StackSlots, i <= q
  PROVE  (IF LineOf(i) = LineOf(q) THEN StackLineAt(q)[Ofs(i)] ELSE stack_seg[i])
         = CurStack[i]
<1>1. i \in Nat /\ q \in Nat /\ cur_stack_ptr \in Nat
  BY DEF StackOK, StackSlots
<1>2. CurStack[i] = StackCell(i)
  BY <1>1, CurStackCells
<1>3. Ofs(i) \in 0 .. 3 /\ i = 4 * LineOf(i) + Ofs(i)
  BY <1>1, LineOfs
<1>4. CASE LineOf(q) = LineOf(cur_stack_ptr)
  BY <1>2, <1>4 DEF StackLineAt, StackCell
<1>5. CASE LineOf(q) # LineOf(cur_stack_ptr)
  <2>1. LineOf(i) # LineOf(cur_stack_ptr)
    BY <1>1, <1>5 DEF LineOf
  <2>2. StackLineAt(q) = ReadLine(stack_seg, LineOf(q))
    BY <1>5 DEF StackLineAt
  <2>3. LineOf(i) = LineOf(q) => ReadLine(stack_seg, LineOf(q))[Ofs(i)] = stack_seg[i]
    BY <1>3 DEF ReadLine
  <2> QED
    BY <1>2, <2>1, <2>2, <2>3 DEF StackCell
<1> QED
  BY <1>4, <1>5

\* extr_stack reads the topmost words of the machine's stack.
LEMMA TopView ==
  ASSUME StackOK
  PROVE  /\ Top = CurStack[cur_stack_ptr]
         /\ cur_stack_ptr >= 1 => Second = CurStack[cur_stack_ptr - 1]
<1>1. cur_stack_ptr \in StackSlots /\ cur_stack_ptr \in Nat
  BY DEF StackOK, StackSlots
<1>2. Top = CurStack[cur_stack_ptr]
  BY <1>1, CurStackCells DEF StackCell, Top
<1>3. ASSUME cur_stack_ptr >= 1 PROVE Second = CurStack[cur_stack_ptr - 1]
  <2>1. cur_stack_ptr - 1 \in StackSlots /\ cur_stack_ptr - 1 <= cur_stack_ptr
    BY <1>1, <1>3, InterpreterAssumption DEF StackSlots
  <2>2. cur_stack_ptr - 1 <= cur_stack_ptr - 1
    BY <1>1
  <2> QED
    BY <2>1, <2>2, StackLineCells DEF Second
<1> QED
  BY <1>2, <1>3

\* Popping n words and leaving v on the top of the rest.
LEMMA PopView ==
  ASSUME StackOK, NEW n \in Nat, cur_stack_ptr >= n, NEW v,
         cur_stack_ptr' = cur_stack_ptr - n,
         stack_seg' = stack_seg,
         rstack_line' = [StackLineAt(cur_stack_ptr - n)
                           EXCEPT ![Ofs(cur_stack_ptr - n)] = v]
  PROVE  CurStack' = [i \in StackSlots |->
                        IF i < cur_stack_ptr - n THEN CurStack[i]
                        ELSE IF i = cur_stack_ptr - n THEN v ELSE Junk]
<1> DEFINE q == cur_stack_ptr - n
<1>1. q \in StackSlots /\ q \in Nat /\ q <= cur_stack_ptr
  BY InterpreterAssumption DEF StackOK, StackSlots
<1>2. DOMAIN StackLineAt(q) = 0 .. 3
  BY <1>1, StackLineType DEF Line
<1>3. ASSUME NEW i \in StackSlots
      PROVE  (IF i <= q THEN (IF LineOf(i) = LineOf(q) THEN rstack_line'[Ofs(i)]
                              ELSE stack_seg[i]) ELSE Junk)
             = IF i < q THEN CurStack[i] ELSE IF i = q THEN v ELSE Junk
  <2>1. i \in Nat /\ Ofs(i) \in 0 .. 3 /\ Ofs(q) \in 0 .. 3
    BY <1>1 DEF StackSlots, Ofs
  <2>2. CASE i = q
    BY <1>1, <1>2, <2>1, <2>2
  <2>3. CASE i < q
    <3>1. LineOf(i) = LineOf(q) => Ofs(i) # Ofs(q)
      BY <1>1, <2>1, <2>3, LineOfs
    <3>2. LineOf(i) = LineOf(q) => rstack_line'[Ofs(i)] = StackLineAt(q)[Ofs(i)]
      BY <1>2, <2>1, <3>1
    <3>3. (IF LineOf(i) = LineOf(q) THEN StackLineAt(q)[Ofs(i)] ELSE stack_seg[i])
          = CurStack[i]
      BY <1>1, <2>1, <2>3, StackLineCells
    <3> QED
      BY <1>1, <2>1, <2>3, <3>2, <3>3
  <2> QED
    BY <1>1, <2>1, <2>2, <2>3
<1> QED
  BY <1>3 DEF CurStack, StackView

\* dec_stack_ptr only takes words away.
LEMMA PopStackView ==
  ASSUME StackOK, NEW n \in Nat, cur_stack_ptr >= n, PopStack(n)
  PROVE  /\ cur_stack_ptr' = cur_stack_ptr - n
         /\ CurStack' = [i \in StackSlots |->
                           IF i < cur_stack_ptr - n THEN CurStack[i]
                           ELSE IF i = cur_stack_ptr - n
                           THEN CurStack[cur_stack_ptr - n] ELSE Junk]
<1> DEFINE q == cur_stack_ptr - n
<1>1. q \in StackSlots /\ q \in Nat /\ q <= cur_stack_ptr
  BY InterpreterAssumption DEF StackOK, StackSlots
<1>2. StackLineAt(q) \in Line /\ Ofs(q) \in 0 .. 3
  BY <1>1, StackLineType, LineOfs
<1>3. StackLineAt(q)[Ofs(q)] = CurStack[q]
  BY <1>1, StackLineCells
<1>4. StackLineAt(q) = [StackLineAt(q) EXCEPT ![Ofs(q)] = CurStack[q]]
  BY <1>2, <1>3 DEF Line
<1>5. /\ cur_stack_ptr' = q /\ stack_seg' = stack_seg
      /\ rstack_line' = StackLineAt(q)
  BY DEF PopStack
<1> QED
  BY <1>4, <1>5, PopView

-----------------------------------------------------------------------------
(* The call stack.                                                         *)

\* The word of the call stack at address i.
CallCell(i) == IF LineOf(i) = cur_call_line THEN rcall_line[Ofs(i)] ELSE call_seg[i]

CurCall == CallView(call_seg, rcall_line, cur_call_line, cur_call_ptr)

\* Up to the call pointer the view has the words of the call stack.
LEMMA CurCallCells ==
  ASSUME NEW i \in CallSlots
  PROVE  CurCall[i] = IF i <= cur_call_ptr THEN CallCell(i) ELSE Junk
  BY DEF CurCall, CallView, CallCell

\* Writing a line back and encrypting the lines up to e again leaves every
\* word up to line e readable, and the line written has its new content.
LEMMA ChainCells ==
  ASSUME NEW seg \in [CallSlots -> WordJ], NEW l, NEW line,
         NEW e \in Int, NEW i \in CallSlots, LineOf(i) <= e
  PROVE  WriteChain(seg, l, line, e)[i]
         = IF LineOf(i) = l THEN line[Ofs(i)] ELSE seg[i]
<1>1. LineOf(i) \in Int
  BY LineOfs DEF CallSlots
<1>2. LineOf(i) # e + 1
  BY <1>1
<1> QED
  BY <1>2 DEF WriteChain

\* Loading a line of a segment is reading its words.
LEMMA LoadedCells ==
  ASSUME NEW seg, NEW l, NEW i \in CallSlots, LineOf(i) = l
  PROVE  ReadLine(seg, l)[Ofs(i)] = seg[i]
<1>1. Ofs(i) \in 0 .. 3 /\ i = 4 * LineOf(i) + Ofs(i)
  BY LineOfs DEF CallSlots
<1> QED
  BY <1>1 DEF ReadLine

\* fetch_call_line moves words between memory and register, and changes none
\* up to the line of the call pointer.
LEMMA FetchCallCells ==
  ASSUME CallOK, NEW p \in CallSlots, cur_call_ptr <= p,
         NEW l \in 0 .. CallLines - 1,
         NEW i \in CallSlots, LineOf(i) <= LineOf(p)
  PROVE  (IF LineOf(i) = l THEN CallLineFor(p, l)[Ofs(i)] ELSE CallSegFor(p, l)[i])
         = CallCell(i)
<1>1. CASE l = cur_call_line
  BY <1>1 DEF CallLineFor, CallSegFor, CallCell
<1>2. CASE l # cur_call_line
  <2>1. LineOf(p) \in Int
    BY LineOfs DEF CallSlots
  <2>2. CallSegFor(p, l) = WriteChain(call_seg, cur_call_line, rcall_line, LineOf(p))
    BY <1>2 DEF CallSegFor
  <2>3. CallSegFor(p, l)[i] = CallCell(i)
    BY <2>1, <2>2, ChainCells DEF CallOK, CallCell
  <2>4. CallLineFor(p, l) = ReadLine(CallSegFor(p, l), l)
    BY <1>2 DEF CallLineFor
  <2> QED
    BY <2>3, <2>4, LoadedCells
<1> QED
  BY <1>1, <1>2

\* Addresses below the call pointer are on lines below its line.
LEMMA LineMonotonic ==
  ASSUME NEW i \in Int, NEW p \in Int, i <= p PROVE LineOf(i) <= LineOf(p)
  BY DEF LineOf

\* Loading another line for a read leaves the call stack as it is.
LEMMA LoadView ==
  ASSUME CallOK, NEW q \in CallSlots, q <= cur_call_ptr,
         call_seg' = CallSegFor(cur_call_ptr, LineOf(q)),
         rcall_line' = CallLineFor(cur_call_ptr, LineOf(q)),
         cur_call_line' = LineOf(q),
         cur_call_ptr' = cur_call_ptr
  PROVE  /\ CurCall' = CurCall
         /\ CallLineFor(cur_call_ptr, LineOf(q))[Ofs(q)] = CurCall[q]
<1>1. cur_call_ptr \in CallSlots /\ cur_call_ptr \in Int /\ cur_call_ptr <= cur_call_ptr
  BY DEF CallOK, CallSlots
<1>2. LineOf(q) \in 0 .. CallLines - 1
  BY CallLineRange
<1>3. ASSUME NEW i \in CallSlots, i <= cur_call_ptr
      PROVE  (IF LineOf(i) = LineOf(q) THEN CallLineFor(cur_call_ptr, LineOf(q))[Ofs(i)]
              ELSE CallSegFor(cur_call_ptr, LineOf(q))[i])
             = CallCell(i)
  <2>1. LineOf(i) <= LineOf(cur_call_ptr)
    BY <1>1, <1>3, LineMonotonic DEF CallSlots
  <2> QED
    BY <1>1, <1>2, <2>1, FetchCallCells
<1>4. CurCall' = CurCall
  BY <1>3 DEF CurCall, CallView, CallCell
<1> QED
  BY <1>3, <1>4, CurCallCells

\* save_call_element writes one word of the call stack.
LEMMA SaveView ==
  ASSUME CallOK, NEW p \in CallSlots, cur_call_ptr <= p,
         NEW q \in CallSlots, q <= p, NEW v,
         SaveCallElement(p, q, v), cur_call_ptr' = p
  PROVE  CurCall' = [i \in CallSlots |->
                       IF i = q THEN v ELSE IF i <= p THEN CallCell(i) ELSE Junk]
<1> DEFINE l == LineOf(q)
<1>1. l \in 0 .. CallLines - 1
  BY CallLineRange
<1>2. DOMAIN CallLineFor(p, l) = 0 .. 3
  BY <1>1, FetchCallLineType DEF Line
<1>3. /\ call_seg' = CallSegFor(p, l)
      /\ rcall_line' = [CallLineFor(p, l) EXCEPT ![Ofs(q)] = v]
      /\ cur_call_line' = l
  BY DEF SaveCallElement
<1>4. ASSUME NEW i \in CallSlots, i <= p
      PROVE  (IF LineOf(i) = l THEN rcall_line'[Ofs(i)] ELSE call_seg'[i])
             = IF i = q THEN v ELSE CallCell(i)
  <2>1. i \in Int /\ q \in Int /\ p \in Int
    BY DEF CallSlots
  <2>2. Ofs(i) \in 0 .. 3 /\ Ofs(q) \in 0 .. 3
    BY <2>1, LineOfs
  <2>3. CASE i = q
    BY <1>2, <1>3, <2>2, <2>3
  <2>4. CASE i # q
    <3>1. LineOf(i) = l => Ofs(i) # Ofs(q)
      BY <2>1, <2>4, LineOfs
    <3>2. LineOf(i) = l => rcall_line'[Ofs(i)] = CallLineFor(p, l)[Ofs(i)]
      BY <1>2, <1>3, <2>2, <3>1
    <3>3. LineOf(i) <= LineOf(p)
      BY <1>4, <2>1, LineMonotonic
    <3>4. (IF LineOf(i) = l THEN CallLineFor(p, l)[Ofs(i)] ELSE CallSegFor(p, l)[i])
          = CallCell(i)
      BY <1>1, <3>3, FetchCallCells
    <3> QED
      BY <1>3, <2>4, <3>2, <3>4
  <2> QED
    BY <2>3, <2>4
<1> QED
  BY <1>3, <1>4 DEF CurCall, CallView

\* dec_call_ptr takes words away, whichever line was loaded.
LEMMA DecView ==
  ASSUME cur_call_ptr \in CallSlots, NEW n \in Nat, n <= cur_call_ptr,
         NEW seg \in [CallSlots -> WordJ], NEW line, NEW l,
         \A i \in CallSlots : i <= cur_call_ptr =>
           (IF LineOf(i) = l THEN line[Ofs(i)] ELSE seg[i]) = CurCall[i],
         DecCallPtr(n, seg, line, l)
  PROVE  /\ cur_call_ptr' = cur_call_ptr - n
         /\ CurCall' = [i \in CallSlots |->
                          IF i <= cur_call_ptr - n THEN CurCall[i] ELSE Junk]
<1> DEFINE q == cur_call_ptr - n
           flushed == WriteChain(seg, l, line, LineOf(cur_call_ptr))
<1>1. q \in CallSlots /\ q <= cur_call_ptr /\ cur_call_ptr \in Int
  BY InterpreterAssumption DEF CallSlots
<1>2. cur_call_ptr' = q
  BY DEF DecCallPtr
<1>3. ASSUME NEW i \in CallSlots, i <= q
      PROVE  (IF LineOf(i) = cur_call_line' THEN rcall_line'[Ofs(i)] ELSE call_seg'[i])
             = CurCall[i]
  <2>1. i <= cur_call_ptr /\ i \in Int
    BY <1>1, <1>3 DEF CallSlots
  <2>2. CASE 4 * l <= q
    <3>1. call_seg' = seg /\ rcall_line' = line /\ cur_call_line' = l
      BY <2>2 DEF DecCallPtr
    <3> QED
      BY <2>1, <3>1
  <2>3. CASE ~(4 * l <= q)
    <3>1. /\ call_seg' = flushed
          /\ rcall_line' = ReadLine(flushed, LineOf(q))
          /\ cur_call_line' = LineOf(q)
      BY <2>3 DEF DecCallPtr
    <3>2. LineOf(i) <= LineOf(cur_call_ptr) /\ LineOf(cur_call_ptr) \in Int
      BY <1>1, <2>1, LineMonotonic, LineOfs
    <3>3. flushed[i] = CurCall[i]
      BY <2>1, <3>2, ChainCells
    <3>4. LineOf(i) = LineOf(q) => ReadLine(flushed, LineOf(q))[Ofs(i)] = flushed[i]
      BY LoadedCells
    <3> QED
      BY <3>1, <3>3, <3>4
  <2> QED
    BY <2>2, <2>3
<1> QED
  BY <1>2, <1>3 DEF CurCall, CallView

\* inc_call_ptr exposes words and hides none.
LEMMA IncView ==
  ASSUME CallOK, NEW q \in CallSlots, cur_call_ptr <= q,
         cur_call_ptr' = q, cur_call_line' = cur_call_line,
         rcall_line' = rcall_line, call_seg' = call_seg
  PROVE  /\ CurCall' \in [CallSlots -> WordJ]
         /\ \A i \in CallSlots : /\ i <= cur_call_ptr => CurCall'[i] = CurCall[i]
                                 /\ i > q => CurCall'[i] = Junk
<1>1. CurCall' = [i \in CallSlots |-> IF i <= q THEN CallCell(i) ELSE Junk]
  BY DEF CurCall, CallView, CallCell
<1>2. ASSUME NEW i \in CallSlots PROVE CallCell(i) \in WordJ
  <2>1. Ofs(i) \in 0 .. 3
    BY LineOfs DEF CallSlots
  <2> QED
    BY <2>1 DEF CallCell, CallOK, Line
<1>3. CurCall' \in [CallSlots -> WordJ]
  BY <1>1, <1>2 DEF WordJ
<1>4. ASSUME NEW i \in CallSlots
      PROVE  /\ i <= cur_call_ptr => CurCall'[i] = CurCall[i]
             /\ i > q => CurCall'[i] = Junk
  <2>1. i \in Int /\ q \in Int /\ cur_call_ptr \in Int
    BY DEF CallOK, CallSlots
  <2> QED
    BY <1>1, <2>1, CurCallCells
<1> QED
  BY <1>3, <1>4

-----------------------------------------------------------------------------
(* What the proofs about the instructions have in common.                  *)

\* The machine's copy of Bytecode has the same operators.
LEMMA SameBytecode ==
  /\ \A d : Machine!Displacement(d) = Displacement(d)
  /\ \A w : Machine!Readings(w) = Readings(w)
  /\ \A op, l, r : Machine!Arith(op, l, r) = Arith(op, l, r)
  /\ \A op, l, r : Machine!Outcomes(op, l, r) = Outcomes(op, l, r)
  /\ Machine!StackSlots = StackSlots
  /\ Machine!CallSlots = CallSlots
  /\ Machine!WordJ = WordJ
<1>1. \A d : Machine!Displacement(d) = Displacement(d)
  BY DEF Machine!Displacement, Displacement
<1>2. \A w : Machine!Readings(w) = Readings(w)
  BY DEF Machine!Readings, Readings, Machine!Word, Word
<1>3. \A op, l, r : Machine!Arith(op, l, r) = Arith(op, l, r)
  BY DEF Machine!Arith, Arith, Machine!INSTR_ADD, INSTR_ADD, Machine!INSTR_SUB, INSTR_SUB,
         Machine!INSTR_MUL, INSTR_MUL, Machine!INSTR_DIV, INSTR_DIV,
         Machine!INSTR_MOD, INSTR_MOD
<1>4. \A op, l, r : Machine!Compare(op, l, r) = Compare(op, l, r)
  BY DEF Machine!Compare, Compare, Machine!Signed, Signed, Machine!INSTR_JEQ, INSTR_JEQ,
         Machine!INSTR_JNE, INSTR_JNE, Machine!INSTR_JL, INSTR_JL,
         Machine!INSTR_JLE, INSTR_JLE, Machine!INSTR_JG, INSTR_JG,
         Machine!INSTR_JGE, INSTR_JGE
<1>5. \A op, l, r : Machine!Outcomes(op, l, r) = Outcomes(op, l, r)
  BY <1>4 DEF Machine!Outcomes, Outcomes
<1>6. /\ Machine!StackSlots = StackSlots
      /\ Machine!CallSlots = CallSlots
      /\ Machine!WordJ = WordJ
  BY DEF Machine!StackSlots, StackSlots, Machine!CallSlots, CallSlots, Machine!WordJ,
         WordJ, Machine!Word, Word
<1> QED
  BY <1>1, <1>2, <1>3, <1>5, <1>6

\* The state of the machine when an instruction is executed.
LEMMA Executing ==
  ASSUME RefInv, pc = "exec"
  PROVE  /\ machine_ip = cur_instr_ptr /\ cur_instr_ptr \in Nat
         /\ machine_sp = cur_stack_ptr /\ cur_stack_ptr \in Nat
         /\ machine_cp = cur_call_ptr /\ cur_call_ptr \in Nat
         /\ machine_stack = CurStack
         /\ machine_call = CurCall
         /\ StackOK /\ CallOK
         /\ Len(code_seg) \in Nat /\ Len(argv) \in Nat
         /\ Operand = Machine!Operand /\ Operand \subseteq Word
<1>1. error_code = 0
  BY DEF RefInv, ModeOK
<1>2. cur_instr_ptr \in Nat /\ cur_stack_ptr \in Nat /\ cur_call_ptr \in Nat
  BY DEF RefInv, IndInv, InstrOK, StackOK, CallOK, StackSlots, CallSlots
<1>3. Len(code_seg) \in Nat /\ Len(argv) \in Nat
  BY InterpreterAssumption DEF RefInv, IndInv, ContextOK
<1>4. Operand \subseteq Word
  BY OperandType DEF RefInv, IndInv
<1> QED
  BY <1>1, <1>2, <1>3, <1>4, CycleView, OperandRefined
     DEF CurStack, CurCall, RefInv, IndInv

\* The state of the machine when the program goes on.
LEMMA Resuming ==
  ASSUME Resumed
  PROVE  /\ machine_sp' = cur_stack_ptr' /\ machine_stack' = CurStack'
         /\ machine_cp' = cur_call_ptr' /\ machine_call' = CurCall'
         /\ FetchOK' /\ ModeOK'
  BY CycleViewNext DEF Resumed, CurStack, CurCall

\* What an instruction does not touch.
LEMMA Kept ==
  ASSUME RefInv, pc = "exec", Resumed
  PROVE  /\ UNCHANGED stackstate => UNCHANGED Machine!stackvars
         /\ UNCHANGED callstate => UNCHANGED Machine!callvars
         /\ UNCHANGED printstate => UNCHANGED Machine!printvars
<1>1. ASSUME UNCHANGED stackstate PROVE UNCHANGED Machine!stackvars
  <2>1. CurStack' = CurStack /\ cur_stack_ptr' = cur_stack_ptr
    BY <1>1 DEF stackstate, CurStack, StackView
  <2> QED
    BY <2>1, Executing, Resuming DEF Machine!stackvars
<1>2. ASSUME UNCHANGED callstate PROVE UNCHANGED Machine!callvars
  <2>1. CurCall' = CurCall /\ cur_call_ptr' = cur_call_ptr
    BY <1>2 DEF callstate, CurCall, CallView
  <2> QED
    BY <2>1, Executing, Resuming DEF Machine!callvars
<1>3. ASSUME UNCHANGED printstate PROVE UNCHANGED Machine!printvars
  BY <1>3 DEF printstate, Machine!printvars
<1> QED
  BY <1>1, <1>2, <1>3

\* Pushing a word.
LEMMA PushRefined ==
  ASSUME RefInv, pc = "exec", Resumed, ~StackOverflow, NEW v, PushStack(v)
  PROVE  Machine!Push(v)
  BY Executing, Resuming, PushView DEF Machine!Push

\* Popping words.
LEMMA PopRefined ==
  ASSUME RefInv, pc = "exec", Resumed, NEW n \in Nat, cur_stack_ptr >= n, PopStack(n)
  PROVE  Machine!Pop(n)
  BY Executing, Resuming, PopStackView, SameBytecode DEF Machine!Pop, Machine!PopAndSet

-----------------------------------------------------------------------------
(* The instructions, one by one.                                           *)

\* NOP
LEMMA NopRefined ==
  ASSUME RefInv, instr_nop PROVE Machine!Nop /\ FetchOK' /\ ModeOK'
<1>1. pc = "exec" /\ Machine!Fetch(Machine!INSTR_NOP)
  BY FetchRefined DEF instr_nop, INSTR_NOP, Machine!INSTR_NOP
<1>2. machine_ip = cur_instr_ptr /\ cur_instr_ptr + 1 \in Nat
  BY <1>1, Executing
<1>3. Machine!Continue(machine_ip + 1) /\ Resumed
  BY <1>1, <1>2, NextRefined DEF instr_nop
<1>4. UNCHANGED <<Machine!stackvars, Machine!callvars, Machine!printvars>>
  BY <1>1, <1>3, Kept DEF instr_nop
<1> QED
  BY <1>1, <1>3, <1>4, Resuming DEF Machine!Nop

\* FINISH
LEMMA FinishRefined ==
  ASSUME RefInv, instr_finish PROVE Machine!Finish /\ FetchOK' /\ ModeOK'
<1>1. pc = "exec" /\ error_code = 0 /\ Machine!Fetch(Machine!INSTR_FINISH)
  BY FetchRefined DEF instr_finish, INSTR_FINISH, Machine!INSTR_FINISH
<1>2. /\ pc' = "outro" /\ halt_flag' = TRUE /\ error_code' = 0 /\ error_code' = error_code
      /\ code_seg' = code_seg /\ argv' = argv /\ cur_instr_ptr' = cur_instr_ptr
  BY <1>1 DEF instr_finish, context, instrregs
<1>3. FetchOK' /\ ModeOK'
  BY <1>2 DEF FetchOK, ModeOK
<1>4. Resumed
  BY <1>2, <1>3 DEF Resumed
<1>5. machine_status' = "halted" /\ machine_ip' = machine_ip
  BY <1>1, <1>2, StatusView, CycleViewNext, Executing
<1>6. UNCHANGED <<Machine!stackvars, Machine!callvars, Machine!printvars>>
  BY <1>1, <1>4, Kept DEF instr_finish
<1> QED
  BY <1>1, <1>2, <1>3, <1>5, <1>6 DEF Machine!Finish

\* PUSH
LEMMA PushConstRefined ==
  ASSUME RefInv, instr_push PROVE Machine!PushConst /\ FetchOK' /\ ModeOK'
<1>1. pc = "exec" /\ Machine!Fetch(Machine!INSTR_PUSH)
  BY FetchRefined DEF instr_push, INSTR_PUSH, Machine!INSTR_PUSH
<1>2. PICK d \in Operand :
        IF StackOverflow
        THEN /\ Error(ERR_STACK_OVERFLOW)
             /\ stack_seg' = StackSegAfterInc
             /\ UNCHANGED call_seg
        ELSE /\ PushStack(d)
             /\ NextInstr(cur_instr_ptr + 2)
             /\ UNCHANGED <<callstate, printstate>>
  BY DEF instr_push
<1>3. d \in Machine!Operand /\ machine_ip = cur_instr_ptr /\ machine_sp = cur_stack_ptr
  BY <1>1, Executing
<1>4. StackOverflow <=> machine_sp + 1 \notin Machine!StackSlots
  BY <1>1, <1>3, Executing, OverflowRefined
<1>5. CASE StackOverflow
  <2>1. Machine!Fail(Machine!ERR_STACK_OVERFLOW) /\ FetchOK' /\ ModeOK'
    BY <1>2, <1>5, ErrorRefined DEF ERR_STACK_OVERFLOW, Machine!ERR_STACK_OVERFLOW
  <2> QED
    BY <1>1, <1>3, <1>4, <1>5, <2>1 DEF Machine!PushConst
<1>6. CASE ~StackOverflow
  <2>1. cur_instr_ptr + 2 \in Nat
    BY <1>1, Executing
  <2>2. Machine!Continue(machine_ip + 2) /\ Resumed
    BY <1>1, <1>2, <1>3, <1>6, <2>1, NextRefined
  <2>3. Machine!Push(d)
    BY <1>1, <1>2, <1>6, <2>2, PushRefined
  <2>4. UNCHANGED <<Machine!callvars, Machine!printvars>>
    BY <1>1, <1>2, <1>6, <2>2, Kept
  <2> QED
    BY <1>1, <1>3, <1>4, <1>6, <2>2, <2>3, <2>4, Resuming DEF Machine!PushConst
<1> QED
  BY <1>5, <1>6

\* PRINT
LEMMA PrintRefined ==
  ASSUME RefInv, instr_print PROVE Machine!PrintTop /\ FetchOK' /\ ModeOK'
<1>1. pc = "exec" /\ Machine!Fetch(Machine!INSTR_PRINT)
  BY FetchRefined DEF instr_print, INSTR_PRINT, Machine!INSTR_PRINT
<1>2. machine_ip = cur_instr_ptr /\ machine_sp = cur_stack_ptr /\ cur_stack_ptr \in Nat
  BY <1>1, Executing
<1>3. CASE cur_stack_ptr < 1
  <2>1. Machine!Fail(Machine!ERR_STACK_UNDERFLOW) /\ FetchOK' /\ ModeOK'
    BY <1>3, ErrorRefined
       DEF instr_print, ErrorInPlace, ERR_STACK_UNDERFLOW, Machine!ERR_STACK_UNDERFLOW
  <2> QED
    BY <1>1, <1>2, <1>3, <2>1 DEF Machine!PrintTop
<1>4. CASE ~(cur_stack_ptr < 1)
  <2>1. /\ PopStack(1)
        /\ print_seg' = [print_seg EXCEPT ![print_ptr] = Top]
        /\ print_ptr' = IF print_ptr + 1 >= PrintWords THEN 0 ELSE print_ptr + 1
        /\ NextInstr(cur_instr_ptr + 1)
        /\ UNCHANGED callstate
    BY <1>4 DEF instr_print
  <2>2. cur_instr_ptr + 1 \in Nat
    BY <1>1, Executing
  <2>3. Machine!Continue(machine_ip + 1) /\ Resumed
    BY <1>1, <1>2, <2>1, <2>2, NextRefined
  <2>4. Machine!Pop(1)
    BY <1>1, <1>2, <1>4, <2>1, <2>3, PopRefined
  <2>5. print_seg' = [print_seg EXCEPT ![print_ptr] = machine_stack[machine_sp]]
    BY <1>1, <2>1, Executing, TopView
  <2>6. print_ptr' = (print_ptr + 1) % PrintWords
    <3>1. PrintWords \in Nat \ {0} /\ print_ptr \in 0 .. PrintWords - 1
      BY InterpreterAssumption DEF RefInv, IndInv, PrintOK, PrintSlots
    <3> QED
      BY <2>1, <3>1
  <2>7. UNCHANGED Machine!callvars
    BY <1>1, <2>1, <2>3, Kept
  <2> QED
    BY <1>1, <1>2, <1>4, <2>3, <2>4, <2>5, <2>6, <2>7, Resuming DEF Machine!PrintTop
<1> QED
  BY <1>3, <1>4

\* A displacement names a line below the segment if and only if it names an
\* address below it.
LEMMA UnderflowRefined ==
  ASSUME CallOK, NEW d \in Word
  PROVE  /\ LineOf(cur_call_ptr - Displacement(d)) \in Int
         /\ LineOf(cur_call_ptr - Displacement(d)) < 0
              <=> cur_call_ptr - Displacement(d) < 0
         /\ cur_call_ptr - Displacement(d) >= 0 =>
              /\ cur_call_ptr - Displacement(d) \in CallSlots
              /\ cur_call_ptr - Displacement(d) <= cur_call_ptr
<1>1. Displacement(d) \in Nat /\ cur_call_ptr \in CallSlots
  BY DisplacementType DEF CallOK
<1> QED
  BY <1>1, InterpreterAssumption DEF CallSlots, LineOf

\* LOAD
LEMMA LoadRefined ==
  ASSUME RefInv, instr_load PROVE Machine!Load /\ FetchOK' /\ ModeOK'
<1>1. pc = "exec" /\ Machine!Fetch(Machine!INSTR_LOAD)
  BY FetchRefined DEF instr_load, INSTR_LOAD, Machine!INSTR_LOAD
<1>2. PICK d \in Operand :
        LET q == cur_call_ptr - Displacement(d)
            l == LineOf(q)
        IN CASE l < 0 -> ErrorInPlace(ERR_CALL_UNDERFLOW)
             [] l >= 0 /\ StackOverflow ->
                  /\ Error(ERR_STACK_OVERFLOW)
                  /\ call_seg' = CallSegFor(cur_call_ptr, l)
                  /\ stack_seg' = StackSegAfterInc
             [] OTHER ->
                  /\ call_seg' = CallSegFor(cur_call_ptr, l)
                  /\ rcall_line' = CallLineFor(cur_call_ptr, l)
                  /\ cur_call_line' = l
                  /\ PushStack(CallLineFor(cur_call_ptr, l)[Ofs(q)])
                  /\ NextInstr(cur_instr_ptr + 2)
                  /\ UNCHANGED <<cur_call_ptr, printstate>>
  BY DEF instr_load
<1> DEFINE q == cur_call_ptr - Displacement(d)
           l == LineOf(q)
<1>3. /\ d \in Machine!Operand /\ d \in Word
      /\ machine_ip = cur_instr_ptr /\ machine_sp = cur_stack_ptr
      /\ machine_cp - Machine!Displacement(d) = q
      /\ StackOK /\ CallOK
  BY <1>1, Executing, SameBytecode
<1>4. /\ l \in Int /\ q \in Int
      /\ l < 0 <=> q < 0
      /\ q >= 0 => q \in CallSlots /\ q <= cur_call_ptr
  BY <1>1, <1>3, UnderflowRefined, DisplacementType, Executing
<1>5. StackOverflow <=> machine_sp + 1 \notin Machine!StackSlots
  BY <1>3, OverflowRefined
<1>6. CASE l < 0
  <2>1. ErrorInPlace(ERR_CALL_UNDERFLOW)
    BY <1>2, <1>6, <1>4
  <2>2. Machine!Fail(Machine!ERR_CALL_UNDERFLOW) /\ FetchOK' /\ ModeOK'
    BY <2>1, ErrorRefined
       DEF ErrorInPlace, ERR_CALL_UNDERFLOW, Machine!ERR_CALL_UNDERFLOW
  <2> QED
    BY <1>1, <1>3, <1>4, <1>6, <2>2 DEF Machine!Load
<1>7. CASE l >= 0 /\ StackOverflow
  <2>1. Error(ERR_STACK_OVERFLOW)
    BY <1>2, <1>4, <1>7
  <2>2. Machine!Fail(Machine!ERR_STACK_OVERFLOW) /\ FetchOK' /\ ModeOK'
    BY <2>1, ErrorRefined DEF ERR_STACK_OVERFLOW, Machine!ERR_STACK_OVERFLOW
  <2> QED
    BY <1>1, <1>3, <1>4, <1>5, <1>7, <2>2 DEF Machine!Load
<1>8. CASE l >= 0 /\ ~StackOverflow
  <2>1. /\ call_seg' = CallSegFor(cur_call_ptr, l)
        /\ rcall_line' = CallLineFor(cur_call_ptr, l)
        /\ cur_call_line' = l
        /\ PushStack(CallLineFor(cur_call_ptr, l)[Ofs(q)])
        /\ NextInstr(cur_instr_ptr + 2)
        /\ UNCHANGED <<cur_call_ptr, printstate>>
    BY <1>2, <1>4, <1>8
  <2>2. q >= 0 /\ q \in CallSlots /\ q <= cur_call_ptr
    BY <1>4, <1>8
  <2>3. cur_instr_ptr + 2 \in Nat
    BY <1>1, Executing
  <2>4. Machine!Continue(machine_ip + 2) /\ Resumed
    BY <1>1, <1>3, <2>1, <2>3, NextRefined
  <2>5. CurCall' = CurCall /\ CallLineFor(cur_call_ptr, l)[Ofs(q)] = CurCall[q]
    BY <1>3, <2>1, <2>2, LoadView
  <2>6. Machine!Push(machine_call[q])
    BY <1>1, <1>8, <2>1, <2>4, <2>5, PushRefined, Executing
  <2>7. UNCHANGED Machine!callvars
    BY <1>1, <2>1, <2>4, <2>5, Executing, Resuming DEF Machine!callvars
  <2>8. UNCHANGED Machine!printvars
    BY <1>1, <2>1, <2>4, Kept
  <2>9. /\ ~(machine_cp - Machine!Displacement(d) < 0)
        /\ machine_sp + 1 \in Machine!StackSlots
        /\ Machine!Push(machine_call[machine_cp - Machine!Displacement(d)])
    BY <1>3, <1>4, <1>5, <1>8, <2>2, <2>6
  <2> QED
    BY <1>1, <1>3, <2>4, <2>7, <2>8, <2>9, Resuming DEF Machine!Load
<1> QED
  BY <1>4, <1>6, <1>7, <1>8

\* Writing a word of the call stack at or below the call pointer.
LEMMA SaveRefined ==
  ASSUME RefInv, pc = "exec", Resumed, NEW q \in CallSlots, q <= cur_call_ptr, NEW v,
         SaveCallElement(cur_call_ptr, q, v), UNCHANGED cur_call_ptr
  PROVE  /\ machine_call' = [machine_call EXCEPT ![q] = v]
         /\ machine_cp' = machine_cp
<1>1. CallOK /\ cur_call_ptr \in Nat /\ cur_call_ptr \in CallSlots
  BY Executing DEF CallOK
<1>2. CurCall' = [i \in CallSlots |->
                    IF i = q THEN v ELSE IF i <= cur_call_ptr THEN CallCell(i) ELSE Junk]
  BY <1>1, SaveView
<1>3. CurCall' = [CurCall EXCEPT ![q] = v]
  BY <1>2 DEF CurCall, CallView, CallCell
<1> QED
  BY <1>3, Executing, Resuming

\* STORE
LEMMA StoreRefined ==
  ASSUME RefInv, instr_store PROVE Machine!Store /\ FetchOK' /\ ModeOK'
<1>1. pc = "exec" /\ Machine!Fetch(Machine!INSTR_STORE)
  BY FetchRefined DEF instr_store, INSTR_STORE, Machine!INSTR_STORE
<1>2. PICK d \in Operand :
        LET q == cur_call_ptr - Displacement(d)
        IN CASE cur_stack_ptr < 1 -> ErrorInPlace(ERR_STACK_UNDERFLOW)
             [] cur_stack_ptr >= 1 /\ LineOf(q) < 0 ->
                  ErrorInPlace(ERR_CALL_UNDERFLOW)
             [] OTHER ->
                  /\ PopStack(1)
                  /\ SaveCallElement(cur_call_ptr, q, Top)
                  /\ NextInstr(cur_instr_ptr + 2)
                  /\ UNCHANGED <<cur_call_ptr, printstate>>
  BY DEF instr_store
<1> DEFINE q == cur_call_ptr - Displacement(d)
<1>3. /\ d \in Machine!Operand /\ d \in Word
      /\ machine_ip = cur_instr_ptr /\ machine_sp = cur_stack_ptr
      /\ machine_cp - Machine!Displacement(d) = q
      /\ cur_stack_ptr \in Nat /\ StackOK /\ CallOK
  BY <1>1, Executing, SameBytecode
<1>4. /\ LineOf(q) \in Int /\ q \in Int
      /\ LineOf(q) < 0 <=> q < 0
      /\ q >= 0 => q \in CallSlots /\ q <= cur_call_ptr
  BY <1>1, <1>3, UnderflowRefined, DisplacementType, Executing
<1>5. CASE cur_stack_ptr < 1
  <2>1. ErrorInPlace(ERR_STACK_UNDERFLOW)
    BY <1>2, <1>3, <1>5
  <2>2. Machine!Fail(Machine!ERR_STACK_UNDERFLOW) /\ FetchOK' /\ ModeOK'
    BY <2>1, ErrorRefined
       DEF ErrorInPlace, ERR_STACK_UNDERFLOW, Machine!ERR_STACK_UNDERFLOW
  <2> QED
    BY <1>1, <1>3, <1>5, <2>2 DEF Machine!Store
<1>6. CASE cur_stack_ptr >= 1 /\ LineOf(q) < 0
  <2>1. ErrorInPlace(ERR_CALL_UNDERFLOW)
    BY <1>2, <1>3, <1>6
  <2>2. Machine!Fail(Machine!ERR_CALL_UNDERFLOW) /\ FetchOK' /\ ModeOK'
    BY <2>1, ErrorRefined
       DEF ErrorInPlace, ERR_CALL_UNDERFLOW, Machine!ERR_CALL_UNDERFLOW
  <2> QED
    BY <1>1, <1>3, <1>4, <1>6, <2>2 DEF Machine!Store
<1>7. CASE cur_stack_ptr >= 1 /\ ~(LineOf(q) < 0)
  <2>1. /\ PopStack(1)
        /\ SaveCallElement(cur_call_ptr, q, Top)
        /\ NextInstr(cur_instr_ptr + 2)
        /\ UNCHANGED <<cur_call_ptr, printstate>>
    BY <1>2, <1>3, <1>7
  <2>2. q >= 0 /\ q \in CallSlots /\ q <= cur_call_ptr
    BY <1>4, <1>7
  <2>3. cur_instr_ptr + 2 \in Nat
    BY <1>1, Executing
  <2>4. Machine!Continue(machine_ip + 2) /\ Resumed
    BY <1>1, <1>3, <2>1, <2>3, NextRefined
  <2>5. Machine!Pop(1)
    BY <1>1, <1>7, <2>1, <2>4, PopRefined
  <2>6. Top = machine_stack[machine_sp]
    BY <1>1, <1>3, TopView, Executing
  <2>7. SaveCallElement(cur_call_ptr, machine_cp - Machine!Displacement(d),
                        machine_stack[machine_sp])
    BY <1>3, <2>1, <2>6
  <2>8. /\ machine_call' = [machine_call EXCEPT ![machine_cp - Machine!Displacement(d)]
                                                  = machine_stack[machine_sp]]
        /\ machine_cp' = machine_cp
    BY <1>1, <1>3, <2>1, <2>2, <2>4, <2>7, SaveRefined
  <2>9. UNCHANGED Machine!printvars
    BY <1>1, <2>1, <2>4, Kept
  <2>10. ~(machine_cp - Machine!Displacement(d) < 0) /\ machine_sp # 0
    BY <1>3, <1>4, <1>7, <2>2
  <2> QED
    BY <1>1, <1>3, <2>4, <2>5, <2>8, <2>9, <2>10, Resuming DEF Machine!Store
<1> QED
  BY <1>3, <1>5, <1>6, <1>7

\* Popping one word and replacing the next one.
LEMMA ReplaceTopRefined ==
  ASSUME RefInv, pc = "exec", cur_stack_ptr >= 1, NEW v, ReplaceTop(v)
  PROVE  /\ Machine!PopAndSet(1, v)
         /\ Machine!Continue(machine_ip + 1)
         /\ UNCHANGED <<Machine!callvars, Machine!printvars>>
         /\ FetchOK' /\ ModeOK'
<1>1. /\ machine_ip = cur_instr_ptr /\ cur_instr_ptr + 1 \in Nat
      /\ machine_sp = cur_stack_ptr /\ machine_stack = CurStack
      /\ StackOK
  BY Executing
<1>2. Machine!Continue(machine_ip + 1) /\ Resumed
  BY <1>1, NextRefined DEF ReplaceTop
<1>3. /\ cur_stack_ptr' = cur_stack_ptr - 1 /\ stack_seg' = stack_seg
      /\ rstack_line' = [StackLineAt(cur_stack_ptr - 1) EXCEPT ![Ofs(cur_stack_ptr - 1)] = v]
  BY DEF ReplaceTop
<1>4. CurStack' = [i \in StackSlots |->
                     IF i < cur_stack_ptr - 1 THEN CurStack[i]
                     ELSE IF i = cur_stack_ptr - 1 THEN v ELSE Junk]
  BY <1>1, <1>3, PopView
<1>5. Machine!PopAndSet(1, v)
  BY <1>1, <1>2, <1>3, <1>4, Resuming, SameBytecode DEF Machine!PopAndSet
<1>6. UNCHANGED <<Machine!callvars, Machine!printvars>>
  BY <1>2, Kept DEF ReplaceTop
<1> QED
  BY <1>2, <1>5, <1>6, Resuming

\* ADD, SUB and MUL
LEMMA ArithmeticRefined ==
  ASSUME RefInv, NEW op \in {INSTR_ADD, INSTR_SUB, INSTR_MUL}, Arithmetic(op)
  PROVE  Machine!Arithmetic(op) /\ FetchOK' /\ ModeOK'
<1>1. pc = "exec" /\ Machine!Fetch(op)
  BY FetchRefined DEF Arithmetic
<1>2. /\ machine_sp = cur_stack_ptr /\ cur_stack_ptr \in Nat
      /\ op \notin {Machine!INSTR_DIV, Machine!INSTR_MOD}
  BY <1>1, Executing DEF INSTR_ADD, INSTR_SUB, INSTR_MUL, Machine!INSTR_DIV,
                         Machine!INSTR_MOD
<1>3. CASE cur_stack_ptr < 1
  <2>1. Machine!Fail(Machine!ERR_STACK_UNDERFLOW) /\ FetchOK' /\ ModeOK'
    BY <1>3, ErrorRefined
       DEF Arithmetic, ErrorInPlace, ERR_STACK_UNDERFLOW, Machine!ERR_STACK_UNDERFLOW
  <2>2. machine_sp = 0
    BY <1>2, <1>3
  <2> QED
    BY <1>1, <2>1, <2>2 DEF Machine!Arithmetic
<1>4. CASE ~(cur_stack_ptr < 1)
  <2>1. cur_stack_ptr >= 1 /\ machine_sp # 0
    BY <1>2, <1>4
  <2>2. Top = machine_stack[machine_sp] /\ Second = machine_stack[machine_sp - 1]
    BY <1>1, <2>1, Executing, TopView
  <2>3. ReplaceTop(Machine!Arith(op, machine_stack[machine_sp - 1],
                                 machine_stack[machine_sp]))
    BY <1>4, <2>2, SameBytecode DEF Arithmetic
  <2> QED
    BY <1>1, <1>2, <2>1, <2>3, ReplaceTopRefined DEF Machine!Arithmetic
<1> QED
  BY <1>3, <1>4

\* DIV and MOD
LEMMA DivisionRefined ==
  ASSUME RefInv, NEW op \in {INSTR_DIV, INSTR_MOD}, Division(op)
  PROVE  Machine!Arithmetic(op) /\ FetchOK' /\ ModeOK'
<1>1. pc = "exec" /\ Machine!Fetch(op)
  BY FetchRefined DEF Division
<1>2. /\ machine_sp = cur_stack_ptr /\ cur_stack_ptr \in Nat
      /\ op \in {Machine!INSTR_DIV, Machine!INSTR_MOD}
  BY <1>1, Executing DEF INSTR_DIV, INSTR_MOD, Machine!INSTR_DIV, Machine!INSTR_MOD
<1>3. CASE cur_stack_ptr < 1
  <2>1. Machine!Fail(Machine!ERR_STACK_UNDERFLOW) /\ FetchOK' /\ ModeOK'
    BY <1>3, ErrorRefined
       DEF Division, ErrorInPlace, ERR_STACK_UNDERFLOW, Machine!ERR_STACK_UNDERFLOW
  <2>2. machine_sp = 0
    BY <1>2, <1>3
  <2> QED
    BY <1>1, <2>1, <2>2 DEF Machine!Arithmetic
<1>4. CASE ~(cur_stack_ptr < 1)
  <2>1. cur_stack_ptr >= 1 /\ machine_sp # 0
    BY <1>2, <1>4
  <2>2. Top = machine_stack[machine_sp] /\ Second = machine_stack[machine_sp - 1]
    BY <1>1, <2>1, Executing, TopView
  <2>3. CASE 0 \in Readings(Top) /\ ErrorInPlace(ERR_DIV_ZERO)
    <3>1. Machine!Fail(Machine!ERR_DIV_ZERO) /\ FetchOK' /\ ModeOK'
      BY <2>3, ErrorRefined DEF ErrorInPlace, ERR_DIV_ZERO, Machine!ERR_DIV_ZERO
    <3>2. 0 \in Machine!Readings(machine_stack[machine_sp])
      BY <2>2, <2>3, SameBytecode
    <3> QED
      BY <1>1, <1>2, <2>1, <3>1, <3>2 DEF Machine!Arithmetic
  <2>4. CASE Top # 0 /\ ReplaceTop(Arith(op, Second, Top))
    <3>1. /\ machine_stack[machine_sp] # 0
          /\ ReplaceTop(Machine!Arith(op, machine_stack[machine_sp - 1],
                                      machine_stack[machine_sp]))
      BY <2>2, <2>4, SameBytecode
    <3> QED
      BY <1>1, <1>2, <2>1, <3>1, ReplaceTopRefined DEF Machine!Arithmetic
  <2> QED
    BY <1>4, <2>3, <2>4 DEF Division
<1> QED
  BY <1>3, <1>4

\* JMP
LEMMA JmpRefined ==
  ASSUME RefInv, instr_jmp PROVE Machine!Jump /\ FetchOK' /\ ModeOK'
<1>1. pc = "exec" /\ Machine!Fetch(Machine!INSTR_JMP)
  BY FetchRefined DEF instr_jmp, INSTR_JMP, Machine!INSTR_JMP
<1>2. PICK t \in Operand :
        IF JmpBounds(t)
        THEN ErrorInPlace(ERR_JMP_BOUNDS)
        ELSE JumpTo(t) /\ UNCHANGED <<stackstate, callstate, printstate>>
  BY DEF instr_jmp
<1>3. t \in Machine!Operand /\ t \in Nat
  BY <1>1, Executing DEF Word
<1>4. CASE JmpBounds(t)
  <2>1. Machine!Fail(Machine!ERR_JMP_BOUNDS) /\ FetchOK' /\ ModeOK'
    BY <1>2, <1>4, ErrorRefined DEF ErrorInPlace, ERR_JMP_BOUNDS, Machine!ERR_JMP_BOUNDS
  <2> QED
    BY <1>1, <1>3, <1>4, <2>1 DEF Machine!Jump, JmpBounds
<1>5. CASE ~JmpBounds(t)
  <2>1. Machine!Continue(t) /\ Resumed
    BY <1>1, <1>2, <1>3, <1>5, JumpRefined
  <2>2. UNCHANGED <<Machine!stackvars, Machine!callvars, Machine!printvars>>
    BY <1>1, <1>2, <1>5, <2>1, Kept
  <2> QED
    BY <1>1, <1>3, <1>5, <2>1, <2>2, Resuming DEF Machine!Jump, JmpBounds
<1> QED
  BY <1>4, <1>5

\* The conditional jumps
LEMMA ConditionalJumpRefined ==
  ASSUME RefInv, NEW op, ConditionalJump(op)
  PROVE  Machine!ConditionalJump(op) /\ FetchOK' /\ ModeOK'
<1>1. pc = "exec" /\ Machine!Fetch(op)
  BY FetchRefined DEF ConditionalJump
<1>2. machine_sp = cur_stack_ptr /\ cur_stack_ptr \in Nat
  BY <1>1, Executing
<1>3. CASE cur_stack_ptr < 2
  <2>1. Machine!Fail(Machine!ERR_STACK_UNDERFLOW) /\ FetchOK' /\ ModeOK'
    BY <1>3, ErrorRefined
       DEF ConditionalJump, ErrorInPlace, ERR_STACK_UNDERFLOW, Machine!ERR_STACK_UNDERFLOW
  <2> QED
    BY <1>1, <1>2, <1>3, <2>1 DEF Machine!ConditionalJump
<1>4. CASE ~(cur_stack_ptr < 2)
  <2>1. cur_stack_ptr >= 1 /\ cur_stack_ptr >= 2 /\ ~(machine_sp < 2)
    BY <1>2, <1>4
  <2>2. Top = machine_stack[machine_sp] /\ Second = machine_stack[machine_sp - 1]
    BY <1>1, <2>1, Executing, TopView
  <2>3. PICK taken \in Outcomes(op, Second, Top), t \in Operand :
          IF taken /\ JmpBounds(t)
          THEN ErrorInPlace(ERR_JMP_BOUNDS)
          ELSE /\ PopStack(2)
               /\ IF taken THEN JumpTo(t) ELSE NextInstr(cur_instr_ptr + 2)
               /\ UNCHANGED <<callstate, printstate>>
    BY <1>4 DEF ConditionalJump
  <2>4. /\ taken \in Machine!Outcomes(op, machine_stack[machine_sp - 1],
                                      machine_stack[machine_sp])
        /\ t \in Machine!Operand /\ t \in Nat
    BY <1>1, <2>2, SameBytecode, Executing DEF Word
  <2>5. CASE taken /\ JmpBounds(t)
    <3>1. Machine!Fail(Machine!ERR_JMP_BOUNDS) /\ FetchOK' /\ ModeOK'
      BY <2>3, <2>5, ErrorRefined
         DEF ErrorInPlace, ERR_JMP_BOUNDS, Machine!ERR_JMP_BOUNDS
    <3> QED
      BY <1>1, <2>1, <2>4, <2>5, <3>1 DEF Machine!ConditionalJump, JmpBounds
  <2>6. CASE ~(taken /\ JmpBounds(t))
    <3>1. /\ PopStack(2)
          /\ IF taken THEN JumpTo(t) ELSE NextInstr(cur_instr_ptr + 2)
          /\ UNCHANGED <<callstate, printstate>>
      BY <2>3, <2>6
    <3>2. machine_ip = cur_instr_ptr /\ cur_instr_ptr + 2 \in Nat
      BY <1>1, Executing
    <3>3. Machine!Continue(IF taken THEN t ELSE machine_ip + 2) /\ Resumed
      <4>1. CASE taken
        BY <1>1, <2>4, <2>6, <3>1, <4>1, JumpRefined
      <4>2. CASE ~taken
        BY <1>1, <3>1, <3>2, <4>2, NextRefined
      <4> QED
        BY <4>1, <4>2
    <3>4. Machine!Pop(2)
      BY <1>1, <2>1, <3>1, <3>3, PopRefined
    <3>5. UNCHANGED <<Machine!callvars, Machine!printvars>>
      BY <1>1, <3>1, <3>3, Kept
    <3> QED
      BY <1>1, <2>1, <2>4, <2>6, <3>3, <3>4, <3>5, Resuming
         DEF Machine!ConditionalJump, JmpBounds
  <2> QED
    BY <2>5, <2>6
<1> QED
  BY <1>3, <1>4

\* inc_call_ptr refuses what the machine has no slot for.
LEMMA CallOverflowRefined ==
  ASSUME CallOK, NEW n \in Nat
  PROVE  /\ CallOverflow(n) <=> cur_call_ptr + n \notin CallSlots
         /\ cur_call_ptr + n \in Nat /\ cur_call_ptr <= cur_call_ptr + n
  BY InterpreterAssumption DEF CallOK, CallSlots, CallOverflow

\* CALL
LEMMA CallRefined ==
  ASSUME RefInv, instr_call PROVE Machine!Call /\ FetchOK' /\ ModeOK'
<1>1. pc = "exec" /\ Machine!Fetch(Machine!INSTR_CALL)
  BY FetchRefined DEF instr_call, INSTR_CALL, Machine!INSTR_CALL
<1>2. PICK t \in Operand :
        CASE JmpBounds(t) -> ErrorInPlace(ERR_JMP_BOUNDS)
          [] ~JmpBounds(t) /\ CallOverflow(1) -> ErrorInPlace(ERR_CALL_OVERFLOW)
          [] OTHER ->
               /\ cur_call_ptr' = cur_call_ptr + 1
               /\ SaveCallElement(cur_call_ptr + 1, cur_call_ptr + 1,
                                  (cur_instr_ptr + 2) % WordMod)
               /\ JumpTo(t)
               /\ UNCHANGED <<stackstate, printstate>>
  BY DEF instr_call
<1>3. /\ t \in Machine!Operand /\ t \in Nat /\ Len(code_seg) \in Nat
      /\ machine_ip = cur_instr_ptr /\ machine_cp = cur_call_ptr
      /\ machine_call = CurCall /\ cur_call_ptr \in Nat /\ CallOK
  BY <1>1, Executing DEF Word
<1>4. /\ JmpBounds(t) <=> t >= Len(code_seg)
      /\ ~JmpBounds(t) <=> t < Len(code_seg)
      /\ CallOverflow(1) <=> machine_cp + 1 \notin Machine!CallSlots
  <2>1. JmpBounds(t) <=> t >= Len(code_seg)
    BY DEF JmpBounds
  <2>2. ~JmpBounds(t) <=> t < Len(code_seg)
    BY <1>3 DEF JmpBounds
  <2>3. CallOverflow(1) <=> machine_cp + 1 \notin Machine!CallSlots
    BY <1>3, CallOverflowRefined, SameBytecode
  <2> QED
    BY <2>1, <2>2, <2>3
<1>5. CASE JmpBounds(t)
  <2>1. Machine!Fail(Machine!ERR_JMP_BOUNDS) /\ FetchOK' /\ ModeOK'
    BY <1>2, <1>5, ErrorRefined DEF ErrorInPlace, ERR_JMP_BOUNDS, Machine!ERR_JMP_BOUNDS
  <2> QED
    BY <1>1, <1>3, <1>4, <1>5, <2>1 DEF Machine!Call
<1>6. CASE ~JmpBounds(t) /\ CallOverflow(1)
  <2>1. Machine!Fail(Machine!ERR_CALL_OVERFLOW) /\ FetchOK' /\ ModeOK'
    BY <1>2, <1>6, ErrorRefined
       DEF ErrorInPlace, ERR_CALL_OVERFLOW, Machine!ERR_CALL_OVERFLOW
  <2> QED
    BY <1>1, <1>3, <1>4, <1>6, <2>1 DEF Machine!Call
<1>7. CASE ~JmpBounds(t) /\ ~CallOverflow(1)
  <2> DEFINE v == (cur_instr_ptr + 2) % WordMod
             q == cur_call_ptr + 1
  <2>1. /\ cur_call_ptr' = q
        /\ SaveCallElement(q, q, v)
        /\ JumpTo(t)
        /\ UNCHANGED <<stackstate, printstate>>
    BY <1>2, <1>7
  <2>2. q \in CallSlots /\ cur_call_ptr <= q /\ q <= q
    BY <1>3, <1>7, CallOverflowRefined
  <2>3. Machine!Continue(t) /\ Resumed
    BY <1>1, <1>3, <1>7, <2>1, JumpRefined
  <2>4. CurCall' = [i \in CallSlots |->
                      IF i = q THEN v ELSE IF i <= q THEN CallCell(i) ELSE Junk]
    <3> HIDE DEF v, q
    <3> QED
      BY <1>3, <2>1, <2>2, SaveView
  <2>5. ASSUME NEW i \in CallSlots
        PROVE  (IF i = q THEN v ELSE IF i <= q THEN CallCell(i) ELSE Junk)
               = IF i = q THEN v ELSE CurCall[i]
    <3>1. i \in Int
      BY DEF CallSlots
    <3>2. i # q => (i <= q <=> i <= cur_call_ptr)
      BY <1>3, <3>1
    <3> QED
      BY <3>2, CurCallCells
  <2>6. CurCall' = [CurCall EXCEPT ![q] = v]
    BY <2>4, <2>5 DEF CurCall, CallView
  <2>7. /\ machine_cp' = machine_cp + 1
        /\ machine_call' = [machine_call EXCEPT ![machine_cp + 1]
                                                  = (machine_ip + 2) % WordMod]
    BY <1>3, <2>1, <2>3, <2>6, Resuming
  <2>8. UNCHANGED <<Machine!stackvars, Machine!printvars>>
    BY <1>1, <2>1, <2>3, Kept
  <2> QED
    BY <1>1, <1>3, <1>4, <1>7, <2>3, <2>7, <2>8, Resuming DEF Machine!Call
<1> QED
  BY <1>5, <1>6, <1>7

\* dec_call_ptr gives words of the call stack back.
LEMMA DropRefined ==
  ASSUME RefInv, pc = "exec", Resumed, NEW n \in Nat, n <= cur_call_ptr,
         NEW seg \in [CallSlots -> WordJ], NEW line, NEW l,
         \A i \in CallSlots : i <= cur_call_ptr =>
           (IF LineOf(i) = l THEN line[Ofs(i)] ELSE seg[i]) = CurCall[i],
         DecCallPtr(n, seg, line, l)
  PROVE  Machine!DropCall(n)
<1>1. cur_call_ptr \in CallSlots
  BY Executing DEF CallOK
<1>2. /\ cur_call_ptr' = cur_call_ptr - n
      /\ CurCall' = [i \in CallSlots |->
                       IF i <= cur_call_ptr - n THEN CurCall[i] ELSE Junk]
  BY <1>1, DecView
<1> QED
  BY <1>2, Executing, Resuming, SameBytecode DEF Machine!DropCall

\* RET
LEMMA RetRefined ==
  ASSUME RefInv, instr_ret PROVE Machine!Ret /\ FetchOK' /\ ModeOK'
<1> DEFINE l == LineOf(cur_call_ptr)
           seg == CallSegFor(cur_call_ptr, l)
           line == CallLineFor(cur_call_ptr, l)
<1>1. pc = "exec" /\ Machine!Fetch(Machine!INSTR_RET)
  BY FetchRefined DEF instr_ret, INSTR_RET, Machine!INSTR_RET
<1>2. PICK t \in Readings(line[Ofs(cur_call_ptr)]) :
        CASE JmpBounds(t) ->
               Error(ERR_JMP_BOUNDS) /\ call_seg' = seg /\ UNCHANGED stack_seg
          [] ~JmpBounds(t) /\ cur_call_ptr < 1 ->
               Error(ERR_CALL_UNDERFLOW) /\ call_seg' = seg /\ UNCHANGED stack_seg
          [] OTHER -> /\ DecCallPtr(1, seg, line, l)
                      /\ JumpTo(t)
                      /\ UNCHANGED <<stackstate, printstate>>
  BY DEF instr_ret
<1>3. /\ machine_cp = cur_call_ptr /\ machine_call = CurCall
      /\ cur_call_ptr \in Nat /\ cur_call_ptr \in CallSlots
      /\ CallOK /\ Len(code_seg) \in Nat
  BY <1>1, Executing DEF CallOK
<1>4. l \in 0 .. CallLines - 1
  BY <1>3, CallLineRange
<1>5. seg \in [CallSlots -> WordJ] /\ line \in Line
  BY <1>3, <1>4, FetchCallLineType
<1>6. ASSUME NEW i \in CallSlots, i <= cur_call_ptr
      PROVE  (IF LineOf(i) = l THEN line[Ofs(i)] ELSE seg[i]) = CurCall[i]
  <2>1. LineOf(i) <= l /\ cur_call_ptr <= cur_call_ptr
    BY <1>3, <1>6, LineMonotonic DEF CallSlots
  <2>2. (IF LineOf(i) = l THEN line[Ofs(i)] ELSE seg[i]) = CallCell(i)
    BY <1>3, <1>4, <2>1, FetchCallCells
  <2> QED
    BY <1>6, <2>2, CurCallCells
<1>7. line[Ofs(cur_call_ptr)] = machine_call[machine_cp]
  BY <1>3, <1>6
<1>8. t \in Machine!Readings(machine_call[machine_cp]) /\ t \in Nat
  <2>1. Ofs(cur_call_ptr) \in 0 .. 3
    BY <1>3, LineOfs
  <2>2. line[Ofs(cur_call_ptr)] \in WordJ
    BY <1>5, <2>1 DEF Line
  <2> QED
    BY <1>7, <2>2, ReadingsType, SameBytecode DEF Word
<1>9. /\ JmpBounds(t) <=> t >= Len(code_seg)
      /\ ~JmpBounds(t) <=> t < Len(code_seg)
  BY <1>3, <1>8 DEF JmpBounds
<1>10. CASE JmpBounds(t)
  <2>1. Machine!Fail(Machine!ERR_JMP_BOUNDS) /\ FetchOK' /\ ModeOK'
    BY <1>2, <1>10, ErrorRefined DEF ERR_JMP_BOUNDS, Machine!ERR_JMP_BOUNDS
  <2> QED
    BY <1>1, <1>8, <1>9, <1>10, <2>1 DEF Machine!Ret
<1>11. CASE ~JmpBounds(t) /\ cur_call_ptr < 1
  <2>1. Machine!Fail(Machine!ERR_CALL_UNDERFLOW) /\ FetchOK' /\ ModeOK'
    BY <1>2, <1>11, ErrorRefined DEF ERR_CALL_UNDERFLOW, Machine!ERR_CALL_UNDERFLOW
  <2>2. machine_cp = 0
    BY <1>3, <1>11
  <2> QED
    BY <1>1, <1>8, <1>9, <1>11, <2>1, <2>2 DEF Machine!Ret
<1>12. CASE ~JmpBounds(t) /\ ~(cur_call_ptr < 1)
  <2>1. /\ DecCallPtr(1, seg, line, l)
        /\ JumpTo(t)
        /\ UNCHANGED <<stackstate, printstate>>
    BY <1>2, <1>12
  <2>2. 1 <= cur_call_ptr /\ machine_cp # 0
    BY <1>3, <1>12
  <2>3. Machine!Continue(t) /\ Resumed
    BY <1>1, <1>8, <1>12, <2>1, JumpRefined
  <2>4. Machine!DropCall(1)
    <3> HIDE DEF l, seg, line
    <3> QED
      BY <1>1, <1>5, <1>6, <2>1, <2>2, <2>3, DropRefined
  <2>5. UNCHANGED <<Machine!stackvars, Machine!printvars>>
    BY <1>1, <2>1, <2>3, Kept
  <2> QED
    BY <1>1, <1>8, <1>9, <1>12, <2>2, <2>3, <2>4, <2>5, Resuming DEF Machine!Ret
<1> QED
  BY <1>10, <1>11, <1>12

\* PROLOG
LEMMA PrologRefined ==
  ASSUME RefInv, instr_prolog PROVE Machine!Prolog /\ FetchOK' /\ ModeOK'
<1>1. pc = "exec" /\ Machine!Fetch(Machine!INSTR_PROLOG)
  BY FetchRefined DEF instr_prolog, INSTR_PROLOG, Machine!INSTR_PROLOG
<1>2. PICK d \in Operand :
        IF CallOverflow(Displacement(d))
        THEN ErrorInPlace(ERR_CALL_OVERFLOW)
        ELSE /\ cur_call_ptr' = cur_call_ptr + Displacement(d)
             /\ NextInstr(cur_instr_ptr + 2)
             /\ UNCHANGED <<cur_call_line, rcall_line, call_seg, stackstate,
                            printstate>>
  BY DEF instr_prolog
<1>3. /\ d \in Machine!Operand /\ d \in Word
      /\ machine_ip = cur_instr_ptr /\ machine_cp = cur_call_ptr
      /\ machine_call = CurCall /\ CallOK
      /\ machine_cp + Machine!Displacement(d) = cur_call_ptr + Displacement(d)
  BY <1>1, Executing, SameBytecode
<1>4. /\ CallOverflow(Displacement(d)) <=>
           machine_cp + Machine!Displacement(d) \notin Machine!CallSlots
      /\ cur_call_ptr <= cur_call_ptr + Displacement(d)
  BY <1>3, DisplacementType, CallOverflowRefined, SameBytecode
<1>5. CASE CallOverflow(Displacement(d))
  <2>1. Machine!Fail(Machine!ERR_CALL_OVERFLOW) /\ FetchOK' /\ ModeOK'
    BY <1>2, <1>5, ErrorRefined
       DEF ErrorInPlace, ERR_CALL_OVERFLOW, Machine!ERR_CALL_OVERFLOW
  <2> QED
    BY <1>1, <1>3, <1>4, <1>5, <2>1 DEF Machine!Prolog
<1>6. CASE ~CallOverflow(Displacement(d))
  <2>1. /\ cur_call_ptr' = machine_cp + Machine!Displacement(d)
        /\ NextInstr(cur_instr_ptr + 2)
        /\ UNCHANGED <<cur_call_line, rcall_line, call_seg, stackstate, printstate>>
    BY <1>2, <1>3, <1>6
  <2>2. cur_instr_ptr + 2 \in Nat
    BY <1>1, Executing
  <2>3. Machine!Continue(machine_ip + 2) /\ Resumed
    BY <1>1, <1>3, <2>1, <2>2, NextRefined
  <2>4. /\ machine_cp + Machine!Displacement(d) \in CallSlots
        /\ cur_call_ptr <= machine_cp + Machine!Displacement(d)
    BY <1>3, <1>4, <1>6, SameBytecode
  <2>5. /\ CurCall' \in [CallSlots -> WordJ]
        /\ \A i \in CallSlots :
             /\ i <= cur_call_ptr => CurCall'[i] = CurCall[i]
             /\ i > machine_cp + Machine!Displacement(d) => CurCall'[i] = Junk
    BY <1>3, <2>1, <2>4, IncView
  <2>6. /\ machine_cp' = machine_cp + Machine!Displacement(d)
        /\ machine_call' \in [Machine!CallSlots -> Machine!WordJ]
        /\ \A i \in Machine!CallSlots :
             /\ i <= machine_cp => machine_call'[i] = machine_call[i]
             /\ i > machine_cp + Machine!Displacement(d) => machine_call'[i] = Junk
    BY <1>3, <2>1, <2>3, <2>5, Resuming, SameBytecode
  <2>7. UNCHANGED <<Machine!stackvars, Machine!printvars>>
    BY <1>1, <2>1, <2>3, Kept
  <2>8. machine_cp + Machine!Displacement(d) \in Machine!CallSlots
    BY <1>4, <1>6
  <2> QED
    BY <1>1, <1>3, <2>3, <2>6, <2>7, <2>8, Resuming DEF Machine!Prolog
<1> QED
  BY <1>5, <1>6

\* EPILOG
LEMMA EpilogRefined ==
  ASSUME RefInv, instr_epilog PROVE Machine!Epilog /\ FetchOK' /\ ModeOK'
<1>1. pc = "exec" /\ Machine!Fetch(Machine!INSTR_EPILOG)
  BY FetchRefined DEF instr_epilog, INSTR_EPILOG, Machine!INSTR_EPILOG
<1>2. PICK d \in Operand :
        IF cur_call_ptr < Displacement(d)
        THEN ErrorInPlace(ERR_CALL_UNDERFLOW)
        ELSE /\ DecCallPtr(Displacement(d), call_seg, rcall_line, cur_call_line)
             /\ NextInstr(cur_instr_ptr + 2)
             /\ UNCHANGED <<stackstate, printstate>>
  BY DEF instr_epilog
<1>3. /\ d \in Machine!Operand /\ d \in Word
      /\ machine_ip = cur_instr_ptr /\ machine_cp = cur_call_ptr
      /\ cur_call_ptr \in Nat /\ CallOK
      /\ Machine!Displacement(d) = Displacement(d)
  BY <1>1, Executing, SameBytecode
<1>4. CASE cur_call_ptr < Displacement(d)
  <2>1. Machine!Fail(Machine!ERR_CALL_UNDERFLOW) /\ FetchOK' /\ ModeOK'
    BY <1>2, <1>4, ErrorRefined
       DEF ErrorInPlace, ERR_CALL_UNDERFLOW, Machine!ERR_CALL_UNDERFLOW
  <2> QED
    BY <1>1, <1>3, <1>4, <2>1 DEF Machine!Epilog
<1>5. CASE ~(cur_call_ptr < Displacement(d))
  <2>1. /\ DecCallPtr(Machine!Displacement(d), call_seg, rcall_line, cur_call_line)
        /\ NextInstr(cur_instr_ptr + 2)
        /\ UNCHANGED <<stackstate, printstate>>
    BY <1>2, <1>3, <1>5
  <2>2. Machine!Displacement(d) \in Nat /\ Machine!Displacement(d) <= cur_call_ptr
    BY <1>3, <1>5, DisplacementType
  <2>3. cur_instr_ptr + 2 \in Nat
    BY <1>1, Executing
  <2>4. Machine!Continue(machine_ip + 2) /\ Resumed
    BY <1>1, <1>3, <2>1, <2>3, NextRefined
  <2>5. \A i \in CallSlots : i <= cur_call_ptr =>
          (IF LineOf(i) = cur_call_line THEN rcall_line[Ofs(i)] ELSE call_seg[i])
          = CurCall[i]
    BY CurCallCells DEF CallCell
  <2>6. Machine!DropCall(Machine!Displacement(d))
    <3>1. call_seg \in [CallSlots -> WordJ]
      BY <1>3 DEF CallOK
    <3> QED
      BY <1>1, <2>1, <2>2, <2>4, <2>5, <3>1, DropRefined
  <2>7. UNCHANGED <<Machine!stackvars, Machine!printvars>>
    BY <1>1, <2>1, <2>4, Kept
  <2>8. ~(machine_cp < Machine!Displacement(d))
    BY <1>3, <1>5
  <2> QED
    BY <1>1, <1>3, <2>4, <2>6, <2>7, <2>8, Resuming DEF Machine!Epilog
<1> QED
  BY <1>4, <1>5

\* ARGLOAD
LEMMA ArgLoadRefined ==
  ASSUME RefInv, instr_argload PROVE Machine!ArgLoad /\ FetchOK' /\ ModeOK'
<1>1. pc = "exec" /\ Machine!Fetch(Machine!INSTR_ARGLOAD)
  BY FetchRefined DEF instr_argload, INSTR_ARGLOAD, Machine!INSTR_ARGLOAD
<1>2. PICK d \in Operand :
        LET q == cur_call_ptr - Displacement(d)
        IN CASE d >= Len(argv) -> ErrorInPlace(ERR_ARG_RANGE)
             [] d < Len(argv) /\ LineOf(q) < 0 -> ErrorInPlace(ERR_CALL_UNDERFLOW)
             [] OTHER -> /\ SaveCallElement(cur_call_ptr, q, argv[d + 1])
                         /\ NextInstr(cur_instr_ptr + 2)
                         /\ UNCHANGED <<cur_call_ptr, stackstate, printstate>>
  BY DEF instr_argload
<1> DEFINE q == cur_call_ptr - Displacement(d)
<1>3. /\ d \in Machine!Operand /\ d \in Word /\ d \in Nat /\ Len(argv) \in Nat
      /\ machine_ip = cur_instr_ptr
      /\ machine_cp - Machine!Displacement(d) = q
      /\ CallOK
  BY <1>1, Executing, SameBytecode DEF Word
<1>4. /\ LineOf(q) \in Int /\ q \in Int
      /\ LineOf(q) < 0 <=> q < 0
      /\ q >= 0 => q \in CallSlots /\ q <= cur_call_ptr
  BY <1>1, <1>3, UnderflowRefined, DisplacementType, Executing
<1>5. CASE d >= Len(argv)
  <2>1. Machine!Fail(Machine!ERR_ARG_RANGE) /\ FetchOK' /\ ModeOK'
    BY <1>2, <1>3, <1>5, ErrorRefined
       DEF ErrorInPlace, ERR_ARG_RANGE, Machine!ERR_ARG_RANGE
  <2> QED
    BY <1>1, <1>3, <1>5, <2>1 DEF Machine!ArgLoad
<1>6. CASE d < Len(argv) /\ LineOf(q) < 0
  <2>1. Machine!Fail(Machine!ERR_CALL_UNDERFLOW) /\ FetchOK' /\ ModeOK'
    BY <1>2, <1>3, <1>6, ErrorRefined
       DEF ErrorInPlace, ERR_CALL_UNDERFLOW, Machine!ERR_CALL_UNDERFLOW
  <2> QED
    BY <1>1, <1>3, <1>4, <1>6, <2>1 DEF Machine!ArgLoad
<1>7. CASE d < Len(argv) /\ ~(LineOf(q) < 0)
  <2>1. /\ SaveCallElement(cur_call_ptr, machine_cp - Machine!Displacement(d),
                           argv[d + 1])
        /\ NextInstr(cur_instr_ptr + 2)
        /\ UNCHANGED <<cur_call_ptr, stackstate, printstate>>
    BY <1>2, <1>3, <1>7
  <2>2. q >= 0 /\ q \in CallSlots /\ q <= cur_call_ptr
    BY <1>4, <1>7
  <2>3. cur_instr_ptr + 2 \in Nat
    BY <1>1, Executing
  <2>4. Machine!Continue(machine_ip + 2) /\ Resumed
    BY <1>1, <1>3, <2>1, <2>3, NextRefined
  <2>5. /\ machine_call' = [machine_call EXCEPT ![machine_cp - Machine!Displacement(d)]
                                                  = argv[d + 1]]
        /\ machine_cp' = machine_cp
    BY <1>1, <1>3, <2>1, <2>2, <2>4, SaveRefined
  <2>6. UNCHANGED <<Machine!stackvars, Machine!printvars>>
    BY <1>1, <2>1, <2>4, Kept
  <2>7. ~(machine_cp - Machine!Displacement(d) < 0) /\ ~(d >= Len(argv))
    BY <1>3, <1>4, <1>7, <2>2
  <2> QED
    BY <1>1, <1>3, <2>4, <2>5, <2>6, <2>7, Resuming DEF Machine!ArgLoad
<1> QED
  BY <1>3, <1>5, <1>6, <1>7

\* The default entries of the jump table
LEMMA InvalidOpcodeRefined ==
  ASSUME RefInv, error_inv_opcode PROVE Machine!InvalidOpcode /\ FetchOK' /\ ModeOK'
<1>1. PICK op \in Word : op > MaxOpcode /\ Dispatch(op)
  BY DEF error_inv_opcode
<1>2. Machine!Fetch(op) /\ op \in Machine!Word /\ op > Machine!MaxOpcode
  BY <1>1, FetchRefined DEF Machine!Word, Word, Machine!MaxOpcode, MaxOpcode
<1>3. Machine!Fail(Machine!ERR_INV_OPCODE) /\ FetchOK' /\ ModeOK'
  BY ErrorRefined DEF error_inv_opcode, ErrorInPlace, ERR_INV_OPCODE, Machine!ERR_INV_OPCODE
<1> QED
  BY <1>2, <1>3 DEF Machine!InvalidOpcode

\* The fault on the page behind the code
LEMMA OperandFaultRefined ==
  ASSUME RefInv, OperandFault PROVE Machine!OperandFault /\ FetchOK' /\ ModeOK'
<1>1. pc = "exec" /\ error_code = 0 /\ ~halt_flag
  BY FetchRefined DEF OperandFault
<1>2. /\ pc' = "oops" /\ error_code' = 0 /\ error_code' = error_code /\ ~halt_flag'
      /\ code_seg' = code_seg /\ argv' = argv /\ cur_instr_ptr' = cur_instr_ptr
  BY <1>1 DEF OperandFault, context, instrregs
<1>3. FetchOK' /\ ModeOK'
  BY <1>2 DEF FetchOK, ModeOK
<1>4. Resumed
  BY <1>2, <1>3 DEF Resumed
<1>5. machine_status' = "oops" /\ machine_ip' = machine_ip
  BY <1>1, <1>2, StatusView, CycleViewNext, Executing
<1>6. UNCHANGED <<Machine!stackvars, Machine!callvars, Machine!printvars>>
  BY <1>1, <1>4, Kept DEF OperandFault
<1>7. Machine!ImmediateOps = ImmediateOps /\ Machine!CompareOps = CompareOps
  BY DEF Machine!ImmediateOps, ImmediateOps, Machine!CompareOps, CompareOps,
         Machine!INSTR_PUSH, INSTR_PUSH, Machine!INSTR_LOAD, INSTR_LOAD,
         Machine!INSTR_STORE, INSTR_STORE, Machine!INSTR_JMP, INSTR_JMP,
         Machine!INSTR_CALL, INSTR_CALL, Machine!INSTR_PROLOG, INSTR_PROLOG,
         Machine!INSTR_EPILOG, INSTR_EPILOG, Machine!INSTR_ARGLOAD, INSTR_ARGLOAD,
         Machine!INSTR_JEQ, INSTR_JEQ, Machine!INSTR_JNE, INSTR_JNE,
         Machine!INSTR_JL, INSTR_JL, Machine!INSTR_JLE, INSTR_JLE,
         Machine!INSTR_JG, INSTR_JG, Machine!INSTR_JGE, INSTR_JGE
<1>8. \/ \E op \in Machine!ImmediateOps : Machine!Fetch(op)
      \/ machine_sp >= 2 /\ \E op \in Machine!CompareOps : Machine!Fetch(op)
  BY <1>1, <1>7, FetchRefined, Executing DEF OperandFault
<1>9. ~Machine!Mapped(machine_ip + 1)
  BY <1>1, Executing DEF OperandFault, Machine!Mapped, Mapped
<1> QED
  BY <1>2, <1>3, <1>5, <1>6, <1>8, <1>9 DEF Machine!OperandFault

-----------------------------------------------------------------------------
(* The steps of the loop around the instructions.                          *)

\* A stack that is entirely in memory.
StackInMemory(seg, p) == [i \in StackSlots |-> IF i <= p THEN seg[i] ELSE Junk]
CallInMemory(seg, p) == [i \in CallSlots |-> IF i <= p THEN seg[i] ELSE Junk]

\* Between two cycles everything is in memory.
LEMMA MemoryView ==
  ASSUME pc \in {"entry", "check", "done"}, error_code = 0
  PROVE  /\ machine_ip = instr_ptr /\ machine_sp = stack_ptr /\ machine_cp = call_ptr
         /\ machine_stack = StackInMemory(stack_seg, stack_ptr)
         /\ machine_call = CallInMemory(call_seg, call_ptr)
  BY DEF machine_ip, machine_sp, machine_cp, machine_stack, machine_call,
         StackTop, CallTop, StackWord, CallWord, InCycle, Failed,
         StackInMemory, CallInMemory

\* The same for the state a step leads to.
LEMMA MemoryViewNext ==
  ASSUME pc' \in {"entry", "check", "done"}, error_code' = 0
  PROVE  /\ machine_ip' = instr_ptr' /\ machine_sp' = stack_ptr'
         /\ machine_cp' = call_ptr'
         /\ machine_stack' = StackInMemory(stack_seg', stack_ptr')
         /\ machine_call' = CallInMemory(call_seg', call_ptr')
  BY DEF machine_ip, machine_sp, machine_cp, machine_stack, machine_call,
         StackTop, CallTop, StackWord, CallWord, InCycle, Failed,
         StackInMemory, CallInMemory

\* A program that has failed stays as it is.
LEMMA FailureKept ==
  ASSUME error_code # 0, error_code' # 0
  PROVE  UNCHANGED <<machine_ip, machine_sp, machine_cp, machine_stack, machine_call>>
  BY DEF machine_ip, machine_sp, machine_cp, machine_stack, machine_call, Failed

\* bispe_cycle_entry loads the lines of the pointers: the program sees nothing.
LEMMA EntryRefined ==
  ASSUME RefInv, bispe_cycle_entry
  PROVE  UNCHANGED Machine!vars /\ FetchOK' /\ ModeOK'
<1>1. /\ pc = "entry" /\ pc' = "exec"
      /\ error_code = 0 /\ error_code' = error_code
      /\ ~halt_flag /\ halt_flag' = halt_flag
      /\ code_seg' = code_seg /\ argv' = argv
      /\ print_seg' = print_seg /\ print_ptr' = print_ptr
      /\ cur_instr_ptr' = instr_ptr
      /\ cur_stack_ptr' = stack_ptr /\ stack_seg' = stack_seg
      /\ cur_call_ptr' = call_ptr /\ call_seg' = call_seg
      /\ cur_call_line' = LineOf(call_ptr)
      /\ rinstr_line' = CodeLine(LineOf(instr_ptr))
      /\ rstack_line' = ReadLine(stack_seg, LineOf(stack_ptr))
      /\ rcall_line' = ReadLine(call_seg, LineOf(call_ptr))
  BY DEF bispe_cycle_entry, RefInv, ModeOK, context, printstate
<1>2. FetchOK' /\ ModeOK'
  BY <1>1 DEF FetchOK, ModeOK, CodeLine, CodeAt
<1>3. StackView(stack_seg, ReadLine(stack_seg, LineOf(stack_ptr)), stack_ptr)
      = StackInMemory(stack_seg, stack_ptr)
  <2>1. ASSUME NEW i \in StackSlots, LineOf(i) = LineOf(stack_ptr)
        PROVE  ReadLine(stack_seg, LineOf(stack_ptr))[Ofs(i)] = stack_seg[i]
    <3>1. Ofs(i) \in 0 .. 3 /\ i = 4 * LineOf(i) + Ofs(i)
      BY LineOfs DEF StackSlots
    <3> QED
      BY <2>1, <3>1 DEF ReadLine
  <2> QED
    BY <2>1 DEF StackView, StackInMemory
<1>4. CallView(call_seg, ReadLine(call_seg, LineOf(call_ptr)), LineOf(call_ptr), call_ptr)
      = CallInMemory(call_seg, call_ptr)
  BY LoadedCells DEF CallView, CallInMemory
<1>5. machine_status' = machine_status
  BY <1>1, StatusView
<1>6. UNCHANGED <<machine_ip, machine_sp, machine_cp, machine_stack, machine_call>>
  BY <1>1, <1>3, <1>4, MemoryView, CycleViewNext
<1> QED
  BY <1>1, <1>2, <1>5, <1>6 DEF Machine!vars

\* bispe_cycle_outro writes the loaded lines back: no word of the stacks is
\* lost, whichever lines were loaded.
LEMMA OutroRefined ==
  ASSUME RefInv, bispe_cycle_outro
  PROVE  UNCHANGED Machine!vars /\ FetchOK' /\ ModeOK'
<1>1. /\ pc = "outro" /\ pc' = "check"
      /\ error_code = 0 /\ error_code' = error_code /\ halt_flag' = halt_flag
      /\ code_seg' = code_seg /\ argv' = argv
      /\ print_seg' = print_seg /\ print_ptr' = print_ptr
      /\ instr_ptr' = cur_instr_ptr
      /\ stack_ptr' = cur_stack_ptr /\ call_ptr' = cur_call_ptr
      /\ stack_seg' = WriteChain(stack_seg, LineOf(cur_stack_ptr), rstack_line,
                                 LineOf(cur_stack_ptr))
      /\ call_seg' = WriteChain(call_seg, cur_call_line, rcall_line, LineOf(cur_call_ptr))
  BY DEF bispe_cycle_outro, RefInv, ModeOK, context, printstate, WriteLine
<1>2. FetchOK' /\ ModeOK'
  BY <1>1 DEF FetchOK, ModeOK
<1>3. /\ cur_stack_ptr \in Int /\ LineOf(cur_stack_ptr) \in Int
      /\ DOMAIN stack_seg = StackSlots
      /\ cur_call_ptr \in Int /\ LineOf(cur_call_ptr) \in Int
      /\ call_seg \in [CallSlots -> WordJ]
  BY LineOfs DEF RefInv, IndInv, StackOK, CallOK, StackSlots, CallSlots
<1>4. StackInMemory(stack_seg', cur_stack_ptr)
      = StackView(stack_seg, rstack_line, cur_stack_ptr)
  <2>1. ASSUME NEW i \in StackSlots, i <= cur_stack_ptr
        PROVE  stack_seg'[i] = IF LineOf(i) = LineOf(cur_stack_ptr)
                               THEN rstack_line[Ofs(i)] ELSE stack_seg[i]
    <3>1. i \in Int /\ LineOf(i) \in Int
      BY LineOfs DEF StackSlots
    <3>2. LineOf(i) <= LineOf(cur_stack_ptr)
      BY <1>3, <2>1, <3>1, LineMonotonic
    <3>3. LineOf(i) # LineOf(cur_stack_ptr) + 1
      BY <1>3, <3>1, <3>2
    <3> QED
      BY <1>1, <1>3, <3>3 DEF WriteChain
  <2> QED
    BY <2>1 DEF StackInMemory, StackView
<1>5. CallInMemory(call_seg', cur_call_ptr)
      = CallView(call_seg, rcall_line, cur_call_line, cur_call_ptr)
  <2>1. ASSUME NEW i \in CallSlots, i <= cur_call_ptr
        PROVE  call_seg'[i] = IF LineOf(i) = cur_call_line
                              THEN rcall_line[Ofs(i)] ELSE call_seg[i]
    <3>1. LineOf(i) <= LineOf(cur_call_ptr)
      BY <1>3, <2>1, LineMonotonic DEF CallSlots
    <3> QED
      BY <1>1, <1>3, <3>1, ChainCells
  <2> QED
    BY <2>1 DEF CallInMemory, CallView
<1>6. machine_status' = machine_status
  BY <1>1, StatusView
<1>7. UNCHANGED <<machine_ip, machine_sp, machine_cp, machine_stack, machine_call>>
  BY <1>1, <1>4, <1>5, CycleView, MemoryViewNext
<1> QED
  BY <1>1, <1>2, <1>6, <1>7 DEF Machine!vars

\* Between two cycles start_interpreter clears the registers: nothing of the
\* program is left in them.
LEMMA ReturnedRefined ==
  ASSUME RefInv, CycleReturned
  PROVE  UNCHANGED Machine!vars /\ FetchOK' /\ ModeOK'
<1>1. /\ pc = "check" /\ pc' = (IF halt_flag THEN "done" ELSE "entry")
      /\ error_code' = error_code /\ halt_flag' = halt_flag
      /\ code_seg' = code_seg /\ argv' = argv
      /\ print_seg' = print_seg /\ print_ptr' = print_ptr
      /\ instr_ptr' = instr_ptr /\ stack_ptr' = stack_ptr /\ call_ptr' = call_ptr
      /\ stack_seg' = stack_seg /\ call_seg' = call_seg
  BY DEF CycleReturned, context, saved, printstate
<1>2. FetchOK' /\ ModeOK'
  BY <1>1 DEF FetchOK, RefInv, ModeOK
<1>3. machine_status' = machine_status
  BY <1>1, StatusView
<1>4. UNCHANGED <<machine_ip, machine_sp, machine_cp, machine_stack, machine_call>>
  <2>1. CASE error_code = 0
    BY <1>1, <2>1, MemoryView, MemoryViewNext
  <2>2. CASE error_code # 0
    BY <1>1, <2>2, FailureKept
  <2> QED
    BY <2>1, <2>2
<1> QED
  BY <1>1, <1>2, <1>3, <1>4 DEF Machine!vars

-----------------------------------------------------------------------------
(* The refinement.                                                         *)

\* start_interpreter begins in an initial state of the machine.
LEMMA InitRefined == Init => RefInv /\ Machine!Init
<1> SUFFICES ASSUME Init PROVE RefInv /\ Machine!Init
  OBVIOUS
<1>1. pc = "entry" /\ error_code = 0 /\ halt_flag = FALSE
  BY DEF Init
<1>2. RefInv
  BY <1>1, InitInd DEF RefInv, FetchOK, ModeOK
<1>3. /\ machine_ip = 0 /\ machine_sp = 0 /\ machine_cp = 0
      /\ machine_stack = StackInMemory(stack_seg, stack_ptr)
      /\ machine_call = CallInMemory(call_seg, call_ptr)
  BY <1>1, MemoryView DEF Init
<1>4. /\ machine_stack = Machine!EmptyStack
      /\ machine_call = Machine!EmptyCall
  BY <1>3, SameBytecode
     DEF Init, StackInMemory, CallInMemory, Machine!EmptyStack, Machine!EmptyCall
<1>5. machine_status = "running"
  BY <1>1, StatusView
<1>6. code_seg \in Seq(Machine!Word) /\ argv \in Seq(Machine!Word)
  BY InterpreterAssumption DEF Init, Machine!Word, Word
<1>7. print_seg = [i \in Machine!PrintSlots |-> Junk] /\ print_ptr = 0
  BY DEF Init, Machine!PrintSlots, PrintSlots
<1> QED
  BY <1>1, <1>2, <1>3, <1>4, <1>5, <1>6, <1>7 DEF Machine!Init

\* An instruction is a step of the machine.
LEMMA InstructionRefined ==
  ASSUME RefInv, Instruction PROVE Machine!Next /\ FetchOK' /\ ModeOK'
<1>1. ASSUME NEW op \in {INSTR_ADD, INSTR_SUB, INSTR_MUL, INSTR_DIV, INSTR_MOD},
             Machine!Arithmetic(op)
      PROVE  Machine!Next
  <2>1. op \in Machine!ArithmeticOps
    BY DEF Machine!ArithmeticOps, INSTR_ADD, INSTR_SUB, INSTR_MUL, INSTR_DIV, INSTR_MOD,
           Machine!INSTR_ADD, Machine!INSTR_SUB, Machine!INSTR_MUL, Machine!INSTR_DIV,
           Machine!INSTR_MOD
  <2> QED
    BY <1>1, <2>1 DEF Machine!Next
<1>2. ASSUME NEW op \in CompareOps, Machine!ConditionalJump(op)
      PROVE  Machine!Next
  <2>1. op \in Machine!CompareOps
    BY DEF Machine!CompareOps, CompareOps, Machine!INSTR_JEQ, INSTR_JEQ,
           Machine!INSTR_JNE, INSTR_JNE, Machine!INSTR_JL, INSTR_JL,
           Machine!INSTR_JLE, INSTR_JLE, Machine!INSTR_JG, INSTR_JG,
           Machine!INSTR_JGE, INSTR_JGE
  <2> QED
    BY <1>2, <2>1 DEF Machine!Next
<1>3. CASE instr_nop \/ instr_finish \/ instr_push \/ instr_print
  BY <1>3, NopRefined, FinishRefined, PushConstRefined, PrintRefined DEF Machine!Next
<1>4. CASE instr_load \/ instr_store
  BY <1>4, LoadRefined, StoreRefined DEF Machine!Next
<1>5. CASE instr_add \/ instr_sub \/ instr_mul
  BY <1>1, <1>5, ArithmeticRefined DEF instr_add, instr_sub, instr_mul
<1>6. CASE instr_div \/ instr_mod
  BY <1>1, <1>6, DivisionRefined DEF instr_div, instr_mod
<1>7. CASE instr_jmp
  BY <1>7, JmpRefined DEF Machine!Next
<1>8. CASE instr_jeq \/ instr_jne \/ instr_jl \/ instr_jle \/ instr_jg \/ instr_jge
  BY <1>2, <1>8, ConditionalJumpRefined
     DEF instr_jeq, instr_jne, instr_jl, instr_jle, instr_jg, instr_jge, CompareOps
<1>9. CASE instr_call \/ instr_ret \/ instr_prolog \/ instr_epilog \/ instr_argload
  BY <1>9, CallRefined, RetRefined, PrologRefined, EpilogRefined, ArgLoadRefined
     DEF Machine!Next
<1>10. CASE error_inv_opcode \/ OperandFault
  BY <1>10, InvalidOpcodeRefined, OperandFaultRefined DEF Machine!Next
<1> QED
  BY <1>3, <1>4, <1>5, <1>6, <1>7, <1>8, <1>9, <1>10 DEF Instruction

\* If nothing of the interpreter changes, nothing of the machine does.
LEMMA StutterRefined ==
  ASSUME RefInv, UNCHANGED vars
  PROVE  UNCHANGED Machine!vars /\ FetchOK' /\ ModeOK'
<1> USE DEF vars, context, saved, instrregs, stackstate, callstate, printstate
<1>1. FetchOK' /\ ModeOK'
  BY DEF RefInv, FetchOK, ModeOK, CodeLine, CodeAt
<1>2. UNCHANGED <<machine_ip, machine_sp, machine_cp, machine_stack, machine_call,
                  machine_status>>
  BY DEF machine_ip, machine_sp, machine_cp, machine_stack, machine_call, machine_status,
         StackTop, CallTop, StackWord, CallWord, InCycle, Failed
<1> QED
  BY <1>1, <1>2 DEF Machine!vars

\* Every step of the interpreter keeps the invariant and is a step of the
\* machine or none.
LEMMA StepRefined ==
  RefInv /\ [Next]_vars => RefInv' /\ [Machine!Next]_(Machine!vars)
<1> SUFFICES ASSUME RefInv, [Next]_vars
             PROVE  RefInv' /\ [Machine!Next]_(Machine!vars)
  OBVIOUS
<1>1. IndInv'
  BY NextInd DEF RefInv
<1>2. [Machine!Next]_(Machine!vars) /\ FetchOK' /\ ModeOK'
  <2>1. CASE bispe_cycle_entry
    BY <2>1, EntryRefined
  <2>2. CASE Instruction
    BY <2>2, InstructionRefined
  <2>3. CASE bispe_cycle_outro
    BY <2>3, OutroRefined
  <2>4. CASE CycleReturned
    BY <2>4, ReturnedRefined
  <2>5. CASE UNCHANGED vars
    BY <2>5, StutterRefined
  <2> QED
    BY <2>1, <2>2, <2>3, <2>4, <2>5 DEF Next
<1> QED
  BY <1>1, <1>2 DEF RefInv

(***************************************************************************)
(* The registers are in step with the memory: while instructions are       *)
(* executed the line of code in the register is the one the instruction    *)
(* pointer is in, and error_code and halt_flag are only set together, on   *)
(* the way out of the loop of start_interpreter.                           *)
(***************************************************************************)
THEOREM RegistersInStep == Spec => []RefInv
  BY InitRefined, StepRefined, PTL DEF Spec

(***************************************************************************)
(* The interpreter executes programs as BytecodeMachine says, whatever the *)
(* number of instructions per cycle: loading, chaining and writing back    *)
(* encrypted lines, and leaving the processor between two cycles, changes  *)
(* nothing the program can see.                                            *)
(***************************************************************************)
THEOREM Refinement == Spec => ImplementsMachine
  BY InitRefined, StepRefined, RegistersInStep, PTL
     DEF Spec, ImplementsMachine, Machine!Spec


-----------------------------------------------------------------------------
(* Control.  What FramesProofs shows of BytecodeMachine holds of the       *)
(* interpreter, which refines it.                                          *)

Framed == INSTANCE FramesProofs WITH
  ip <- machine_ip,
  sp <- machine_sp, stack <- machine_stack,
  cp <- machine_cp, call <- machine_call,
  status <- machine_status

\* The two instances are of the same machine and the same test.
LEMMA SameMachine ==
  /\ Machine!Init => Framed!Init
  /\ [Machine!Next]_(Machine!vars) => [Framed!Next]_(Framed!vars)
<1> USE DEF Machine!INSTR_NOP, Framed!INSTR_NOP, Machine!INSTR_FINISH,
            Framed!INSTR_FINISH, Machine!INSTR_PUSH, Framed!INSTR_PUSH,
            Machine!INSTR_PRINT, Framed!INSTR_PRINT, Machine!INSTR_LOAD,
            Framed!INSTR_LOAD, Machine!INSTR_STORE, Framed!INSTR_STORE,
            Machine!INSTR_ADD, Framed!INSTR_ADD, Machine!INSTR_SUB,
            Framed!INSTR_SUB, Machine!INSTR_MUL, Framed!INSTR_MUL,
            Machine!INSTR_DIV, Framed!INSTR_DIV, Machine!INSTR_MOD,
            Framed!INSTR_MOD, Machine!INSTR_JMP, Framed!INSTR_JMP,
            Machine!INSTR_JEQ, Framed!INSTR_JEQ, Machine!INSTR_JNE,
            Framed!INSTR_JNE, Machine!INSTR_JL, Framed!INSTR_JL,
            Machine!INSTR_JLE, Framed!INSTR_JLE, Machine!INSTR_JG,
            Framed!INSTR_JG, Machine!INSTR_JGE, Framed!INSTR_JGE,
            Machine!INSTR_CALL, Framed!INSTR_CALL, Machine!INSTR_RET,
            Framed!INSTR_RET, Machine!INSTR_PROLOG, Framed!INSTR_PROLOG,
            Machine!INSTR_EPILOG, Framed!INSTR_EPILOG, Machine!INSTR_ARGLOAD,
            Framed!INSTR_ARGLOAD,
            Machine!Word, Framed!Word, Machine!WordJ, Framed!WordJ,
            Machine!MaxOpcode, Framed!MaxOpcode, Machine!ERR_INV_OPCODE,
            Framed!ERR_INV_OPCODE, Machine!ERR_JMP_BOUNDS,
            Framed!ERR_JMP_BOUNDS, Machine!ERR_STACK_OVERFLOW,
            Framed!ERR_STACK_OVERFLOW, Machine!ERR_STACK_UNDERFLOW,
            Framed!ERR_STACK_UNDERFLOW, Machine!ERR_CALL_OVERFLOW,
            Framed!ERR_CALL_OVERFLOW, Machine!ERR_CALL_UNDERFLOW,
            Framed!ERR_CALL_UNDERFLOW, Machine!ERR_DIV_ZERO,
            Framed!ERR_DIV_ZERO, Machine!ERR_ARG_RANGE, Framed!ERR_ARG_RANGE,
            Machine!Displacement, Framed!Displacement, Machine!Readings,
            Framed!Readings, Machine!StackSlots, Framed!StackSlots,
            Machine!CallSlots, Framed!CallSlots, Machine!PrintSlots,
            Framed!PrintSlots, Machine!EmptyStack, Framed!EmptyStack,
            Machine!EmptyCall, Framed!EmptyCall, Machine!CodeAt,
            Framed!CodeAt, Machine!Mapped, Framed!Mapped, Machine!Fetch,
            Framed!Fetch, Machine!Operand, Framed!Operand, Machine!Continue,
            Framed!Continue, Machine!stackvars, Framed!stackvars,
            Machine!callvars, Framed!callvars, Machine!printvars,
            Framed!printvars, Machine!Fail, Framed!Fail, Machine!Push,
            Framed!Push, Machine!PopAndSet, Framed!PopAndSet, Machine!Pop,
            Framed!Pop, Machine!DropCall, Framed!DropCall
<1>1. Machine!Init => Framed!Init
  BY DEF Machine!Init, Framed!Init
<1>2. /\ (Machine!Nop => Framed!Nop)
      /\ (Machine!Finish => Framed!Finish)
      /\ (Machine!PushConst => Framed!PushConst)
      /\ (Machine!PrintTop => Framed!PrintTop)
  BY DEF Machine!Nop, Framed!Nop, Machine!Finish, Framed!Finish,
         Machine!PushConst, Framed!PushConst, Machine!PrintTop,
         Framed!PrintTop
<1>3. Machine!Load => Framed!Load
  BY DEF Machine!Load, Framed!Load
<1>4. Machine!Store => Framed!Store
  BY DEF Machine!Store, Framed!Store
<1>5. \A op : Machine!Arithmetic(op) => Framed!Arithmetic(op)
  BY DEF Machine!Arithmetic, Framed!Arithmetic, Machine!Arith, Framed!Arith
<1>6. Machine!Jump => Framed!Jump
  BY DEF Machine!Jump, Framed!Jump
<1>7. \A op : Machine!ConditionalJump(op) => Framed!ConditionalJump(op)
  BY DEF Machine!ConditionalJump, Framed!ConditionalJump, Machine!Outcomes,
         Framed!Outcomes, Machine!Compare, Framed!Compare, Machine!Signed,
         Framed!Signed
<1>8. Machine!Call => Framed!Call
  BY DEF Machine!Call, Framed!Call
<1>9. Machine!Ret => Framed!Ret
  BY DEF Machine!Ret, Framed!Ret
<1>10. Machine!Prolog => Framed!Prolog
  BY DEF Machine!Prolog, Framed!Prolog
<1>11. Machine!Epilog => Framed!Epilog
  BY DEF Machine!Epilog, Framed!Epilog
<1>12. Machine!ArgLoad => Framed!ArgLoad
  BY DEF Machine!ArgLoad, Framed!ArgLoad
<1>13. /\ (Machine!InvalidOpcode => Framed!InvalidOpcode)
      /\ (Machine!OperandFault => Framed!OperandFault)
  BY DEF Machine!InvalidOpcode, Framed!InvalidOpcode, Machine!OperandFault,
         Framed!OperandFault, Machine!ImmediateOps, Framed!ImmediateOps,
         Machine!CompareOps, Framed!CompareOps
<1>14. /\ Machine!vars = Framed!vars /\ (UNCHANGED Machine!vars => UNCHANGED Framed!vars)
       /\ Machine!ArithmeticOps = Framed!ArithmeticOps /\ Machine!CompareOps = Framed!CompareOps
  BY DEF Machine!vars, Framed!vars, Machine!ArithmeticOps,
         Framed!ArithmeticOps, Machine!CompareOps, Framed!CompareOps
<1>15. Machine!Next => Framed!Next
  BY <1>2, <1>3, <1>4, <1>5, <1>6, <1>7, <1>8, <1>9, <1>10, <1>11, <1>12, <1>13, <1>14
     DEF Machine!Next, Framed!Next
<1> QED
  BY <1>1, <1>14, <1>15

LEMMA SameTest == Framed!ControlStays => Machine!ControlStays
<1> USE DEF Machine!INSTR_NOP, Framed!INSTR_NOP, Machine!INSTR_FINISH,
            Framed!INSTR_FINISH, Machine!INSTR_PUSH, Framed!INSTR_PUSH,
            Machine!INSTR_PRINT, Framed!INSTR_PRINT, Machine!INSTR_LOAD,
            Framed!INSTR_LOAD, Machine!INSTR_STORE, Framed!INSTR_STORE,
            Machine!INSTR_ADD, Framed!INSTR_ADD, Machine!INSTR_SUB,
            Framed!INSTR_SUB, Machine!INSTR_MUL, Framed!INSTR_MUL,
            Machine!INSTR_DIV, Framed!INSTR_DIV, Machine!INSTR_MOD,
            Framed!INSTR_MOD, Machine!INSTR_JMP, Framed!INSTR_JMP,
            Machine!INSTR_JEQ, Framed!INSTR_JEQ, Machine!INSTR_JNE,
            Framed!INSTR_JNE, Machine!INSTR_JL, Framed!INSTR_JL,
            Machine!INSTR_JLE, Framed!INSTR_JLE, Machine!INSTR_JG,
            Framed!INSTR_JG, Machine!INSTR_JGE, Framed!INSTR_JGE,
            Machine!INSTR_CALL, Framed!INSTR_CALL, Machine!INSTR_RET,
            Framed!INSTR_RET, Machine!INSTR_PROLOG, Framed!INSTR_PROLOG,
            Machine!INSTR_EPILOG, Framed!INSTR_EPILOG, Machine!INSTR_ARGLOAD,
            Framed!INSTR_ARGLOAD, Machine!CompareOps, Framed!CompareOps,
            Machine!ImmediateOps, Framed!ImmediateOps
<1>1. \A words, p : /\ Machine!Safe(words, p) <=> Framed!Safe(words, p)
                    /\ Machine!Succ(words, p) = Framed!Succ(words, p)
  BY DEF Machine!Safe, Framed!Safe, Machine!Succ, Framed!Succ, Machine!OpAt,
         Framed!OpAt, Machine!OperandAt, Framed!OperandAt,
         Machine!WithOperand, Framed!WithOperand, Machine!InFrame,
         Framed!InFrame, Machine!Goto, Framed!Goto, Machine!NoCaller,
         Framed!NoCaller, Machine!Word, Framed!Word, Machine!MaxOpcode,
         Framed!MaxOpcode, Machine!Displacement, Framed!Displacement
<1>2. \A words : Machine!Reached(words) = Framed!Reached(words)
  BY DEF Machine!Reached, Framed!Reached, Machine!Safe, Framed!Safe,
         Machine!Succ, Framed!Succ, Machine!OpAt, Framed!OpAt,
         Machine!OperandAt, Framed!OperandAt, Machine!WithOperand,
         Framed!WithOperand, Machine!InFrame, Framed!InFrame, Machine!Goto,
         Framed!Goto, Machine!Place, Framed!Place, Machine!Entry,
         Framed!Entry, Machine!NoCaller, Framed!NoCaller, Machine!Word,
         Framed!Word, Machine!MaxOpcode, Framed!MaxOpcode,
         Machine!Displacement, Framed!Displacement
<1>3. \A words : Machine!WellFramed(words) <=> Framed!WellFramed(words)
  BY <1>1, <1>2 DEF Machine!WellFramed, Framed!WellFramed, Machine!Place, Framed!Place,
         Machine!Entry, Framed!Entry, Machine!NoCaller, Framed!NoCaller
<1>4. Machine!ControlLost <=> Framed!ControlLost
  BY DEF Machine!ControlLost, Framed!ControlLost, Machine!ERR_INV_OPCODE,
         Framed!ERR_INV_OPCODE, Machine!ERR_JMP_BOUNDS, Framed!ERR_JMP_BOUNDS,
         Machine!ERR_CALL_UNDERFLOW, Framed!ERR_CALL_UNDERFLOW
<1> QED
  BY <1>3, <1>4 DEF Machine!ControlStays, Framed!ControlStays

(***************************************************************************)
(* The interpreter keeps to the instructions of a program that is well     *)
(* framed: whatever its arguments, however many instructions a cycle has,  *)
(* and with the call stack in encrypted lines, a RET finds the address its *)
(* CALL has written, and start_interpreter ends with none of the errors    *)
(* invalid opcode, jump out of bounds and call stack underflow.            *)
(***************************************************************************)
THEOREM ControlKept == Spec => []ControlStays
<1>1. Framed!Sizes
  BY InterpreterAssumption DEF Framed!Sizes
<1>2. Framed!Spec => []Framed!ControlStays
  BY <1>1, Framed!UnderControl, WordAssumption
<1>3. Spec => Machine!Spec
  BY Refinement DEF ImplementsMachine
<1>4. Framed!ControlStays => ControlStays
  BY SameTest DEF ControlStays
<1> QED
  BY <1>2, <1>3, <1>4, SameMachine, PTL DEF Machine!Spec, Framed!Spec
=============================================================================
