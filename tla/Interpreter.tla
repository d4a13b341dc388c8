----------------------------- MODULE Interpreter -----------------------------
(***************************************************************************)
(* The interpreter of the kernel module: start_interpreter's loop of       *)
(* instruction cycles and the assembler that runs one cycle.  A cycle      *)
(* loads the saved pointers and three lines into registers, executes       *)
(* instructions until it has executed bispe_instr_per_cycle of them or the *)
(* program halts, and then encrypts the stack line and the call line back  *)
(* to memory.  Interrupts and preemption are off during a cycle, so the    *)
(* program may only be interrupted between two of them.                    *)
(*                                                                         *)
(* A segment is represented by what decrypting it would yield, word by     *)
(* word.  In CBC mode the plain text of a block depends on the cipher text *)
(* of the block before it: writing the lines l..e afresh leaves them and   *)
(* everything else readable, but turns line e+1 into Junk.                 *)
(***************************************************************************)
EXTENDS Bytecode, Sequences

CONSTANTS
  Programs,      \* code segments that can be run: sequences of words
  Arguments,     \* argument vectors that can be passed: sequences of words
  Ipcs,          \* values of ipc, the instructions per cycle
  StackLines,    \* size of the operand stack segment in lines
  CallLines,     \* size of the call stack segment in lines
  PrintWords,    \* size of the print segment in words
  OverrunLines   \* readable lines between the end of the code and the
                 \* first unmapped page

ASSUME InterpreterAssumption ==
  /\ \A p \in Programs : /\ p \in Seq(Word)
                         /\ Len(p) % 4 = 0
                         /\ Len(p) < WordMod
  /\ \A a \in Arguments : a \in Seq(Word)
  /\ Ipcs \subseteq Nat \ {0}
  /\ StackLines \in Nat \ {0}
  /\ CallLines \in Nat \ {0}
  /\ PrintWords \in Nat \ {0}
  /\ OverrunLines \in Nat

StackSlots == 0 .. 4 * StackLines - 1
CallSlots == 0 .. 4 * CallLines - 1
PrintSlots == 0 .. PrintWords - 1
Line == [0 .. 3 -> WordJ]

VARIABLES
  \* the runtime context of the execution, never changed
  code_seg, argv, bispe_instr_per_cycle,
  \* memory: segments, saved pointers and flags
  stack_seg, call_seg, print_seg,
  instr_ptr, stack_ptr, call_ptr, print_ptr,
  halt_flag, error_code,
  \* registers
  instr_cnt, cur_instr_ptr, cur_stack_ptr, cur_call_ptr, cur_call_line,
  rinstr_line, rstack_line, rcall_line,
  \* where the interpreter thread is
  pc,
  \* history variable: the last words printed, at most PrintWords of them
  output

context == <<code_seg, argv, bispe_instr_per_cycle>>
saved == <<instr_ptr, stack_ptr, call_ptr>>
instrregs == <<cur_instr_ptr, rinstr_line>>
stackstate == <<cur_stack_ptr, rstack_line, stack_seg>>
callstate == <<cur_call_ptr, cur_call_line, rcall_line, call_seg>>
printstate == <<print_seg, print_ptr, output>>
vars == <<context, saved, halt_flag, error_code, instr_cnt, instrregs,
          stackstate, callstate, printstate, pc>>

(***************************************************************************)
(* pc is "entry" at the head of the loop, "exec" when an instruction is    *)
(* about to be executed, "outro" at bispe_cycle_outro, "check" when the    *)
(* cycle has returned, "done" behind the loop and "oops" after an access   *)
(* to an unmapped page.                                                    *)
(***************************************************************************)
TypeOK ==
  /\ code_seg \in Seq(Word)
  /\ argv \in Seq(Word)
  /\ bispe_instr_per_cycle \in Ipcs
  /\ stack_seg \in [StackSlots -> WordJ]
  /\ call_seg \in [CallSlots -> WordJ]
  /\ print_seg \in [PrintSlots -> WordJ]
  /\ instr_ptr \in Nat /\ cur_instr_ptr \in Nat
  /\ stack_ptr \in StackSlots /\ cur_stack_ptr \in StackSlots
  /\ call_ptr \in CallSlots /\ cur_call_ptr \in CallSlots
  /\ cur_call_line \in 0 .. CallLines - 1
  /\ print_ptr \in PrintSlots
  /\ halt_flag \in BOOLEAN
  /\ error_code \in 0 .. 8
  /\ instr_cnt \in Nat
  /\ rinstr_line \in Line /\ rstack_line \in Line /\ rcall_line \in Line
  /\ pc \in {"entry", "exec", "outro", "check", "done", "oops"}
  /\ output \in Seq(WordJ)

ZeroLine == [k \in 0 .. 3 |-> 0]

\* start_interpreter: the pointers are set to the base of their segments,
\* the flags are reset.  The segments come from vmalloc uninitialised.
Init ==
  /\ code_seg \in Programs
  /\ argv \in Arguments
  /\ bispe_instr_per_cycle \in Ipcs
  /\ stack_seg = [i \in StackSlots |-> Junk]
  /\ call_seg = [i \in CallSlots |-> Junk]
  /\ print_seg = [i \in PrintSlots |-> Junk]
  /\ instr_ptr = 0 /\ stack_ptr = 0 /\ call_ptr = 0 /\ print_ptr = 0
  /\ halt_flag = FALSE /\ error_code = 0
  /\ instr_cnt = 0
  /\ cur_instr_ptr = 0 /\ cur_stack_ptr = 0 /\ cur_call_ptr = 0
  /\ cur_call_line = 0
  /\ rinstr_line = ZeroLine /\ rstack_line = ZeroLine /\ rcall_line = ZeroLine
  /\ pc = "entry"
  /\ output = << >>

-----------------------------------------------------------------------------
(* Encrypted memory.                                                       *)

\* decrypt_memory_cbc: the line l of a segment.
ReadLine(seg, l) == [k \in 0 .. 3 |-> seg[4 * l + k]]

\* encrypt_reg_cbc_chain: write line l and encrypt the lines up to e again.
WriteChain(seg, l, line, e) ==
  [w \in DOMAIN seg |-> IF LineOf(w) = l THEN line[Ofs(w)]
                        ELSE IF LineOf(w) = e + 1 THEN Junk
                        ELSE seg[w]]

\* encrypt_reg_cbc: write line l only.
WriteLine(seg, l, line) == WriteChain(seg, l, line, l)

CodeAt(p) == IF p < Len(code_seg) THEN code_seg[p + 1] ELSE Junk
CodeLine(l) == [k \in 0 .. 3 |-> CodeAt(4 * l + k)]

\* The pages behind the code are unmapped; touching them is a kernel oops.
Mapped(p) == p < Len(code_seg) + 4 * OverrunLines

-----------------------------------------------------------------------------
(* Leaving an instruction.                                                 *)

\* The instruction line after inc_instr_ptr has moved the pointer to p.
InstrLineAt(p) == IF LineOf(p) = LineOf(cur_instr_ptr)
                  THEN rinstr_line ELSE CodeLine(LineOf(p))

\* Mutant: the counter is compared before it is increased.
CountInstr_late ==
  /\ instr_cnt' = instr_cnt + 1
  /\ pc' = IF instr_cnt = bispe_instr_per_cycle THEN "outro" ELSE "exec"

\* inc_and_check_cycle_cnt
CountInstr ==
  /\ instr_cnt' = instr_cnt + 1
  /\ pc' = IF instr_cnt + 1 = bispe_instr_per_cycle THEN "outro" ELSE "exec"

\* goto_next_instr, after inc_instr_ptr has skipped the operand if any
NextInstr(p) ==
  /\ IF Mapped(p)
     THEN /\ cur_instr_ptr' = p
          /\ rinstr_line' = InstrLineAt(p)
          /\ CountInstr
     ELSE /\ pc' = "oops"
          /\ UNCHANGED <<instrregs, instr_cnt>>
  /\ UNCHANGED <<context, saved, halt_flag, error_code>>

\* Mutant: jumps are not counted.
JumpTo_uncounted(t) ==
  /\ cur_instr_ptr' = t
  /\ rinstr_line' = CodeLine(LineOf(t))
  /\ UNCHANGED <<instr_cnt, pc, context, saved, halt_flag, error_code>>

\* calc_jmp_target succeeded: fetch_instr_line loads the line of the target.
JumpTo(t) ==
  /\ cur_instr_ptr' = t
  /\ rinstr_line' = CodeLine(LineOf(t))
  /\ CountInstr
  /\ UNCHANGED <<context, saved, halt_flag, error_code>>

\* The error exits: the flags are set and the cycle is left without the
\* outro.  What reached memory before the error stays there.
Error(err) ==
  /\ error_code' = err
  /\ halt_flag' = TRUE
  /\ pc' = "check"
  /\ UNCHANGED <<context, saved, instrregs, instr_cnt, cur_stack_ptr,
                 rstack_line, cur_call_ptr, cur_call_line, rcall_line,
                 printstate>>

ErrorInPlace(err) == Error(err) /\ UNCHANGED <<stack_seg, call_seg>>

-----------------------------------------------------------------------------
(* The operand stack.                                                      *)

\* The stack segment after inc_stack_ptr: a full line is written back.
StackSegAfterInc ==
  IF Ofs(cur_stack_ptr) = 3
  THEN WriteLine(stack_seg, LineOf(cur_stack_ptr), rstack_line)
  ELSE stack_seg

StackOverflow == Ofs(cur_stack_ptr) = 3 /\ cur_stack_ptr + 1 >= 4 * StackLines

\* inc_stack_ptr and ins_stack
PushStack(v) ==
  /\ cur_stack_ptr' = cur_stack_ptr + 1
  /\ rstack_line' = [rstack_line EXCEPT ![Ofs(cur_stack_ptr + 1)] = v]
  /\ stack_seg' = StackSegAfterInc

\* The stack line after one or two dec_stack_ptr have moved the pointer to p.
StackLineAt(p) == IF LineOf(p) = LineOf(cur_stack_ptr)
                  THEN rstack_line ELSE ReadLine(stack_seg, LineOf(p))

\* extr_stack, before and after the first dec_stack_ptr
Top == rstack_line[Ofs(cur_stack_ptr)]
Second == StackLineAt(cur_stack_ptr - 1)[Ofs(cur_stack_ptr - 1)]

PopStack(n) ==
  /\ cur_stack_ptr' = cur_stack_ptr - n
  /\ rstack_line' = StackLineAt(cur_stack_ptr - n)
  /\ UNCHANGED stack_seg

-----------------------------------------------------------------------------
(* The call stack.  The loaded line need not be the topmost one.           *)

\* Mutant: the lines above the one given up are not encrypted again.
CallSegFor_unchained(p, l) ==
  IF l = cur_call_line THEN call_seg
  ELSE WriteLine(call_seg, cur_call_line, rcall_line)

\* fetch_call_line with call pointer p: the segment and the loaded line
\* afterwards.  The line given up is written with all lines up to the top.
CallSegFor(p, l) == IF l = cur_call_line THEN call_seg
                    ELSE WriteChain(call_seg, cur_call_line, rcall_line, LineOf(p))
CallLineFor(p, l) == IF l = cur_call_line THEN rcall_line
                     ELSE ReadLine(CallSegFor(p, l), l)

\* save_call_element at address q, with call pointer p
SaveCallElement(p, q, v) ==
  /\ call_seg' = CallSegFor(p, LineOf(q))
  /\ rcall_line' = [CallLineFor(p, LineOf(q)) EXCEPT ![Ofs(q)] = v]
  /\ cur_call_line' = LineOf(q)

\* Mutant: off by one.
CallOverflow_late(n) == cur_call_ptr + n > 4 * CallLines

\* inc_call_ptr refuses an amount that reaches the end of the segment.
CallOverflow(n) == cur_call_ptr + n >= 4 * CallLines

\* Mutant: the loaded line is kept although the call pointer moved below it.
DecCallPtr_keep(n, seg, line, l) ==
  /\ cur_call_ptr' = cur_call_ptr - n
  /\ call_seg' = seg /\ rcall_line' = line /\ cur_call_line' = l

\* dec_call_ptr by n, with segment, loaded line and its number given.  If
\* the loaded line lies above the new top it is written back and the line
\* of the new top is loaded.
DecCallPtr(n, seg, line, l) ==
  LET q == cur_call_ptr - n
      flushed == WriteChain(seg, l, line, LineOf(cur_call_ptr))
  IN /\ cur_call_ptr' = q
     /\ IF 4 * l <= q
        THEN call_seg' = seg /\ rcall_line' = line /\ cur_call_line' = l
        ELSE /\ call_seg' = flushed
             /\ rcall_line' = ReadLine(flushed, LineOf(q))
             /\ cur_call_line' = LineOf(q)

-----------------------------------------------------------------------------
(* One cycle and the loop around it.                                       *)

\* bispe_cycle_entry.  Of its calls only force_call_line_fetch can fail, on
\* a call pointer below the segment.
bispe_cycle_entry ==
  /\ pc = "entry"
  /\ instr_cnt' = 0
  /\ cur_instr_ptr' = instr_ptr
  /\ cur_stack_ptr' = stack_ptr
  /\ cur_call_ptr' = call_ptr
  /\ rinstr_line' = CodeLine(LineOf(instr_ptr))
  /\ rstack_line' = ReadLine(stack_seg, LineOf(stack_ptr))
  /\ cur_call_line' = LineOf(call_ptr)
  /\ rcall_line' = ReadLine(call_seg, LineOf(call_ptr))
  /\ pc' = "exec"
  /\ UNCHANGED <<context, saved, halt_flag, error_code, stack_seg, call_seg,
                 printstate>>

\* bispe_cycle_outro
bispe_cycle_outro ==
  /\ pc = "outro"
  /\ stack_seg' = WriteLine(stack_seg, LineOf(cur_stack_ptr), rstack_line)
  /\ call_seg' = WriteChain(call_seg, cur_call_line, rcall_line,
                            LineOf(cur_call_ptr))
  /\ instr_ptr' = cur_instr_ptr
  /\ stack_ptr' = cur_stack_ptr
  /\ call_ptr' = cur_call_ptr
  /\ pc' = "check"
  /\ UNCHANGED <<context, halt_flag, error_code, instr_cnt, instrregs,
                 cur_stack_ptr, rstack_line, cur_call_ptr, cur_call_line,
                 rcall_line, printstate>>

\* start_interpreter behind the cycle: registers are cleared, the loop is
\* left if the program has halted.
CycleReturned ==
  /\ pc = "check"
  /\ pc' = IF halt_flag THEN "done" ELSE "entry"
  /\ rinstr_line' = ZeroLine /\ rstack_line' = ZeroLine /\ rcall_line' = ZeroLine
  /\ cur_instr_ptr' = 0 /\ cur_stack_ptr' = 0 /\ cur_call_ptr' = 0
  /\ cur_call_line' = 0 /\ instr_cnt' = 0
  /\ UNCHANGED <<context, saved, halt_flag, error_code, stack_seg, call_seg,
                 printstate>>

\* jmp_through_table dispatches the opcode extr_next_instr reads.
Dispatch(op) == pc = "exec" /\ op \in Readings(rinstr_line[Ofs(cur_instr_ptr)])

\* inc_instr_ptr and extr_next_instr for the operand of an instruction
Operand == LET p == cur_instr_ptr + 1
           IN IF Mapped(p) THEN Readings(InstrLineAt(p)[Ofs(p)]) ELSE {}

JmpBounds(t) == t >= Len(code_seg)

-----------------------------------------------------------------------------
(* Instructions.                                                           *)

instr_nop ==
  /\ Dispatch(INSTR_NOP)
  /\ NextInstr(cur_instr_ptr + 1)
  /\ UNCHANGED <<stackstate, callstate, printstate>>

instr_finish ==
  /\ Dispatch(INSTR_FINISH)
  /\ halt_flag' = TRUE
  /\ pc' = "outro"
  /\ UNCHANGED <<context, saved, error_code, instr_cnt, instrregs,
                 stackstate, callstate, printstate>>

instr_push ==
  /\ Dispatch(INSTR_PUSH)
  /\ \E d \in Operand :
       IF StackOverflow
       THEN /\ Error(ERR_STACK_OVERFLOW)
            /\ stack_seg' = StackSegAfterInc
            /\ UNCHANGED call_seg
       ELSE /\ PushStack(d)
            /\ NextInstr(cur_instr_ptr + 2)
            /\ UNCHANGED <<callstate, printstate>>

\* The last PrintWords words of out followed by v.
Window(out, v) == IF Len(out) < PrintWords THEN Append(out, v)
                  ELSE Append(Tail(out), v)

\* Mutant: the print pointer is advanced before the word is written.
instr_print_early ==
  LET next == IF print_ptr + 1 >= PrintWords THEN 0 ELSE print_ptr + 1
  IN /\ Dispatch(INSTR_PRINT)
     /\ IF cur_stack_ptr < 1
        THEN ErrorInPlace(ERR_STACK_UNDERFLOW)
        ELSE /\ PopStack(1)
             /\ print_seg' = [print_seg EXCEPT ![next] = Top]
             /\ print_ptr' = next
             /\ output' = Window(output, Top)
             /\ NextInstr(cur_instr_ptr + 1)
             /\ UNCHANGED callstate

instr_print ==
  /\ Dispatch(INSTR_PRINT)
  /\ IF cur_stack_ptr < 1
     THEN ErrorInPlace(ERR_STACK_UNDERFLOW)
     ELSE /\ PopStack(1)
          /\ print_seg' = [print_seg EXCEPT ![print_ptr] = Top]
          /\ print_ptr' = IF print_ptr + 1 >= PrintWords THEN 0 ELSE print_ptr + 1
          /\ output' = Window(output, Top)
          /\ NextInstr(cur_instr_ptr + 1)
          /\ UNCHANGED callstate

instr_load ==
  /\ Dispatch(INSTR_LOAD)
  /\ \E d \in Operand :
       LET q == cur_call_ptr - Displacement(d)
           l == LineOf(q)
       IN CASE l < 0 -> ErrorInPlace(ERR_CALL_UNDERFLOW)
            [] l >= 0 /\ StackOverflow ->
                 /\ Error(ERR_STACK_OVERFLOW)
                 /\ call_seg' = CallSegFor(cur_call_ptr, l)
                 /\ stack_seg' = StackSegAfterInc
            [] OTHER ->
                 /\ call_seg' = CallSegFor(cur_call_ptr, l)
                 /\ rcall_line' = CallLineFor(cur_call_ptr, l)
                 /\ cur_call_line' = l
                 /\ PushStack(CallLineFor(cur_call_ptr, l)[Ofs(q)])
                 /\ NextInstr(cur_instr_ptr + 2)
                 /\ UNCHANGED <<cur_call_ptr, printstate>>

instr_store ==
  /\ Dispatch(INSTR_STORE)
  /\ \E d \in Operand :
       LET q == cur_call_ptr - Displacement(d)
       IN CASE cur_stack_ptr < 1 -> ErrorInPlace(ERR_STACK_UNDERFLOW)
            [] cur_stack_ptr >= 1 /\ LineOf(q) < 0 ->
                 ErrorInPlace(ERR_CALL_UNDERFLOW)
            [] OTHER ->
                 /\ PopStack(1)
                 /\ SaveCallElement(cur_call_ptr, q, Top)
                 /\ NextInstr(cur_instr_ptr + 2)
                 /\ UNCHANGED <<cur_call_ptr, printstate>>

\* Pop one word and replace the next one by v.
ReplaceTop(v) ==
  LET q == cur_stack_ptr - 1
  IN /\ cur_stack_ptr' = q
     /\ rstack_line' = [StackLineAt(q) EXCEPT ![Ofs(q)] = v]
     /\ UNCHANGED stack_seg
     /\ NextInstr(cur_instr_ptr + 1)
     /\ UNCHANGED <<callstate, printstate>>

\* Mutant: the operands are exchanged.
Arithmetic_swapped(op) ==
  /\ Dispatch(op)
  /\ IF cur_stack_ptr < 1
     THEN ErrorInPlace(ERR_STACK_UNDERFLOW)
     ELSE ReplaceTop(Arith(op, Top, Second))

Arithmetic(op) ==
  /\ Dispatch(op)
  /\ IF cur_stack_ptr < 1
     THEN ErrorInPlace(ERR_STACK_UNDERFLOW)
     ELSE ReplaceTop(Arith(op, Second, Top))

instr_add == Arithmetic(INSTR_ADD)
instr_sub == Arithmetic(INSTR_SUB)
instr_mul == Arithmetic(INSTR_MUL)

\* The divisor is popped and examined before the dividend is read.
Division(op) ==
  /\ Dispatch(op)
  /\ IF cur_stack_ptr < 1
     THEN ErrorInPlace(ERR_STACK_UNDERFLOW)
     ELSE \/ 0 \in Readings(Top) /\ ErrorInPlace(ERR_DIV_ZERO)
          \/ Top # 0 /\ ReplaceTop(Arith(op, Second, Top))

instr_div == Division(INSTR_DIV)
instr_mod == Division(INSTR_MOD)

instr_jmp ==
  /\ Dispatch(INSTR_JMP)
  /\ \E t \in Operand :
       IF JmpBounds(t)
       THEN ErrorInPlace(ERR_JMP_BOUNDS)
       ELSE JumpTo(t) /\ UNCHANGED <<stackstate, callstate, printstate>>

\* Both operands are popped first; the target is only examined if the jump
\* is taken.
ConditionalJump(op) ==
  /\ Dispatch(op)
  /\ IF cur_stack_ptr < 2
     THEN ErrorInPlace(ERR_STACK_UNDERFLOW)
     ELSE \E taken \in Outcomes(op, Second, Top), t \in Operand :
            IF taken /\ JmpBounds(t)
            THEN ErrorInPlace(ERR_JMP_BOUNDS)
            ELSE /\ PopStack(2)
                 /\ IF taken THEN JumpTo(t) ELSE NextInstr(cur_instr_ptr + 2)
                 /\ UNCHANGED <<callstate, printstate>>

instr_jeq == ConditionalJump(INSTR_JEQ)
instr_jne == ConditionalJump(INSTR_JNE)
instr_jl == ConditionalJump(INSTR_JL)
instr_jle == ConditionalJump(INSTR_JLE)
instr_jg == ConditionalJump(INSTR_JG)
instr_jge == ConditionalJump(INSTR_JGE)

\* Mutant: the return address is the operand of the call.
instr_call_operand ==
  /\ Dispatch(INSTR_CALL)
  /\ \E t \in Operand :
       CASE JmpBounds(t) -> ErrorInPlace(ERR_JMP_BOUNDS)
         [] ~JmpBounds(t) /\ CallOverflow(1) -> ErrorInPlace(ERR_CALL_OVERFLOW)
         [] OTHER ->
              /\ cur_call_ptr' = cur_call_ptr + 1
              /\ SaveCallElement(cur_call_ptr + 1, cur_call_ptr + 1,
                                 cur_instr_ptr + 1)
              /\ JumpTo(t)
              /\ UNCHANGED <<stackstate, printstate>>

\* The return address is a word: the number of the word behind the operand.
instr_call ==
  /\ Dispatch(INSTR_CALL)
  /\ \E t \in Operand :
       CASE JmpBounds(t) -> ErrorInPlace(ERR_JMP_BOUNDS)
         [] ~JmpBounds(t) /\ CallOverflow(1) -> ErrorInPlace(ERR_CALL_OVERFLOW)
         [] OTHER ->
              /\ cur_call_ptr' = cur_call_ptr + 1
              /\ SaveCallElement(cur_call_ptr + 1, cur_call_ptr + 1,
                                 (cur_instr_ptr + 2) % WordMod)
              /\ JumpTo(t)
              /\ UNCHANGED <<stackstate, printstate>>

instr_ret ==
  LET l == LineOf(cur_call_ptr)
      seg == CallSegFor(cur_call_ptr, l)
      line == CallLineFor(cur_call_ptr, l)
  IN /\ Dispatch(INSTR_RET)
     /\ \E t \in Readings(line[Ofs(cur_call_ptr)]) :
          CASE JmpBounds(t) ->
                 Error(ERR_JMP_BOUNDS) /\ call_seg' = seg /\ UNCHANGED stack_seg
            [] ~JmpBounds(t) /\ cur_call_ptr < 1 ->
                 Error(ERR_CALL_UNDERFLOW) /\ call_seg' = seg /\ UNCHANGED stack_seg
            [] OTHER -> /\ DecCallPtr(1, seg, line, l)
                        /\ JumpTo(t)
                        /\ UNCHANGED <<stackstate, printstate>>

instr_prolog ==
  /\ Dispatch(INSTR_PROLOG)
  /\ \E d \in Operand :
       IF CallOverflow(Displacement(d))
       THEN ErrorInPlace(ERR_CALL_OVERFLOW)
       ELSE /\ cur_call_ptr' = cur_call_ptr + Displacement(d)
            /\ NextInstr(cur_instr_ptr + 2)
            /\ UNCHANGED <<cur_call_line, rcall_line, call_seg, stackstate,
                           printstate>>

instr_epilog ==
  /\ Dispatch(INSTR_EPILOG)
  /\ \E d \in Operand :
       IF cur_call_ptr < Displacement(d)
       THEN ErrorInPlace(ERR_CALL_UNDERFLOW)
       ELSE /\ DecCallPtr(Displacement(d), call_seg, rcall_line, cur_call_line)
            /\ NextInstr(cur_instr_ptr + 2)
            /\ UNCHANGED <<stackstate, printstate>>

instr_argload ==
  /\ Dispatch(INSTR_ARGLOAD)
  /\ \E d \in Operand :
       LET q == cur_call_ptr - Displacement(d)
       IN CASE d >= Len(argv) -> ErrorInPlace(ERR_ARG_RANGE)
            [] d < Len(argv) /\ LineOf(q) < 0 -> ErrorInPlace(ERR_CALL_UNDERFLOW)
            [] OTHER -> /\ SaveCallElement(cur_call_ptr, q, argv[d + 1])
                        /\ NextInstr(cur_instr_ptr + 2)
                        /\ UNCHANGED <<cur_call_ptr, stackstate, printstate>>

error_inv_opcode ==
  /\ \E op \in Word : op > MaxOpcode /\ Dispatch(op)
  /\ ErrorInPlace(ERR_INV_OPCODE)

ImmediateOps == {INSTR_PUSH, INSTR_LOAD, INSTR_STORE, INSTR_JMP, INSTR_CALL,
                 INSTR_PROLOG, INSTR_EPILOG, INSTR_ARGLOAD}
CompareOps == {INSTR_JEQ, INSTR_JNE, INSTR_JL, INSTR_JLE, INSTR_JG, INSTR_JGE}

\* inc_instr_ptr looks for the operand on an unmapped page: nothing checks
\* the instruction pointer against the end of the code.
OperandFault ==
  /\ \/ \E op \in ImmediateOps : Dispatch(op)
     \/ cur_stack_ptr >= 2 /\ \E op \in CompareOps : Dispatch(op)
  /\ ~Mapped(cur_instr_ptr + 1)
  /\ pc' = "oops"
  /\ UNCHANGED <<context, saved, halt_flag, error_code, instr_cnt, instrregs,
                 stackstate, callstate, printstate>>

Instruction ==
  \/ instr_nop \/ instr_finish \/ instr_push \/ instr_print
  \/ instr_load \/ instr_store
  \/ instr_add \/ instr_sub \/ instr_mul \/ instr_div \/ instr_mod
  \/ instr_jmp \/ instr_jeq \/ instr_jne \/ instr_jl \/ instr_jle
  \/ instr_jg \/ instr_jge
  \/ instr_call \/ instr_ret \/ instr_prolog \/ instr_epilog \/ instr_argload
  \/ error_inv_opcode \/ OperandFault

Next == bispe_cycle_entry \/ Instruction \/ bispe_cycle_outro \/ CycleReturned

\* The interpreter thread keeps running: interrupts are off during a cycle,
\* and between two cycles the scheduler gives it the processor again.
Spec == Init /\ [][Next]_vars /\ WF_vars(Next)

-----------------------------------------------------------------------------
(* Properties.                                                             *)

(***************************************************************************)
(* The loaded call line never lies above the line of the call pointer.     *)
(* encrypt_reg_cbc_chain walks from the loaded line to the line of the     *)
(* call pointer and stops on equality only: with the loaded line above, it *)
(* would never meet its end and encrypt kernel memory behind the segment.  *)
(***************************************************************************)
CallLineInFrame ==
  pc \in {"exec", "outro"} => cur_call_line <= LineOf(cur_call_ptr)

(***************************************************************************)
(* A cycle always has instructions left while it runs.  The counter is     *)
(* compared with bispe_instr_per_cycle for equality, so a cycle that once  *)
(* passed the limit would run on with interrupts disabled.                 *)
(***************************************************************************)
CycleBudget == pc = "exec" => instr_cnt < bispe_instr_per_cycle

(***************************************************************************)
(* The words in front of the print pointer, which invoke_interpreter       *)
(* copies to user space, are the words printed last, in their order, and   *)
(* none of them is memory the program never wrote.                         *)
(***************************************************************************)
RingHoldsLatest ==
  /\ Len(output) >= print_ptr
  /\ \A i \in 0 .. print_ptr - 1 :
       print_seg[i] = output[Len(output) - print_ptr + 1 + i]

(***************************************************************************)
(* Every cycle ends, whatever the program does, so that the processor      *)
(* always gets its interrupts and its scheduler back: no instruction       *)
(* escapes the instruction count of start_interpreter's cycles.            *)
(***************************************************************************)
CycleEnds == pc = "exec" ~> pc \in {"check", "oops"}

-----------------------------------------------------------------------------
(* Refinement.  During a cycle the registers hold the loaded lines, the    *)
(* rest is in memory; between two cycles everything is in memory.  The     *)
(* stacks of a program that was halted by an error are lost.               *)

InCycle == pc \in {"exec", "outro", "oops"}

StackTop == IF InCycle THEN cur_stack_ptr ELSE stack_ptr
CallTop == IF InCycle THEN cur_call_ptr ELSE call_ptr

StackWord(i) == IF InCycle /\ LineOf(i) = LineOf(cur_stack_ptr)
                THEN rstack_line[Ofs(i)] ELSE stack_seg[i]
CallWord(i) == IF InCycle /\ LineOf(i) = cur_call_line
               THEN rcall_line[Ofs(i)] ELSE call_seg[i]

Failed == error_code # 0

machine_ip == IF Failed THEN 0 ELSE IF InCycle THEN cur_instr_ptr ELSE instr_ptr
machine_sp == IF Failed THEN 0 ELSE StackTop
machine_stack == [i \in StackSlots |->
                    IF ~Failed /\ i <= StackTop THEN StackWord(i) ELSE Junk]
machine_cp == IF Failed THEN 0 ELSE CallTop
machine_call == [i \in CallSlots |->
                   IF ~Failed /\ i <= CallTop THEN CallWord(i) ELSE Junk]
machine_status == IF pc = "oops" THEN "oops"
                  ELSE IF halt_flag THEN "halted" ELSE "running"

Machine == INSTANCE Frames WITH
  ip <- machine_ip,
  sp <- machine_sp, stack <- machine_stack,
  cp <- machine_cp, call <- machine_call,
  status <- machine_status

(***************************************************************************)
(* The interpreter executes programs as BytecodeMachine says: where a      *)
(* cycle ends, which lines are loaded, and when they are encrypted and     *)
(* decrypted cannot be observed by the program.                            *)
(***************************************************************************)
ImplementsMachine == Machine!Spec

(***************************************************************************)
(* The return addresses survive the line by line encryption of the call    *)
(* stack and the cycles: code that keeps to its frames is never left, and  *)
(* has no invalid opcode and no access below its call stack.               *)
(***************************************************************************)
ControlStays == Machine!ControlStays
=============================================================================
