--------------------------- MODULE BytecodeMachine ---------------------------
(***************************************************************************)
(* What the execution of a bispe program means: one step per instruction   *)
(* on a machine with an instruction pointer, an operand stack, a call      *)
(* stack and a print ring.  There are no cycles, no registers, no lines    *)
(* and no encryption here; Interpreter, which has them all, is checked to  *)
(* implement this module; its assumptions are those on the constants.      *)
(*                                                                         *)
(* Two facts about the code show even at this level.  The stacks have a    *)
(* bottom slot 0 that is never written before it is read, so its content   *)
(* is Junk; and PROLOG exposes words of the call stack without clearing    *)
(* them, so a fresh local can hold anything.                               *)
(***************************************************************************)
EXTENDS Bytecode, Sequences

CONSTANTS
  StackLines,    \* size of the operand stack segment in lines
  CallLines,     \* size of the call stack segment in lines
  PrintWords,    \* size of the print segment in words
  OverrunLines   \* readable lines between the end of the code and the
                 \* first unmapped page

StackSlots == 0 .. 4 * StackLines - 1
CallSlots == 0 .. 4 * CallLines - 1
PrintSlots == 0 .. PrintWords - 1

VARIABLES
  code_seg, argv,          \* the program and its arguments, never changed
  ip,                      \* instruction pointer
  stack, sp,               \* operand stack; Junk above sp
  call, cp,                \* call stack; Junk above cp
  print_seg, print_ptr,    \* print ring and the slot written next
  status,                  \* "running", "halted" or "oops"
  error_code               \* 0, or why the program was halted

vars == <<code_seg, argv, ip, stack, sp, call, cp, print_seg, print_ptr,
          status, error_code>>

TypeOK ==
  /\ code_seg \in Seq(Word)
  /\ argv \in Seq(Word)
  /\ ip \in Nat
  /\ stack \in [StackSlots -> WordJ]
  /\ sp \in StackSlots
  /\ call \in [CallSlots -> WordJ]
  /\ cp \in CallSlots
  /\ print_seg \in [PrintSlots -> WordJ]
  /\ print_ptr \in PrintSlots
  /\ status \in {"running", "halted", "oops"}
  /\ error_code \in 0 .. 8

EmptyStack == [i \in StackSlots |-> Junk]
EmptyCall == [i \in CallSlots |-> Junk]

Init ==
  /\ code_seg \in Seq(Word)
  /\ argv \in Seq(Word)
  /\ ip = 0
  /\ stack = EmptyStack
  /\ sp = 0
  /\ call = EmptyCall
  /\ cp = 0
  /\ print_seg = [i \in PrintSlots |-> Junk]
  /\ print_ptr = 0
  /\ status = "running"
  /\ error_code = 0

-----------------------------------------------------------------------------
(* Fetching and leaving an instruction.                                    *)

CodeAt(p) == IF p < Len(code_seg) THEN code_seg[p + 1] ELSE Junk

\* The pages behind the code are unmapped; touching them is a kernel oops.
Mapped(p) == p < Len(code_seg) + 4 * OverrunLines

Fetch(op) == status = "running" /\ op \in Readings(CodeAt(ip))

Operand == IF Mapped(ip + 1) THEN Readings(CodeAt(ip + 1)) ELSE {}

Continue(p) ==
  /\ IF Mapped(p)
     THEN ip' = p /\ status' = "running"
     ELSE ip' = ip /\ status' = "oops"
  /\ UNCHANGED <<code_seg, argv, error_code>>

stackvars == <<stack, sp>>
callvars == <<call, cp>>
printvars == <<print_seg, print_ptr>>

\* An erroneous program is halted; its stacks are lost, its output is not.
Fail(err) ==
  /\ status' = "halted"
  /\ error_code' = err
  /\ ip' = 0
  /\ stack' = EmptyStack
  /\ sp' = 0
  /\ call' = EmptyCall
  /\ cp' = 0
  /\ UNCHANGED <<code_seg, argv, print_seg, print_ptr>>

Push(v) == /\ sp' = sp + 1
           /\ stack' = [stack EXCEPT ![sp + 1] = v]

\* Pop n words and leave v on the top of the rest.
PopAndSet(n, v) ==
  /\ sp' = sp - n
  /\ stack' = [i \in StackSlots |->
                 IF i < sp - n THEN stack[i] ELSE IF i = sp - n THEN v ELSE Junk]

Pop(n) == PopAndSet(n, stack[sp - n])

-----------------------------------------------------------------------------
(* Instructions.                                                           *)

Nop == Fetch(INSTR_NOP) /\ Continue(ip + 1)
       /\ UNCHANGED <<stackvars, callvars, printvars>>

Finish == /\ Fetch(INSTR_FINISH)
          /\ status' = "halted"
          /\ UNCHANGED <<code_seg, argv, ip, stackvars, callvars, printvars,
                         error_code>>

PushConst ==
  /\ Fetch(INSTR_PUSH)
  /\ \E d \in Operand :
       IF sp + 1 \notin StackSlots
       THEN Fail(ERR_STACK_OVERFLOW)
       ELSE Push(d) /\ Continue(ip + 2) /\ UNCHANGED <<callvars, printvars>>

PrintTop ==
  /\ Fetch(INSTR_PRINT)
  /\ IF sp = 0
     THEN Fail(ERR_STACK_UNDERFLOW)
     ELSE /\ Pop(1)
          /\ print_seg' = [print_seg EXCEPT ![print_ptr] = stack[sp]]
          /\ print_ptr' = (print_ptr + 1) % PrintWords
          /\ Continue(ip + 1)
          /\ UNCHANGED callvars

Load ==
  /\ Fetch(INSTR_LOAD)
  /\ \E d \in Operand :
       LET p == cp - Displacement(d) IN
       CASE p < 0 -> Fail(ERR_CALL_UNDERFLOW)
         [] p >= 0 /\ sp + 1 \notin StackSlots -> Fail(ERR_STACK_OVERFLOW)
         [] OTHER -> /\ Push(call[p])
                     /\ Continue(ip + 2)
                     /\ UNCHANGED <<callvars, printvars>>

Store ==
  /\ Fetch(INSTR_STORE)
  /\ \E d \in Operand :
       LET p == cp - Displacement(d) IN
       CASE sp = 0 -> Fail(ERR_STACK_UNDERFLOW)
         [] sp # 0 /\ p < 0 -> Fail(ERR_CALL_UNDERFLOW)
         [] OTHER -> /\ Pop(1)
                     /\ call' = [call EXCEPT ![p] = stack[sp]]
                     /\ Continue(ip + 2)
                     /\ UNCHANGED <<cp, printvars>>

\* The bottom slot is an operand like any other: with one word on the stack
\* the result is computed from Junk and there is no underflow.
Arithmetic(op) ==
  /\ Fetch(op)
  /\ IF sp = 0
     THEN Fail(ERR_STACK_UNDERFLOW)
     ELSE \/ /\ op \in {INSTR_DIV, INSTR_MOD}
             /\ 0 \in Readings(stack[sp])
             /\ Fail(ERR_DIV_ZERO)
          \/ /\ op \in {INSTR_DIV, INSTR_MOD} => stack[sp] # 0
             /\ PopAndSet(1, Arith(op, stack[sp - 1], stack[sp]))
             /\ Continue(ip + 1)
             /\ UNCHANGED <<callvars, printvars>>

Jump ==
  /\ Fetch(INSTR_JMP)
  /\ \E t \in Operand :
       IF t >= Len(code_seg)
       THEN Fail(ERR_JMP_BOUNDS)
       ELSE Continue(t) /\ UNCHANGED <<stackvars, callvars, printvars>>

ConditionalJump(op) ==
  /\ Fetch(op)
  /\ IF sp < 2
     THEN Fail(ERR_STACK_UNDERFLOW)
     ELSE \E taken \in Outcomes(op, stack[sp - 1], stack[sp]), t \in Operand :
            IF taken /\ t >= Len(code_seg)
            THEN Fail(ERR_JMP_BOUNDS)
            ELSE /\ Pop(2)
                 /\ Continue(IF taken THEN t ELSE ip + 2)
                 /\ UNCHANGED <<callvars, printvars>>

Call ==
  /\ Fetch(INSTR_CALL)
  /\ \E t \in Operand :
       CASE t >= Len(code_seg) -> Fail(ERR_JMP_BOUNDS)
         [] t < Len(code_seg) /\ cp + 1 \notin CallSlots ->
              Fail(ERR_CALL_OVERFLOW)
         [] OTHER -> /\ cp' = cp + 1
                     /\ call' = [call EXCEPT ![cp + 1] = (ip + 2) % WordMod]
                     /\ Continue(t)
                     /\ UNCHANGED <<stackvars, printvars>>

\* Give the topmost n words of the call stack back.
DropCall(n) ==
  /\ cp' = cp - n
  /\ call' = [i \in CallSlots |-> IF i <= cp - n THEN call[i] ELSE Junk]

Ret ==
  /\ Fetch(INSTR_RET)
  /\ \E t \in Readings(call[cp]) :
       CASE t >= Len(code_seg) -> Fail(ERR_JMP_BOUNDS)
         [] t < Len(code_seg) /\ cp = 0 -> Fail(ERR_CALL_UNDERFLOW)
         [] OTHER -> DropCall(1) /\ Continue(t) /\ UNCHANGED <<stackvars, printvars>>

Prolog ==
  /\ Fetch(INSTR_PROLOG)
  /\ \E d \in Operand :
       LET q == cp + Displacement(d) IN
       IF q \notin CallSlots
       THEN Fail(ERR_CALL_OVERFLOW)
       ELSE /\ cp' = q
            /\ call' \in [CallSlots -> WordJ]
            /\ \A i \in CallSlots : /\ i <= cp => call'[i] = call[i]
                                    /\ i > q => call'[i] = Junk
            /\ Continue(ip + 2)
            /\ UNCHANGED <<stackvars, printvars>>

Epilog ==
  /\ Fetch(INSTR_EPILOG)
  /\ \E d \in Operand :
       IF cp < Displacement(d)
       THEN Fail(ERR_CALL_UNDERFLOW)
       ELSE /\ DropCall(Displacement(d))
            /\ Continue(ip + 2)
            /\ UNCHANGED <<stackvars, printvars>>

ArgLoad ==
  /\ Fetch(INSTR_ARGLOAD)
  /\ \E d \in Operand :
       LET p == cp - Displacement(d) IN
       CASE d >= Len(argv) -> Fail(ERR_ARG_RANGE)
         [] d < Len(argv) /\ p < 0 -> Fail(ERR_CALL_UNDERFLOW)
         [] OTHER -> /\ call' = [call EXCEPT ![p] = argv[d + 1]]
                     /\ Continue(ip + 2)
                     /\ UNCHANGED <<cp, stackvars, printvars>>

InvalidOpcode ==
  /\ \E op \in Word : op > MaxOpcode /\ Fetch(op)
  /\ Fail(ERR_INV_OPCODE)

ArithmeticOps == {INSTR_ADD, INSTR_SUB, INSTR_MUL, INSTR_DIV, INSTR_MOD}
CompareOps == {INSTR_JEQ, INSTR_JNE, INSTR_JL, INSTR_JLE, INSTR_JG, INSTR_JGE}
ImmediateOps == {INSTR_PUSH, INSTR_LOAD, INSTR_STORE, INSTR_JMP, INSTR_CALL,
                 INSTR_PROLOG, INSTR_EPILOG, INSTR_ARGLOAD}

\* The operand of the instruction lies on an unmapped page.
OperandFault ==
  /\ \/ \E op \in ImmediateOps : Fetch(op)
     \/ sp >= 2 /\ \E op \in CompareOps : Fetch(op)
  /\ ~Mapped(ip + 1)
  /\ status' = "oops"
  /\ UNCHANGED <<code_seg, argv, ip, stackvars, callvars, printvars, error_code>>

Next ==
  \/ Nop \/ Finish \/ PushConst \/ PrintTop \/ Load \/ Store
  \/ \E op \in ArithmeticOps : Arithmetic(op)
  \/ Jump
  \/ \E op \in CompareOps : ConditionalJump(op)
  \/ Call \/ Ret \/ Prolog \/ Epilog \/ ArgLoad
  \/ InvalidOpcode \/ OperandFault

Spec == Init /\ [][Next]_vars
=============================================================================
