------------------------------ MODULE Compiler ------------------------------
(***************************************************************************)
(* The compiler with its parser and its generator, and the run of the      *)
(* program it wrote on the machine of BytecodeMachine.  The phases of main *)
(* are those of Driver, whose ParseTokens, GenerateCode and WordsOf are    *)
(* parse_tokenlist, generate_code and Words here.                          *)
(***************************************************************************)
EXTENDS Driver, Generator, Meaning, DocumentedGrammar

CONSTANTS StackLines, CallLines, PrintWords

VARIABLES code_seg, argv, ip, stack, sp, call, cp, print_seg, print_ptr,
          status, error_code

M == INSTANCE Frames WITH OverrunLines <- 0

machvars == <<code_seg, argv, ip, stack, sp, call, cp, print_seg, print_ptr,
              status, error_code>>

vars == <<compvars, machvars>>

Init ==
  /\ DriverInit
  /\ code_seg = << >> /\ argv = << >> /\ ip = 0
  /\ stack = M!EmptyStack /\ sp = 0
  /\ call = M!EmptyCall /\ cp = 0
  /\ print_seg = [i \in M!PrintSlots |-> Junk] /\ print_ptr = 0
  /\ status = "running" /\ error_code = 0

-----------------------------------------------------------------------------
(* The program that was written is started with the arguments of the job.  *)
(* A call of a function that has no address yet has an unpredictable       *)
(* operand; such programs are not run.                                     *)

Resolved == \A k \in DOMAIN code : code[k].instr \in has_arg => code[k].arg # Junk

StartProgram ==
  /\ StartOutput
  /\ Resolved
  /\ code_seg' = buf.words
  /\ argv' = job.argv
  /\ UNCHANGED <<ip, stack, sp, call, cp, print_seg, print_ptr, status, error_code>>

\* A fresh frame holds words that nothing wrote.
FreshFrame == call' \in {[i \in M!CallSlots |-> IF i <= cp THEN call[i] ELSE Junk],
                         M!EmptyCall}

\* A program with an open end can come to words that are no instruction of its
\* own, hence the last disjuncts.
RunProgram ==
  /\ phase = "run"
  /\ UNCHANGED compvars
  /\ \/ M!Finish \/ M!PushConst \/ M!PrintTop \/ M!Load \/ M!Store
     \/ \E op \in M!ArithmeticOps : M!Arithmetic(op)
     \/ M!Jump
     \/ \E op \in M!CompareOps : M!ConditionalJump(op)
     \/ M!Call \/ M!Ret \/ (FreshFrame /\ M!Prolog) \/ M!Epilog \/ M!ArgLoad
     \/ M!Nop \/ M!InvalidOpcode \/ M!OperandFault

Next ==
  \/ Compile /\ UNCHANGED machvars
  \/ StartProgram \/ RunProgram

Spec == Init /\ [][Next]_vars

-----------------------------------------------------------------------------
(* Properties.                                                             *)

(***************************************************************************)
(* "The grammar the compiler accepts can be found in compiler/grammar.txt" *)
(* (README.md of the repository), with the corrections of Corrected.  The  *)
(* parser takes the first production that matches and never comes back to  *)
(* a choice.  Nevertheless it accepts exactly the programs of that         *)
(* grammar, but for those with a semantic error, and reports a semantic    *)
(* error only for a program it rejects.                                    *)
(***************************************************************************)
AcceptsGrammar ==
  phase \in {"generate", "parser_out"} /\ code = << >> =>
    (parsed.node # Nil) = (ProgramOf(Corrected, job.toks) /\ parsed.errs = {})

Output == [k \in 1 .. print_ptr |-> print_seg[k - 1]]

\* The program has run as its source says; a stack that is too small may
\* end it early.
AsWritten ==
  LET e == Run(parsed.node, job.argv)
  IN \/ e.flow \in {"undefined", "long"}
     \/ /\ error_code \in {ERR_STACK_OVERFLOW, ERR_CALL_OVERFLOW}
        /\ IsPrefix(Output, e.out)
     \/ /\ error_code = IF e.flow = "div_zero" THEN ERR_DIV_ZERO ELSE 0
        /\ Output = e.out

\* The call stack has only the arguments of main left, and the operand
\* stack is empty up to main's own value.
StacksEmpty ==
  LET main == parsed.funcs[<<"m", "a", "i", "n">>]
      e == Run(parsed.node, job.argv)
  IN error_code = 0 /\ e.flow = "on" =>
       /\ cp = main.arg_count
       /\ sp = IF e.val = Junk THEN 0 ELSE 1

(***************************************************************************)
(* A compiled program prints what its source says and leaves its stacks as *)
(* it found them: nested calls, recursion and frames, branches and loops   *)
(* included.  Excepted are programs with a function that is empty or ends in a  *)
(* branch that ends in a return, and programs that throw the value of a    *)
(* function away.                                                          *)
(***************************************************************************)
RunsAsWritten ==
  status = "halted" /\ ~Discards(parsed.node, parsed.funcs)
    /\ ~HasOpenEnd(parsed.node) => AsWritten /\ StacksEmpty

(***************************************************************************)
(* "If last statement in function body was not return, add function epilog *)
(* and return statement": a function returns at its end, so the programs   *)
(* run as written however their functions end.                             *)
(***************************************************************************)
FunctionsReturn ==
  status = "halted" /\ ~Discards(parsed.node, parsed.funcs) => AsWritten

\* The addresses of the instructions of the list, and of the FINISH behind.
Boundaries ==
  {Len(Words(SubSeq(code, 1, k))) : k \in 0 .. Len(code)}

(***************************************************************************)
(* The code that is written keeps to its frames: every jump that was       *)
(* patched and every call leads to the beginning of an instruction, and    *)
(* prologs, epilogs, arguments and locals agree on the layout of the call  *)
(* stack on every path, also on those that no run takes.  Excepted are     *)
(* functions with an open end, and calls that have no address.             *)
(***************************************************************************)
FramesRight ==
  phase = "encrypt" /\ Resolved /\ ~HasOpenEnd(parsed.node) =>
    /\ M!WellFramed(buf.words)
    /\ \A p \in M!Reached(buf.words) : p.at \in Boundaries
=============================================================================
