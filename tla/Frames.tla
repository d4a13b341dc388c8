-------------------------------- MODULE Frames --------------------------------
(***************************************************************************)
(* Programs that keep to their frames.  Nothing protects the return        *)
(* addresses of a bispe program: they lie between its variables on the     *)
(* call stack, and the interpreter jumps to whatever RET finds on top.     *)
(* That control stays on the instructions of a program is up to its code.  *)
(*                                                                         *)
(* WellFramed is a test of the code alone.  It follows every path from     *)
(* word 0 with the layout of the call stack in place of its contents, a    *)
(* branch both ways, a call into the function and behind it.  FramesProofs *)
(* shows that code which passes runs under control on every input; the     *)
(* code of the compiler is tested in Compiler.                             *)
(***************************************************************************)
EXTENDS BytecodeMachine

\* What is known where an instruction begins: its address, the words its
\* function has reserved on the call stack above the return address, and
\* those the caller had reserved when it called.
NoCaller == -1
Place == [at : Nat, depth : Nat, below : Nat \cup {NoCaller}]
Entry == [at |-> 0, depth |-> 0, below |-> NoCaller]

OpAt(words, p) == words[p.at + 1]
OperandAt(words, p) == words[p.at + 2]
WithOperand == ImmediateOps \cup CompareOps

\* The word d below the top is a variable of the function or one of the
\* words its caller reserved, but no return address.
InFrame(p, d) == d < p.depth \/ (d > p.depth /\ d - p.depth <= p.below)

\* The instruction is complete, has an opcode, and does not touch a return
\* address but to return to it.
Safe(words, p) ==
  LET op == OpAt(words, p)
      d == OperandAt(words, p)
  IN /\ p.at < Len(words)
     /\ op \in 0 .. MaxOpcode
     /\ op \in WithOperand => p.at + 1 < Len(words) /\ d \in Word
     /\ op \in {INSTR_LOAD, INSTR_STORE, INSTR_ARGLOAD} => InFrame(p, Displacement(d))
     /\ op = INSTR_EPILOG => Displacement(d) <= p.depth
     /\ op = INSTR_RET => p.depth = 0 /\ p.below # NoCaller

Goto(p, a) == [p EXCEPT !.at = a]

\* Where control can be after a safe instruction.  What follows a call is
\* reached when the function returns.
Succ(words, p) ==
  LET op == OpAt(words, p)
      d == OperandAt(words, p)
      next == Goto(p, p.at + 2)
  IN CASE op \in {INSTR_FINISH, INSTR_RET} -> {}
       [] op = INSTR_JMP -> {Goto(p, d)}
       [] op \in CompareOps -> {Goto(p, d), next}
       [] op = INSTR_CALL -> {next, [at |-> d, depth |-> 0, below |-> p.depth]}
       [] op = INSTR_PROLOG -> {[next EXCEPT !.depth = @ + Displacement(d)]}
       [] op = INSTR_EPILOG -> {[next EXCEPT !.depth = @ - Displacement(d)]}
       [] op \in {INSTR_PUSH, INSTR_LOAD, INSTR_STORE, INSTR_ARGLOAD} -> {next}
       [] OTHER -> {Goto(p, p.at + 1)}

\* The places reached, in at most n steps, from those in R.  The search
\* stops at a place that is not safe.
Reached(words) ==
  LET search[n \in Nat, R \in SUBSET Place] ==
        LET reached == R \cup UNION {Succ(words, p) : p \in R}
        IN IF n = 0 \/ \E p \in R : ~Safe(words, p) THEN R
           ELSE IF reached = R THEN R ELSE search[n - 1, reached]
  IN search[2 * Len(words), {Entry}]

WellFramed(words) ==
  LET R == Reached(words)
  IN /\ Len(words) <= WordMod
     /\ Entry \in R
     /\ R \subseteq Place
     /\ \A p \in R : Safe(words, p) /\ Succ(words, p) \subseteq R

-----------------------------------------------------------------------------
(* Properties.                                                             *)

\* Control or a return address was lost.
ControlLost ==
  \/ status = "oops"
  \/ error_code \in {ERR_INV_OPCODE, ERR_JMP_BOUNDS, ERR_CALL_UNDERFLOW}

(***************************************************************************)
(* The test is enough: the interpreter neither leaves code that passes     *)
(* nor meets an invalid opcode in it, a jump out of it, or an access below *)
(* the call stack, whatever the arguments, the branches taken and the      *)
(* depth of the recursion.                                                 *)
(***************************************************************************)
ControlStays == ControlLost => ~WellFramed(code_seg)
=============================================================================
