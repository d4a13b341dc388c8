---------------------------- MODULE MCInterpreter ----------------------------
(***************************************************************************)
(* Programs for model checking Interpreter.  A program is a sequence of    *)
(* instructions from a small alphabet behind a fixed prologue, followed by *)
(* FINISH and padded to whole lines with NOP.                              *)
(***************************************************************************)
EXTENDS Interpreter

Pad(p) == p \o [i \in 1 .. (4 - (Len(p) % 4)) % 4 |-> INSTR_NOP]

\* prologue, four instructions of the alphabet, epilogue
Build(pre, alphabet, post) ==
  { Pad(pre \o b[1] \o b[2] \o b[3] \o b[4] \o post) :
      b \in [1 .. 4 -> alphabet] }

Finish == <<INSTR_FINISH>>

NoArguments == {<< >>}

\* A frame of ten locals spans several lines of the call stack; the body
\* wanders through it, so that lines are given up, chained and loaded again.
CallAlphabet ==
  { <<INSTR_PUSH, 5>>, <<INSTR_STORE, 9>>, <<INSTR_STORE, 0>>,
    <<INSTR_STORE, 4>>, <<INSTR_LOAD, 9>>, <<INSTR_LOAD, 4>>,
    <<INSTR_EPILOG, 5>>, <<INSTR_PROLOG, 6>>, <<INSTR_PRINT>> }
CallPrograms ==
  Build(<<INSTR_PROLOG, 10, INSTR_PUSH, 3, INSTR_PUSH, 4, INSTR_STORE, 9>>,
        CallAlphabet, Finish)

\* Jumps forwards, backwards, into operands and out of the code; calls,
\* returns (also from the bottom of the call stack), frames and arguments.
\* JMP 0 and CALL 0 make loops that never leave the program.
ControlAlphabet ==
  { <<INSTR_JMP, 0>>, <<INSTR_JMP, 5>>, <<INSTR_JMP, 60>>, <<INSTR_CALL, 0>>,
    <<INSTR_CALL, 6>>, <<INSTR_CALL, 61>>, <<INSTR_RET>>, <<INSTR_PROLOG, 3>>,
    <<INSTR_EPILOG, 2>>, <<INSTR_ARGLOAD, 1>>, <<INSTR_ARGLOAD, 5>>,
    <<40>> }
\* Programs whose instruction pointer leaves the code segment: behind a NOP,
\* in front of an operand, behind a jump that is not taken, or at once as
\* the program is an init vector alone.
OverrunPrograms ==
  { << >>,
    <<INSTR_NOP, INSTR_NOP, INSTR_NOP, INSTR_NOP>>,
    <<INSTR_NOP, INSTR_NOP, INSTR_NOP, INSTR_PUSH>>,
    <<INSTR_PUSH, 1, INSTR_PUSH, 2, INSTR_NOP, INSTR_NOP, INSTR_NOP, INSTR_STORE>>,
    <<INSTR_PUSH, 1, INSTR_PUSH, 2, INSTR_NOP, INSTR_NOP, INSTR_JEQ, 0>>,
    <<INSTR_PUSH, 1, INSTR_PUSH, 2, INSTR_NOP, INSTR_NOP, INSTR_NOP, INSTR_JG>> }

\* Calls with arguments and locals.  The function changes a word its caller has
\* reserved, keeps a local of its own above the return address, or calls itself
\* until the call stack is full; in the last of these programs it stores over
\* the return address.  FarCall has the function at an address that is no opcode.
EntryCode == <<INSTR_PROLOG, 1, INSTR_ARGLOAD, 0, INSTR_CALL, 7, INSTR_FINISH>>
FramedPrograms ==
  { Pad(EntryCode \o f) :
      f \in { <<INSTR_PUSH, 5, INSTR_STORE, 1, INSTR_RET>>,
              <<INSTR_PROLOG, 1, INSTR_LOAD, 2, INSTR_STORE, 0, INSTR_EPILOG, 1, INSTR_RET>>,
              <<INSTR_PROLOG, 1, INSTR_ARGLOAD, 2, INSTR_CALL, 7, INSTR_EPILOG, 1, INSTR_RET>>,
              <<INSTR_PUSH, 5, INSTR_STORE, 0, INSTR_RET>> } }
FarCall ==
  Pad(<<INSTR_CALL, 23, INSTR_FINISH>> \o [i \in 1 .. 20 |-> INSTR_NOP] \o <<INSTR_RET>>)

ControlPrograms ==
  Build(<< >>, ControlAlphabet, Finish) \cup OverrunPrograms
    \cup FramedPrograms \cup {FarCall}
TwoArguments == {<<7, 9>>}

\* Arithmetic, comparison and output on positive and negative numbers, on
\* zero and on the word below the bottom of the stack.
OperatorAlphabet ==
  { <<INSTR_PUSH, 0>>, <<INSTR_PUSH, 5>>, <<INSTR_ADD>>, <<INSTR_SUB>>,
    <<INSTR_MUL>>, <<INSTR_DIV>>, <<INSTR_MOD>>, <<INSTR_PRINT>>,
    <<INSTR_JEQ, 0>>, <<INSTR_JNE, 2>>, <<INSTR_JL, 4>>, <<INSTR_JLE, 60>>,
    <<INSTR_JG, 0>>, <<INSTR_JGE, 4>> }
OperatorPrograms ==
  Build(<<INSTR_PUSH, 3, INSTR_PUSH, 62>>, OperatorAlphabet, Finish)

DataPrograms == CallPrograms \cup OperatorPrograms
=============================================================================
