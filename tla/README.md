# A TLA+ model of bispe

bispe executes encrypted bytecode in a Linux kernel module: code and data are in
the clear only in processor registers, and only while interrupts are off. This
directory holds TLA+ modules for the kernel module, for the frontend that starts
programs and for the compiler that writes them, the TLC runs that check them on
small instances, and TLAPS proofs of the main results for every value of the
constants. `PROJECT.json` lists the runs, the
source lines behind every definition, the hazards, the findings, and a mutated
definition for each property that the property rejects.

    tlc -workers 2 -config InvokeKill.cfg MCInvoke
    tlapm InvokeProofs.tla

## The system

| part | state | operations | interacts with |
|---|---|---|---|
| bytecode (`bispe_defines.h`, `asm_instructions.S`) | - | 23 instructions, 8 errors | defines what the interpreter and the compiler agree on |
| interpreter cycle (`asm_*.S`, `bispe_cycle_asm.S`, `start_interpreter`) | encrypted stack, call and print segments; saved pointers; flags; registers | entry, instructions, outro, error exits, the loop of cycles | runs in the interpreter thread; reads the static variables set by `start_interpreter` |
| invocation (`bispe_main.c`) | `interpreter_lock`, `interpreter_finish_lock`, the thread | `invoke_interpreter`, `start_interpreter_thread`, `thread_main` | user processes call it through sysfs; creates the runtime context and the thread |
| runtime context (`bispe_interpreter.c`) | heap blocks, their pointers and sizes, the static variables | `init_interpreter`, `create_runtime_ctx`, `cleanup_runtime_ctx` | used by one invocation at a time |
| key management (`bispe_key.c`) | `key_hash`, the debug registers of each cpu | `password_store`, `setkey_current_cpu`, `hash_show` | interrupts every cpu; the cycle and `encrypt_code` read the key |
| code encryption (`encrypt_code`) | a buffer | encrypts a compiled program in CBC mode | called by the compiler |
| AES, SHA-256 (`bispe_crypto_asm.S`, `bispe_sha.c`) | registers | block cipher, hash | pure functions |
| module load (`bispe_init`, `bispe_exit`) | locks, kobject, sysfs files | feature test, initialisation, registration, removal | user processes are in the handlers while it happens |
| frontend (`frontend/bispe.c`) | the terminal, `pw`, arguments, result | reads options and a password, writes them and an `invoke_ctx`, reports | sysfs; several can run |
| lexer (`lexer.c`) | position, line, token list | `tokenize_string` | called by the driver |
| parser, tree and symbols (`parser.c`, `ast.c`, `symbols.c`) | token, syntax tree, symbol tables, `max_arg_count` | `match_prod` and the `check_` functions, `create_node` | the symbol tables are read by the generator |
| code generator (`generator.c`) | list of instructions, its size, addresses | `generate_code` | writes what the interpreter executes |
| compiler driver (`compiler.c`, `build_codebuf`) | what it has allocated, the output file | `main`: read, tokenize, parse, generate, encrypt, write, clean up | `encrypt_code` through sysfs |

What is hard here, and hard to test:

* the call stack is decrypted one line at a time, and the loaded line need not be
  the top one. In CBC mode writing a line makes the next one unreadable unless
  the chain up to the top is encrypted again. Whether this is right depends on
  sequences of `PROLOG`, `EPILOG`, `LOAD`, `STORE`, `CALL` and `RET`, and on where
  a cycle happens to end;
* a cycle runs with interrupts disabled and is ended by a counter compared for
  equality;
* the creator of the interpreter thread, the thread, other processes and fatal
  signals meet at one mutex, one semaphore and `kthread_stop`;
* several writers of the password file and the interrupts of `on_each_cpu` race
  with sections that use the key;
* each step of building a runtime context can fail, pointers are moved before
  they are freed, and static variables survive from one execution to the next;
* the module can be loaded, fail half way and be unloaded while processes have
  its files open;
* the frontend has to tell a program without output, a refused execution and a
  missing backend apart by two numbers, and a password passes through a line
  buffer, an uninitialised array and a string function on its way to the key;
* the parser commits to the first production that matches and leaves traces in
  the symbol tables when one fails; frames are laid out with a static variable
  that every call on the way changes; jump targets are patched afterwards;
* each phase of the compiler can fail and has its own label in the cleanup code.

## The modules

| module | models |
|---|---|
| `Bytecode` | words, opcodes, error codes, arithmetic, lines |
| `BytecodeMachine` | abstract: what a program means, one action per instruction |
| `Frames` | a test of bytecode, `WellFramed`, and what code that passes it promises, `ControlStays` |
| `Interpreter` | the cycle with registers, lines and encryption; implements `BytecodeMachine` |
| `Invoke` | processes, lock, semaphore, interpreter thread, signals |
| `Key` | concurrent `password_store`, keys on the cpus, critical sections |
| `RuntimeCtx` | allocation, sizes, error paths and cleanup over a sequence of executions |
| `Frontend` | several frontends, the sysfs files, loading and unloading of the module |
| `Tokens` | token types, characters, `strtol` |
| `Lexer` | `tokenize_string`, one action for each case of its loop |
| `Parser` | productions, matching, syntax tree, symbol tables |
| `DocumentedGrammar` | reference: `compiler/grammar.txt`, and what has to be corrected in it |
| `Generator` | code generation |
| `Meaning` | reference: what a syntax tree prints, without code or frames |
| `Driver` | `main` of the compiler and `build_codebuf`; parsing and code generation are operators it takes as constants |
| `Compiler` | `Driver` with `Parser` and `Generator`, then the program on the machine of `Frames` |
| `MC*` | instances for TLC |
| `*Proofs` | theorems about the module of that name |

### Bytecode, BytecodeMachine and Interpreter

A word is a number modulo `WordMod` (2^32 in the code, 32 or 64 in the runs) or
`Junk`: a word that is in memory but that nobody can predict, because it was never
written or because its line does not decrypt to what was encrypted. An
instruction that acts on `Junk` acts on every word (`Readings`, `Outcomes`).

In `Interpreter` a segment is what decrypting it would yield. `WriteChain` is
`encrypt_reg_cbc_chain`: after the lines from the loaded one to the top were
encrypted anew, the line above them is `Junk`. Pointers are word numbers from the
base of their segment. Each `instr_*` action is the whole code at that label up
to the next dispatch, error exits included; `bispe_cycle_entry`,
`bispe_cycle_outro` and `CycleReturned` are the rest of the loop in
`start_interpreter`. An error leaves the cycle without the outro, so the stacks
in memory are those of some earlier moment; nobody reads them afterwards. The
instruction pointer is not checked while it advances: behind the code follow
`OverrunLines` readable lines of `Junk`, then an unmapped page (`pc = "oops"`).

`BytecodeMachine` has neither cycles nor lines. It keeps two facts that a program
can observe: slot 0 of each stack is never written by a push or call, so its
content is `Junk` (binary instructions check for one operand only and can read
it), and `PROLOG` uncovers words without clearing them. The refinement mapping in `Interpreter` reads
a word from the register when its line is loaded and from memory otherwise.

### Frames

Return addresses lie between the variables of a program on the call stack, and
`RET` jumps to whatever word is on top. That control stays on the instructions of
a program is therefore up to its code. `Frames` extends `BytecodeMachine` by a test
of the code alone: a `Place` is the address of an instruction, the words its
function has reserved above the return address, and those its caller had reserved.
`Reached` follows every path from word 0 (a branch both ways, a call into the
function and behind it) and `WellFramed` asks that each place reached is `Safe`: the
instruction is complete and has an opcode, `LOAD`, `STORE` and `ARGLOAD` hit a word of
the own frame or of the caller's but no return address, `EPILOG` gives back no more
than was reserved, and `RET` is executed with nothing above the return address. None of
this is in the kernel module: it says what the interpreter relies on.
`ControlStays` says the test is enough: neither an invalid opcode, nor a jump out of
the code, nor an access below the call stack, nor an instruction behind the code.
`Interpreter` and `Compiler` take their machine from `Frames`.

### The sizes of the segments

`Interpreter` takes the segments to have the sizes the bounds tests use. That is
what `create_runtime_ctx` is meant to achieve; `RuntimeCtx` shows that it does
not (run `ctx_sizes`).

### Invoke

Variables of a system call and of its thread are indexed by the process. Every
call of a kernel primitive is a step: `mutex_trylock`, `kthread_run`,
`down_killable`, `kthread_stop`, the join, `copy_to_user`, the cleanup, the unlock;
for the thread, the start, the loop test with a cycle, the test behind the
loop, `up` and the exit. What a cycle computes is left open: it goes on, or halts
with an exit code. `statics` says whose context the static variables point into.
The kernel does not call `thread_main` of a thread that was stopped before it ran
(the result is then -EINTR). `kthread_run` fails with -ENOMEM only, the one error
the code looks for. A process that writes to the file again finds its result
preset to -1 by the frontend. The argument tests of `invoke_interpreter` end the
call before it has an effect and are left out.

### Key

A digest is a password and the number of times it was hashed: SHA-256 is taken as
injective, and one call of it as one step. `key_hash` is shared by all writers and
each has its own `key`. `on_each_cpu` makes `setkey_current_cpu` pending on every cpu; a
cpu runs it when its interrupts are on. The critical section (interrupts off,
round keys generated from the debug registers, used, registers cleared,
interrupts on) stands for both `encrypt_code` (which clears with
`bispe_clear_avx_regs`) and a cycle of `start_interpreter`; how much work is done in it does
not matter to its properties. One cpu is in at most one section.

### RuntimeCtx

The heap maps each block to its size. A pointer is its distance in words from the
start of the block, 0 or 4, or NULL; `afree` of anything but the start of an
allocated block sets `badfree`. `vmalloc` can fail everywhere, and so can
`copy_from_user`; `get_buf_from_user` then loses its block, which the history
variable `lost` records and `NoLeak` leaves out. If the
context itself cannot be allocated, the error path follows a null pointer
(`pc = "oops"`). Requests have whole lines of code and whole words of output, which
`invoke_interpreter` tests, and whole words of arguments, which the frontend
multiplies by four. The code may be empty: the frontend passes an empty program file on,
and the tests let it through. Sizes are those of a `size_t` and wrap around at
`SizeMod`; the only one that does with the sizes of an `invoke_ctx` (lines are
`unsigned int`) is the code size of an empty program, when the 16 bytes of an
init vector it does not have are taken off. `CodeFits` says that the bound of the jump
checks is the end of the code block if and only if there is code. The static
sizes survive an execution; the model lets executions follow one another without end.

`Interpreter` starts from a context whose bound is right: code with an init
vector and any number of lines behind it, none included.

### Frontend

Each process runs the frontend once with a command line and an input of its own
(`JobsOf`). Its steps are the pieces of `main` between two system calls: options,
the answer to the question, `read_password`, the write to the password file, the
program file, the write to the file `invoke` (three steps and a cycle boundary
inside the handler), the report. A fatal signal can end it anywhere. Next to the
processes `Insmod`, `InitLocks`, `CreateKobject`, `CreateGroup`, `Rmmod` and `ExitSysfs`
are the steps of `bispe_init` and `bispe_exit`; sysfs waits in `ExitSysfs` for the
calls under way. `Insmod` also keeps the module when the processor features are
missing: `bispe_init` then returns a positive number, which the kernel does not
take for a failure.

The handlers are abstract here: `Invoke`, `Key` and `Interpreter` have the details.
An execution has two cycles, and `seen` collects the keys they found; a program
that saw any other key than its own does something arbitrary (`Outcomes`). All
programs print their arguments, which is what `EchoRight` needs. `pw` starts as
whatever the stack holds (`garbage`), `read_password` overwrites the front of it,
and `password_store` cuts at the first zero. A key is the password it was derived
from.

### Tokens and Lexer

A text is a sequence of characters, and a step of `Lexer` is one turn of the loop of
`tokenize_string`: an identifier or literal, an operator, a separator, a comment,
an error, the end. Memory can run out for each token and each text. `spans` is a
history of which characters became which token, from which `LongestMatch` is
stated against `LexemeType`, a definition of the lexemes as sets of texts.

### Parser, Generator, Meaning, Driver and Compiler

The 23 `check_` functions of `parser.c` differ only in their productions, so the
model has one table, `Grammar`, in the order of the code, and one `check`. Parsing is
a function from the state (token position, symbol tables, `max_arg_count`, errors)
to a node and the next state. `TRY_MATCHING` restores the token only; symbols,
`max_arg_count` and error messages of a failed production stay, as in the code.
`create_node` dispatches to the semantic functions of `ast.c`. A definition that
names its arguments otherwise than its prototype makes the code follow a null
pointer, and a literal that is too large calls `exit`: both end the process
(`stopped`).

What the parser accepts is compared with `DocumentedGrammar`. The repository's README
refers to `compiler/grammar.txt` for the language (line 88). `Documented` is that
text, rule by rule; it is written independently of `Grammar` and read by a
recogniser of its own (`ProgramOf`), which follows every choice at the same time.
Parser and text do not agree, and `Corrected` names the four rules in which they differ:

| `grammar.txt` | says | the parser |
|---|---|---|
| line 6 | every argument of a call is followed by a comma: `f(2,)` | also takes `f(2)` |
| line 19 | the parts of the head of a `for` follow each other directly | needs a semicolon behind each of the first two |
| line 24 | a sequence has a statement | also takes `{}` |
| line 25 | an argument is a type or a name: `int f(int)`, `int f(a)` | needs both: `int f(int a)` |

`AcceptsGrammar` compares the parser with `Corrected`. Run `compiler` has programs for each row:
it fails if any one of the four corrections is taken back, so none is superfluous, and there is
no further difference in what the run covers. Lines 7 and 13 of the text have slips of the
pen (`fcall_arg_arglist`, a missing comma) that leave no doubt about what is meant.

`Generator` follows `generate_helper` case by case; the patching of jump targets and
of the call of `main` changes elements of the list that were pushed before. A
function that has no address yet when it is called gives `Junk`, as `malloc` left it.

`Driver` is `main` of `compiler.c`, phase by phase with a failure in each, and
`build_codebuf`, which writes the words, a `FINISH` and random padding. It knows
of parsing and generation only that they yield a tree or `NULL` and a program or
`NULL`: `ParseTokens`, `GenerateCode`, `WordsOf` and `NoTree` are constants.
`Compiler.cfg` gives them the values `parse_tokenlist`, `generate_code`, `Words` and
`Nil`. Every step of `Compiler` is a step of `Driver` that leaves the machine alone
or a step that leaves the variables of the driver alone, so what is proved of
`Driver` holds of `Compiler`.

`Compiler` adds to it the program it wrote, which runs on the machine of `Frames` (with
`OverrunLines` 0: control that leaves the code ends in an oops at once). Programs with an unresolved
call (`Resolved`) are compiled but not run. `FramesRight` says that the words the
generator wrote for all other programs are well framed, and that the places reached are
beginnings of the instructions it generated; a function with an open end
(`HasOpenEnd`) is excepted, rightly so: its local is taken for a return address by the
`RET` it runs on into. `Meaning` says what a program prints by
walking its syntax tree with variables by name; a program that uses a value
nothing defines, or that runs for more than `Fuel` calls and turns of loops, is not judged.
Two limits of the compiler are conditions on the source: `HasOpenEnd` (see run
`compiler_open`) and `Discards`: the value of an `int` function called as a statement
stays on the operand stack.

## Runs

Passing runs. Deadlock is checked except where the program may stop: a
program halts, and an oops ends everything.

| run | instance | what it shows |
|---|---|---|
| `interpreter_data` | all 6561 bodies of four instructions over a frame of ten locals, and all 38416 of arithmetic, comparison and output with -2, 0, 3 and 5 as operands; 4 call lines, 2 stack lines, a print ring of two words; cycles of 3 and 20 instructions | `TypeOK`, `CallLineInFrame`, `RingHoldsLatest`, `ImplementsMachine` |
| `interpreter_control` | all bodies of four from twelve jumps, calls, returns, frames, arguments and an invalid opcode, six programs that leave the code or have none and five with functions that use their frames; about 3000 of them are well framed; one call line; cycles of 1 and 4; the unmapped page directly behind the code | `CycleBudget`, `ControlStays`, `CycleEnds`, `ImplementsMachine` |
| `invoke_kill` | three processes, two of which can be killed, exit codes 0 and 7 | `TypeOK`, `OneThread`, `NoUseAfterFree`, `ResultIsOwn`, `TokensFromKills`, `QuietRunsComplete`, `KilledReturns`, `HaltReturns` |
| `key_single` | one writer, two cpus, two passwords, two iterations | `HashOfKeyInUse`, `FullyDerived` |
| `key_writers` | two writers, two cpus, two passwords, no iteration | `SectionKeyCurrent`, `RegistersClean`, `StoreReturns` |
| `ctx_frees` | 48 requests in any order: code of no, one and three lines, default and given sizes, with and without arguments; every allocation and copy can fail | `TypeOK`, `FreesAreExact`, `NoLeak`, `CodeFits` |
| `lexer` | all texts of up to four characters from an alphabet of twelve with one character for each distinction the scanner makes; every allocation can fail | `LongestMatch`, `PositionRight`, `ScannerEnds` |
| `compiler` | all sequences of up to four lexemes in the place of a statement, an expression and the rest of a function head; 43 programs with nested and recursive calls, 90 with branches and loops over every comparison, programs with errors, calls, argument lists and loops as `grammar.txt` has them, and programs whose open function makes control go anywhere; all options and files of up to 5 characters with a buffer of 2; words modulo 128; every phase can fail | `AcceptsGrammar`, `BuffersFit`, `CleanupExact`, `NoPlaintextFile`, `RunsAsWritten`, `FramesRight` |
| `frontend` | two processes: one with 200 password inputs and 31 command lines, one with two; a password array of 3, words of 4 bits, print sizes up to one that wraps around; the module is loaded and unloaded at will | `TypeOK`, `ModuleSound`, `KeyFromPassword`, `NoTrace`, `ReportTruthful`, `EchoRight` |

Why the bounds are enough. A call frame of ten words crosses three lines, so that
the loaded line can be the top one, one below it and two below it; four
instructions suffice to leave a line, change another one and come back, or to
shrink the frame below the loaded line. Cycles of one (`interpreter_control`) put a
boundary between any two instructions, 20 none, and 3 one in the middle of the
body, when any line can be the loaded one. In `Invoke` a killed process never invokes again, so two of them allow
two leftover tokens and the third process meets them. In `Key` two writers and
two cpus give every order of two interrupts on two cpus. With two writers the
count of hashes in `key_hash` is unbounded once the loop runs (each can hash the
other's digests again and again), hence no iteration in `key_writers`; its properties do not look at
digests. Four characters hold every pair of neighbouring tokens with a separator
or a comment between them, and `0x` with a digit and what follows. Four lexemes
reach every choice between the productions of a statement, an expression, an
argument list and a function head; the longer ones of branches and loops are
reached by the programs, as is the trailing comma of a call. The calls in `compiler` nest to depth three with different
argument counts, so that a frame that is too small is overwritten; all six
comparisons are tested on both sides of equality in each kind of branch and loop. In `frontend` the
second process can set another password, hold the lock or run at any point of the
first. The proofs below do not depend on any of these bounds.

Runs that violate a property stated by the repository:

| run | property | what happens |
|---|---|---|
| `invoke_spurious` | `InterruptedBySignal` | the return value of `down_killable` is ignored; a token left by a killed execution ends the next one, which is reported as interrupted by a signal |
| `ctx_sizes` | `SegmentsFit` | segments are allocated with the sizes of the previous execution |
| `compiler_open` | `FunctionsReturn` | a function that ends in a branch which ends in a return has no return of its own and runs on into the next one; if it has a local, the next `RET` takes that for its return address, and control goes to an arbitrary word |

Other behaviour of the code that differs from what one might expect, visible in
the conditions of passing properties:

* the language is not the one of `compiler/grammar.txt`, to which `README.md:88` of the
  repository refers: four rules differ (`Corrected`, see above);
* an empty program file is executed, and its code size wraps around
  (`bispe_interpreter.c:263`); `CodeFits` and the theorem `CodeBound` say so;
* output that fills the print segment exactly is not delivered
  (`asm_instructions.S:172`); `EchoRight` asks for a larger buffer;
* `DIV` and `MOD` are unsigned, comparisons signed (`asm_instructions.S:295`);
* two concurrent writers of the password file mix their digests in `key_hash` and
  can leave the cpus with different keys (`bispe_key.c:75`); `HashOfKeyInUse` and
  `FullyDerived` are checked and proved for one writer at a time;
* a key change between two cycles of a program leaves it running on garbage
  (`bispe_interpreter.c:452`); the frontend reports a result all the same;
* the key comes from the typed password only under `CleanInput`: an answer of more
  than one letter runs into the password (`frontend/bispe.c:277`), the array is
  neither initialised nor terminated (160), a byte 0xff ends it (156), and after a
  read error an empty password is sent (288) and the terminal stays without echo.

### Fairness

* `Interpreter`: weak fairness of the next step. Interrupts are off in a cycle, and
  between two cycles the scheduler returns to the runnable thread.
* `Invoke`: weak fairness of each system call and of each thread. Nothing is
  assumed of users, of signals, or of programs: one that never halts keeps cycling.
* `Lexer`: weak fairness of the next step; the scanner is a loop without waits.
* `Compiler` and `Frontend` have no liveness property and no fairness: a user may
  never answer, and a compiled program may loop.
* `Key`: weak fairness of a writer's steps and of a section that has begun; strong
  fairness of a pending interrupt, because sections turn interrupts off again and
  again, and a cpu takes a pending interrupt as soon as they are on.

## Proofs

Proved with TLAPS, from the named assumptions on the constants only.

* `InterpreterProofs`: `TypeCorrect`, `ChainLoopEnds` (`CallLineInFrame`),
  `BudgetKept` (`CycleBudget`), `RingCorrect` (`RingHoldsLatest`), for every set of
  programs, arguments, cycle lengths and segment sizes. The inductive invariant
  has a part for each group of registers and memory. `CallLineInFrame` is not
  inductive by its statement alone: between cycles the line is not constrained,
  and the memory must be typed for reads; `RingHoldsLatest` needs the bound on the
  history variable. Lemmas describe the macros (`PushStack`, `DecCallPtr`,
  `SaveCallElement`...), and each instruction cites those it uses.
* `InterpreterProofs`, second part: `Refinement` (`ImplementsMachine`): with cycles, lines,
  registers and encryption the interpreter does what the abstract machine does,
  for every program, cycle length and segment size. Every instruction is one step
  of the machine; entry, outro and the rest of the loop change nothing it can see.
  The machine's stacks are read through views (`machine_stack`, `machine_call`): a
  word comes from the register when its line is loaded and from memory otherwise,
  and one lemma for each macro says what the macro does to the views. The inductive
  invariant `RefInv` (`RegistersInStep`) adds two facts to the first
  one: in a cycle the loaded code line is the one of the instruction
  pointer (`FetchOK`), without which the next instruction need not be the machine's;
  and the flags of the loop say in which of its places an error or a `FINISH` can be
  pending (`ModeOK`), without which the machine could halt twice or not at all.
* `FramesProofs`: `UnderControl` (`ControlStays` of the machine), for every code, argument vector,
  word size and segment size; `Sizes` only asks for a call stack of at least one
  line. `ControlStays` is not inductive: that a `RET` finds a place the test has
  visited is a fact about the whole call stack, while the test knows one frame and the
  size of the one below. The invariant `FramesInv` (`FramesKept`) puts the stack
  together: there is a sequence of frames (`Chain`), one for each function called and
  not returned from, in which each frame begins right above the reserved words of the one
  before, its first word is the return address, that address is where the test has
  visited the caller, and the last frame is where control and the top of the stack
  are. `ChainPush` and `ChainPop` show what a call and a return do to the chain,
  `ChainMove` what every other step does, and `NoReturnAddress` that a word `InFrame`
  is not a return address of any frame, so that a store keeps the chain. `SuccOf`
  evaluates the test by opcode, and one lemma for each kind of instruction brings them
  together. It follows that `RET` cannot be executed in the entry code and that `CALL`
  truncates no address, as well-framed code has at most `WordMod` words.
* `InterpreterProofs`, last part: `ControlKept` (`ControlStays` of the interpreter). It
  takes `UnderControl` with the refinement mapping in the place of the machine's
  variables, and `Refinement` says that the interpreter meets its hypothesis. So
  whatever the cycle length and wherever a cycle ends, the line of the call stack
  that holds a return address decrypts to what `CALL` stored in it. That
  the compiler's code meets `WellFramed` is what run `compiler` checks (`FramesRight`).
* `InvokeProofs`: `OneThreadAtATime`, `MemorySafe`, `OwnResult`, `TypeCorrect`, for
  any finite set of processes. The invariant says which system calls hold the
  lock (`LockInv`), when thread, context and stop request exist (`LifeInv`), whom the
  statics belong to (`StaticsInv`), and which exit codes come from a program that
  halted (`HaltInv`). `TokensBounded` (`TokensFromKills`) and `QuietComplete`
  (`QuietRunsComplete`) count: `TokensInv` says of each stage of an execution how many
  tokens there can be relative to the processes killed. While the own process has
  not been killed its own kill is not counted (`killed \ {q}`), and one more token is
  allowed between the `up` of its thread and its `down_killable`; a creator that
  left by a signal has used up its own kill before its thread comes to `up`.
* `KeyProofs`: `TypeCorrect`, `KeyStableInSection` and `NoKeyInInterrupt` for any number of writers
  and cpus: a section implies interrupts off, and outside one the registers are
  clear. `HashShown` and `KeysFullyDerived` assume at most one writer
  (`OneWriterOnly`), without which two writers share `key_hash`; the invariant
  relates each step of the derivation to the number of times the password was
  hashed, and each cpu that has run its interrupt to the writer's key.
* `RuntimeCtxProofs`: `TypeCorrect`, `ExactFrees`, `NothingLeaks`, `CodeBound`, for all requests
  with whole lines of code, none included, and whole words of arguments and output.
  `CodeBound` (`CodeFits`) is an equivalence: the bound of the jump checks is the end of the code
  block for every program but the empty one, for which it is not; `TypeCorrect` says of
  the sizes only that they are values of a `size_t`. The invariant says for each step
  which blocks are allocated, which pointers point to them, and whether they have been moved.
* `DriverProofs`: `FreedExactly` (`CleanupExact`), `NothingReadable` (`NoPlaintextFile`)
  and `Fits` (`BuffersFit`), for every parser and generator, source file and buffer
  size. The invariant says what is held in each phase (`Held`), so that a label
  frees it whichever phase jumped there, which tree and code a phase works on, and
  that `read_file` has room for one more character. `Fits` also needs `BufferExact`: the
  buffer of `build_codebuf` consists of whole lines and has a word for the `FINISH` even
  if the code fills its last line. `DriverAssumption` asks of the constants that
  a tree has code that is a sequence of words. The theorems are about
  `DriverSpec`; `Compiler` takes its steps together with those of the machine.
* `LexerProofs`: `PositionKnown` (`PositionRight`) and `LongestLexemes`
  (`LongestMatch`), for every set of texts that end at their first NUL
  (`LexerAssumption`). `RunEndRight` says where a run of characters ends; `LexemeLetter`,
  `LexemeDigit`, `LexemeSingle`, `LexemePair` and `LexemeSlash` evaluate the reference
  `LexemeType` by the first character of a text; `LiteralEnd` shows that what
  `scan_intliteral` accepts, in each of its three bases, is a number that no letter or digit
  follows. `LongestMatch` is not inductive: while the scanner runs, the text
  between the last token and `pos` has to be blank as well (`Pending`).
* `FrontendProofs`: all properties of `Frontend`, for any set of processes, jobs,
  characters, word sizes and buffer sizes that `FrontendAssumption` allows, in three
  layers. `ModuleInv` says what exists at each point of loading and unloading, and
  that a process in a handler came in while the files were there: `Sound`
  (`ModuleSound`) follows. `RunInv` says that a result other than -1 is there exactly when
  the program came to its end, and that the bytes written are those of the output:
  `Truthful`. `DataInv` follows the password from the terminal to the key and the
  arguments from the command line to the report: `KeyDerived` (`KeyFromPassword`),
  `Traceless` (`NoTrace`), `EndToEnd` (`EchoRight`). `KeyFromPassword` itself is not inductive: what makes it so is that under
  `CleanInput` the array, cut by `password_store`, is the wanted text already before it
  is sent (lemma `StoredLine`), and that what is left in `stdin` behind the answer is
  the typed line (`AnswerRead`). The lemmas on `Delivered`, `Typed`, `Filled` and `Printed`
  state what these operators return for every input.

Only model-checked:

* liveness (`CycleEnds`, `KilledReturns`, `HaltReturns`, `StoreReturns`, `ScannerEnds`),
  which the prover cannot reason about;
* `AcceptsGrammar`, `RunsAsWritten` and `FramesRight` of `Compiler`: parser, generator and
  `Meaning` are recursive over trees and token lists, and what a recursive
  definition computes for every input takes an induction over data, which is out
  of the prover's reach.

## Not modelled

AES and SHA-256 as computations; the self tests and debug output; page faults;
failures of `kthread_run` other than -ENOMEM; the buffer and the blocks of
`encrypt_code`; the frontend's options for stack size, call size and cycle length,
which appear as the sizes of `RuntimeCtx` and `Interpreter`; the names of files; what
the compiler prints; memory that runs out inside the parser, which ends the
process; sglib, a third-party container library. `PROJECT.json` lists these with
reasons.

Weak spots of the code that no property is about, mostly because a property would
only restate the line:

* `bispe_main.c:84` takes errors of `kthread_run` other than -ENOMEM for a task; `235`
  calls `copy_to_user` with interrupts off and round keys in registers; `214` leaks
  its buffer, like `bispe_interpreter.c:290` (recorded in `lost`);
* `bispe_interpreter.c:275` follows a null pointer if the context cannot be
  allocated (`pc = "oops"`); `199` allocates the size of a pointer, which the
  granularity of `vzalloc` hides; `218` uses the default print size in bytes;
* `bispe_crypto_asm.S:323` accepts a processor with one of AES and AVX;
* `asm_instructions.S:237` tests for one operand where two are used (the machine of
  `BytecodeMachine` has the word below the bottom of the stack for that reason);
* `ast.c:212` follows a null pointer if a prototype names its arguments otherwise
  than the definition; `parser.c:210` parses operands twice, in time exponential in
  the nesting of parentheses; `lexer.c:183` leaks the tokens of a failed scan;
* `compiler.c:135` does not look at what `fwrite` returns, `269` prints a name that was
  freed;
* `frontend/bispe.c:243` declares an array of size -1 without a program file; `335`
  cuts sizes to 32 bits; the buffer of `stdin` keeps the characters of the password.

## Possible extensions

`Interpreter` could be composed with `Key` below the level of `Frontend`, with lines that
decrypt to `Junk` under another key. That would sharpen what is already checked; no
component of the system with logic of its own is left out.
