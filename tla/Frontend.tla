------------------------------ MODULE Frontend ------------------------------
(***************************************************************************)
(* The system around the interpreter: processes that run the frontend, the *)
(* sysfs files through which they set the password and execute programs,   *)
(* and the life of the kernel module that registers these files.  All of   *)
(* them are concurrent.                                                    *)
(*                                                                         *)
(* Invoke, Key and Interpreter have the details of what happens behind the *)
(* files.  Here an execution takes the lock, runs two cycles under the key *)
(* that is set when they begin, and hands over its result.  Every program  *)
(* prints its arguments.  If it was not encrypted under the key it runs    *)
(* with, what it does is arbitrary.                                        *)
(***************************************************************************)
EXTENDS Integers, Sequences

CONSTANTS
  Proc,         \* processes that run the frontend, each once
  Char,         \* what can be typed and what can be in memory
  JobsOf,       \* JobsOf[p]: command lines and inputs of p
  PwSize,       \* sizeof(pw), 54
  WordMod,      \* 2^32
  SizeMod,      \* 2^64, for a size_t in bytes
  NUL, Eof,     \* the character 0, and 0xff, which is EOF in a char
  Nobody,
  NoKey         \* no password was set since the machine was started

ASSUME FrontendAssumption ==
  /\ PwSize \in Nat \ {0}
  /\ WordMod \in Nat \ {0} /\ WordMod % 2 = 0
  /\ SizeMod \in Nat \ {0} /\ SizeMod % 4 = 0
  /\ Nobody \notin Proc
  /\ {NUL, Eof, "\n"} \subseteq Char
  /\ NUL # "\n" /\ NUL # Eof
  /\ \A p \in Proc : \A j \in JobsOf[p] :
       /\ j.args \in Seq(Int) /\ j.print_size \in Nat
       /\ j.garbage \in [1 .. PwSize -> Char]
       /\ j.answer \in Seq(Char \ {"\n"}) /\ j.typed \in Seq(Char \ {"\n"})

DEFAULT_PRINT_SIZE == 20

VARIABLES
  job,           \* command line and input of a process, never changed
  pc,            \* where it is
  stdin,         \* what it has not read yet
  echo,          \* its terminal shows what is typed
  pw,            \* the array pw, at first whatever is on the stack
  argv,          \* interpr_argv
  result,        \* interpr_result
  out,           \* what was copied to print_buf
  written,       \* what write_sys returned
  shown,         \* what the process printed
  module,        \* where the kernel module is in its life
  locks,         \* its locks are initialised
  kobj, group,   \* its kobject exists; the files exist
  lock,          \* who holds interpreter_lock
  key,           \* the password the key was derived from
  setter,        \* history: who set it
  seen,          \* history: the keys the cycles of a process ran under
  ran            \* history: the processes whose program came to its end

procvars == <<job, pc, stdin, echo, pw, argv, result, out, written, shown>>
kernelvars == <<module, locks, kobj, group, lock, key, setter, seen, ran>>
vars == <<procvars, kernelvars>>

\* In a system call on the file invoke.
InHandler == {"init", "run", "done"}

Reports == {"none", "failure", "success", "no backend", "backend error", "done"}

Labels == {"options", "answer", "password", "send", "open", "invoke", "report", "exit",
           "killed"} \cup InHandler
Words == Seq(0 .. WordMod - 1)
Jobs == UNION {JobsOf[p] : p \in Proc}

TypeOK ==
  /\ job \in [Proc -> Jobs] /\ \A p \in Proc : job[p] \in JobsOf[p]
  /\ pc \in [Proc -> Labels]
  /\ stdin \in [Proc -> Seq(Char)]
  /\ echo \in [Proc -> BOOLEAN]
  /\ pw \in [Proc -> [1 .. PwSize -> Char]]
  /\ argv \in [Proc -> Words]
  /\ result \in [Proc -> -1 .. 8]
  /\ out \in [Proc -> Words]
  /\ written \in [Proc -> -1 .. SizeMod - 1]
  /\ shown \in [Proc -> [what : Reports, words : Seq(Int)]]
  /\ module \in {"out", "features", "locks", "kobject", "in", "exit"}
  /\ locks \in BOOLEAN /\ kobj \in BOOLEAN /\ group \in BOOLEAN
  /\ lock \in Proc \cup {Nobody}
  /\ key \in {NoKey} \cup Seq(Char)
  /\ setter \in Proc \cup {Nobody}
  /\ seen \in [Proc -> SUBSET ({NoKey} \cup Seq(Char))]
  /\ ran \subseteq Proc

Nothing == [what |-> "none", words |-> << >>]

Init ==
  /\ job \in [Proc -> Jobs]
  /\ \A p \in Proc : job[p] \in JobsOf[p]
  /\ pc = [p \in Proc |-> "options"]
  /\ stdin = [p \in Proc |-> job[p].answer \o <<"\n">> \o job[p].typed \o <<"\n">>]
  /\ echo = [p \in Proc |-> TRUE]
  /\ pw = [p \in Proc |-> job[p].garbage]
  /\ argv = [p \in Proc |-> << >>]
  /\ result = [p \in Proc |-> -1]
  /\ out = [p \in Proc |-> << >>]
  /\ written = [p \in Proc |-> 0]
  /\ shown = [p \in Proc |-> Nothing]
  /\ module = "out"
  /\ locks = FALSE /\ kobj = FALSE /\ group = FALSE
  /\ lock = Nobody
  /\ key = NoKey
  /\ setter = Nobody
  /\ seen = [p \in Proc |-> {}]
  /\ ran = {}

-----------------------------------------------------------------------------
(* The kernel module: bispe_init and bispe_exit.                           *)

\* bispe_check_features.  Without the features bispe_init returns 1; the
\* kernel only takes a negative number for a failure and keeps the module.
Insmod ==
  /\ module = "out"
  /\ module' \in {"features", "in"}
  /\ UNCHANGED <<procvars, locks, kobj, group, lock, key, setter, seen, ran>>

\* Mutant: the locks are left to be initialised later.
InitLocks_late ==
  /\ module = "features"
  /\ module' = "locks"
  /\ UNCHANGED <<procvars, locks, lock, kobj, group, key, setter, seen, ran>>

InitLocks ==
  /\ module = "features"
  /\ locks' = TRUE
  /\ lock' = Nobody
  /\ module' = "locks"
  /\ UNCHANGED <<procvars, kobj, group, key, setter, seen, ran>>

\* The code of a module that could not be loaded is gone.
LoadFails == module' = "out" /\ locks' = FALSE

CreateKobject ==
  /\ module = "locks"
  /\ \/ module' = "kobject" /\ kobj' = TRUE /\ UNCHANGED locks
     \/ LoadFails /\ UNCHANGED kobj
  /\ UNCHANGED <<procvars, group, lock, key, setter, seen, ran>>

\* Mutant: the kobject stays when its files could not be created.
CreateGroup_no_put ==
  /\ module = "kobject"
  /\ \/ module' = "in" /\ group' = TRUE /\ UNCHANGED locks
     \/ LoadFails /\ UNCHANGED group
  /\ UNCHANGED <<procvars, kobj, lock, key, setter, seen, ran>>

CreateGroup ==
  /\ module = "kobject"
  /\ \/ module' = "in" /\ group' = TRUE /\ UNCHANGED <<locks, kobj>>
     \/ LoadFails /\ kobj' = FALSE /\ UNCHANGED group
  /\ UNCHANGED <<procvars, lock, key, setter, seen, ran>>

\* kobject_put removes the files at once ...
Rmmod ==
  /\ module = "in"
  /\ module' = "exit"
  /\ group' = FALSE
  /\ UNCHANGED <<procvars, locks, kobj, lock, key, setter, seen, ran>>

\* ... and waits for the system calls on them before it returns.
ExitSysfs ==
  /\ module = "exit"
  /\ \A p \in Proc : pc[p] \notin InHandler
  /\ kobj' = FALSE
  /\ locks' = FALSE
  /\ module' = "out"
  /\ UNCHANGED <<procvars, group, lock, key, setter, seen, ran>>

-----------------------------------------------------------------------------
(* The frontend up to the password.                                        *)

Set(f, p, v) == [f EXCEPT ![p] = v]
Exit(p, what) == /\ pc' = Set(pc, p, "exit")
                 /\ shown' = Set(shown, p, [Nothing EXCEPT !.what = what])
GoTo(p, l) == pc' = Set(pc, p, l) /\ UNCHANGED shown

\* A number from the command line must be an int32_t or a uint32_t.
InRange(n) == n <= WordMod - 1 /\ n >= -(WordMod \div 2)

ParseOptions(p) ==
  /\ pc[p] = "options"
  /\ IF (~job[p].file /\ ~job[p].password)
        \/ (\E k \in DOMAIN job[p].args : ~InRange(job[p].args[k]))
     THEN Exit(p, "failure") /\ UNCHANGED argv
     ELSE /\ argv' = Set(argv, p, [k \in DOMAIN job[p].args |-> job[p].args[k] % WordMod])
          /\ GoTo(p, IF job[p].password THEN "answer" ELSE "open")
  /\ UNCHANGED <<job, stdin, echo, pw, result, out, written, kernelvars>>

\* fgets(buf, 3, stdin): at most two characters, no further than a newline.
\* Then read_password turns the echo off.
ReadAnswer(p) ==
  /\ pc[p] = "answer"
  /\ LET n == IF stdin[p][1] = "\n" THEN 1 ELSE 2
     IN stdin' = Set(stdin, p, SubSeq(stdin[p], n + 1, Len(stdin[p])))
  /\ IF stdin[p][1] = "y"
     THEN GoTo(p, "password") /\ echo' = Set(echo, p, FALSE)
     ELSE Exit(p, "failure") /\ UNCHANGED echo
  /\ UNCHANGED <<job, pw, argv, result, out, written, kernelvars>>

First(ends) == CHOOSE k \in ends : \A m \in ends : k <= m

\* The characters in front of the first that ends the password.
Typed(s) ==
  SubSeq(s, 1, First({k \in DOMAIN s : s[k] \in {"\n", Eof}} \cup {Len(s) + 1}) - 1)

Zeros == [k \in 1 .. PwSize |-> NUL]

\* Mutant: the size of the buffer is not tested.
Filled_over(buf, s) ==
  [k \in 1 .. (IF Len(s) > PwSize THEN Len(s) ELSE PwSize) |->
     IF k <= Len(s) THEN s[k] ELSE buf[k]]

\* What read_password leaves in buf.  Behind the characters it is not
\* changed, not even terminated.
Filled(buf, s) == [k \in 1 .. PwSize |-> IF k <= Len(s) THEN s[k] ELSE buf[k]]

\* Mutant: the terminal is only restored after a newline.
read_password_full(p) ==
  /\ pc[p] = "password"
  /\ pw' = Set(pw, p, IF job[p].stdin_fails THEN Zeros ELSE Filled(pw[p], Typed(stdin[p])))
  /\ echo' = Set(echo, p, ~job[p].stdin_fails /\ Len(Typed(stdin[p])) < PwSize)
  /\ GoTo(p, "send")
  /\ UNCHANGED <<job, stdin, argv, result, out, written, kernelvars>>

\* If reading fails the terminal is not restored, and main goes on.
read_password(p) ==
  /\ pc[p] = "password"
  /\ pw' = Set(pw, p, IF job[p].stdin_fails THEN Zeros ELSE Filled(pw[p], Typed(stdin[p])))
  /\ echo' = Set(echo, p, ~job[p].stdin_fails)
  /\ GoTo(p, "send")
  /\ UNCHANGED <<job, stdin, argv, result, out, written, kernelvars>>

\* Mutant: the terminator is not written.
password_store_open(buf) ==
  SubSeq(buf, 1, First({k \in 1 .. PwSize : buf[k] = NUL} \cup {PwSize + 1}) - 1)

\* The string that password_store hashes.
password_store(buf) ==
  SubSeq(buf, 1, First({k \in 1 .. PwSize - 1 : buf[k] = NUL} \cup {PwSize}) - 1)

\* Mutant: the password is only erased when it was accepted.
Erase_accepted(p) == pw' = IF group THEN Set(pw, p, Zeros) ELSE pw

Erase(p) == pw' = Set(pw, p, Zeros)

SendPassword(p) ==
  /\ pc[p] = "send"
  /\ Erase(p)
  /\ IF group
     THEN /\ key' = password_store(pw[p])
          /\ setter' = p
          /\ IF job[p].file THEN GoTo(p, "open") ELSE Exit(p, "success")
     ELSE Exit(p, "failure") /\ UNCHANGED <<key, setter>>
  /\ UNCHANGED <<job, stdin, echo, argv, result, out, written, module, locks, kobj,
                 group, lock, seen, ran>>

-----------------------------------------------------------------------------
(* Execution.                                                              *)

\* Mutant: zero stands for "nothing was written" and for success.
NoResult_zero == 0

NoResult == -1

\* Opening and reading the file and allocating the print buffer can fail.
OpenFile(p) ==
  /\ pc[p] = "open"
  /\ \/ Exit(p, "failure") /\ UNCHANGED result
     \/ GoTo(p, "invoke") /\ result' = Set(result, p, NoResult)
  /\ UNCHANGED <<job, stdin, echo, pw, argv, out, written, kernelvars>>

\* write_sys has returned n.
Return(p, n) == written' = Set(written, p, n) /\ GoTo(p, "report")

\* The tests of invoke_interpreter and mutex_trylock.
WriteInvoke(p) ==
  /\ pc[p] = "invoke"
  /\ CASE ~group -> Return(p, -1) /\ UNCHANGED lock
       [] group /\ (~job[p].aligned \/ lock # Nobody) -> Return(p, 0) /\ UNCHANGED lock
       [] OTHER -> lock' = p /\ GoTo(p, "init") /\ UNCHANGED written
  /\ UNCHANGED <<job, stdin, echo, pw, argv, result, out, module, locks, kobj, group,
                 key, setter, seen, ran>>

\* Neither init_interpreter nor kthread_run need succeed.
InitInterpreter(p) ==
  /\ pc[p] = "init"
  /\ \/ Return(p, 0) /\ lock' = Nobody /\ UNCHANGED seen
     \/ GoTo(p, "run") /\ seen' = Set(seen, p, {key}) /\ UNCHANGED <<lock, written>>
  /\ UNCHANGED <<job, stdin, echo, pw, argv, result, out, module, locks, kobj, group,
                 key, setter, ran>>

\* The next cycle generates its round keys again.
NextCycle(p) ==
  /\ pc[p] = "run"
  /\ GoTo(p, "done")
  /\ seen' = Set(seen, p, seen[p] \cup {key})
  /\ UNCHANGED <<job, stdin, echo, pw, argv, result, out, written, module, locks, kobj,
                 group, lock, key, setter, ran>>

PrintBytes(p) == (4 * job[p].print_size) % SizeMod

\* The words in front of the pointer of the print ring, if there is a buffer
\* for them.
Delivered(p, words) ==
  LET ring == (IF PrintBytes(p) > 0 THEN PrintBytes(p) ELSE DEFAULT_PRINT_SIZE) \div 4
      n == Len(words) % ring
  IN IF PrintBytes(p) > 0 THEN SubSeq(words, Len(words) - n + 1, Len(words)) ELSE << >>

\* What a program can do: error code and output.
Outcomes(p) ==
  IF seen[p] = {job[p].enc} THEN {<<0, argv[p]>>}
  ELSE {0, 1} \X {<< >>, <<WordMod - 1>>}

ReturnResult(p) ==
  /\ pc[p] = "done"
  /\ \E o \in Outcomes(p) :
       /\ out' = Set(out, p, Delivered(p, o[2]))
       /\ Return(p, 4 * Len(Delivered(p, o[2])))
       /\ result' = Set(result, p, o[1])
  /\ ran' = ran \cup {p}
  /\ lock' = Nobody
  /\ UNCHANGED <<job, stdin, echo, pw, argv, module, locks, kobj, group, key, setter,
                 seen>>

Signed(w) == IF w >= WordMod \div 2 THEN w - WordMod ELSE w

\* Mutant: words are printed as unsigned numbers.
Printed_unsigned(words, n) == [k \in 1 .. n \div 4 |-> words[k]]

\* printf("%d\n") for each of the words.
Printed(words, n) == [k \in 1 .. n \div 4 |-> Signed(words[k])]

Report(p) ==
  /\ pc[p] = "report"
  /\ CASE written[p] = -1 -> Exit(p, "no backend")
       [] written[p] # -1 /\ result[p] = -1 -> Exit(p, "backend error")
       [] OTHER -> /\ pc' = Set(pc, p, "exit")
                   /\ shown' = Set(shown, p, [what |-> "done",
                                              words |-> Printed(out[p], written[p])])
  /\ UNCHANGED <<job, stdin, echo, pw, argv, result, out, written, kernelvars>>

\* A fatal signal; the handler gives the lock back first.
Kill(p) ==
  /\ pc[p] \notin {"exit", "killed"}
  /\ pc' = Set(pc, p, "killed")
  /\ lock' = IF pc[p] \in InHandler THEN Nobody ELSE lock
  /\ UNCHANGED <<job, stdin, echo, pw, argv, result, out, written, shown, module, locks,
                 kobj, group, key, setter, seen, ran>>

Kernel == Insmod \/ InitLocks \/ CreateKobject \/ CreateGroup \/ Rmmod \/ ExitSysfs

Process(p) ==
  \/ ParseOptions(p) \/ ReadAnswer(p) \/ read_password(p) \/ SendPassword(p)
  \/ OpenFile(p) \/ WriteInvoke(p) \/ InitInterpreter(p) \/ NextCycle(p)
  \/ ReturnResult(p) \/ Report(p) \/ Kill(p)

Next == Kernel \/ \E p \in Proc : Process(p)

Spec == Init /\ [][Next]_vars

-----------------------------------------------------------------------------
(* Properties.                                                             *)

\* No system call runs in a module that is not there or whose locks are
\* not initialised, whenever it is loaded, fails to load, or is unloaded.
HandlersReady == \A p \in Proc : pc[p] \in InHandler => locks /\ module # "out"

\* /sys/kernel/bispe does not outlive the module, also if loading it
\* failed half way.
KobjectOwned == module = "out" => ~kobj /\ ~group

(***************************************************************************)
(* The files and the module behind them go together: no system call meets  *)
(* a module that is not ready or gone, and no file is left without it.     *)
(***************************************************************************)
ModuleSound == HandlersReady /\ KobjectOwned

\* The conditions under which the array pw holds exactly what was typed at
\* the password prompt: the answer was one letter, there is a zero behind
\* the password or no room for one, and nothing in it looks like the end
\* of the file or of a string.
CleanInput(j) ==
  /\ j.answer = <<"y">>
  /\ ~j.stdin_fails
  /\ \A k \in DOMAIN j.typed : j.typed[k] \notin {Eof, NUL}
  /\ Len(j.typed) >= PwSize - 1 \/ j.garbage[Len(j.typed) + 1] = NUL

(***************************************************************************)
(* "This key is derived from a user-specified password": the key comes     *)
(* from the text that was typed at the prompt, cut to the 53 characters    *)
(* the backend uses.  It only holds for CleanInput: each of its conditions *)
(* is needed.                                                              *)
(***************************************************************************)
KeyFromPassword ==
  setter # Nobody /\ CleanInput(job[setter]) =>
    LET typed == job[setter].typed
    IN key = SubSeq(typed, 1, IF Len(typed) < PwSize THEN Len(typed) ELSE PwSize - 1)

\* The password does not stay in the array pw: whichever way the frontend
\* takes, unless it is killed, the characters are gone when it goes on to
\* the program or exits.
PasswordErased ==
  \A p \in Proc : pc[p] \notin {"send", "killed"} => pw[p] \in {Zeros, job[p].garbage}

\* A frontend that exits leaves the terminal with echo, unless reading
\* from it failed.
TerminalRestored ==
  \A p \in Proc : pc[p] = "exit" /\ ~job[p].stdin_fails => echo[p]

(***************************************************************************)
(* A frontend leaves no trace of asking for a password: neither its        *)
(* characters in memory nor a terminal without echo.                       *)
(***************************************************************************)
NoTrace == PasswordErased /\ TerminalRestored

(***************************************************************************)
(* The frontend tells the truth: it shows a result if and only if its own  *)
(* program came to its end, whoever held the lock, set another password or *)
(* unloaded the module meanwhile.                                          *)
(***************************************************************************)
ReportTruthful ==
  \A p \in Proc : pc[p] = "exit" => (shown[p].what = "done") = (p \in ran)

(***************************************************************************)
(* End to end: numbers that fit into 32 bits with a sign come back from a  *)
(* program that prints them as they were typed on the command line, if the *)
(* key was the right one during the whole run and the print buffer is      *)
(* larger than the output.                                                 *)
(***************************************************************************)
EchoRight ==
  \A p \in Proc :
    /\ shown[p].what = "done"
    /\ seen[p] = {job[p].enc}
    /\ \A k \in DOMAIN job[p].args : job[p].args[k] < WordMod \div 2
    /\ 4 * Len(job[p].args) < PrintBytes(p)
    => shown[p].words = job[p].args
=============================================================================
