------------------------------- MODULE Invoke -------------------------------
(***************************************************************************)
(* Running a program through the sysfs file "invoke": processes that write *)
(* an invoke_ctx, the mutex interpreter_lock that admits one of them, the  *)
(* kernel thread that executes the program, and the semaphore              *)
(* interpreter_finish_lock on which the creator of the thread waits until  *)
(* the program has finished or a fatal signal arrives.                     *)
(*                                                                         *)
(* A process here is one thread of user space; its runtime context, its    *)
(* interpreter thread and the variables of its system call are indexed by  *)
(* it.  What a cycle does is Interpreter's business: here a cycle either   *)
(* halts the program with an exit code or does not.  The kernel's mutex,   *)
(* semaphore, kthread and signal primitives are external.                  *)
(***************************************************************************)
EXTENDS Integers, FiniteSets

CONSTANTS
  Process,     \* processes that can write to the invoke file
  Killable,    \* those that can receive a fatal signal
  ExitCodes    \* exit codes a program can have: 0 or the number of an error

ASSUME InvokeAssumption ==
  /\ IsFiniteSet(Process)
  /\ Killable \subseteq Process
  /\ ExitCodes \subseteq 0 .. 8

\* Results of start_interpreter_thread that are no exit codes.
Stopped == -1       \* start_interpreter: kthread_should_stop was true
NoThread == -2      \* kthread_run failed
NotRun == -4        \* -EINTR: stopped before thread_main was called

Results == {Stopped, NoThread, NotRun, 0} \cup ExitCodes

VARIABLES
  lock,          \* interpreter_lock: the set of its holders
  sem,           \* count of interpreter_finish_lock
  statics,       \* whose runtime context the bispe_* variables point into:
                 \* a set of at most one process
  ctx,           \* processes whose runtime_ctx is allocated
  ppc,           \* where the system call of a process is
  result,        \* its local variable interpreter_result
  user_result,   \* the variable of the frontend behind invoke_ctx->result
  killed,        \* processes with a pending fatal signal
  tpc,           \* where the interpreter thread of a process is
  should_stop,   \* threads on which kthread_stop was called
  exit,          \* its local error_code, and what it returns in the end
  halted         \* history: the programs of running or last executions that
                 \* halted, as pairs of process and exit code

procvars == <<ppc, result, user_result>>
threadvars == <<tpc, should_stop, exit>>
vars == <<lock, sem, statics, ctx, procvars, killed, threadvars, halted>>

\* "out": not in the system call
ProcessPc == {"out", "init", "create", "down", "stop", "join", "deliver",
              "cleanup", "unlock"}
ThreadPc == {"none", "created", "loop", "behind", "up", "wait", "exited"}

TypeOK ==
  /\ lock \subseteq Process
  /\ sem \in Nat
  /\ statics \subseteq Process
  /\ ctx \subseteq Process
  /\ ppc \in [Process -> ProcessPc]
  /\ result \in [Process -> Results]
  /\ user_result \in [Process -> Results]
  /\ killed \subseteq Killable
  /\ tpc \in [Process -> ThreadPc]
  /\ should_stop \subseteq Process
  /\ exit \in [Process -> Results]
  /\ halted \subseteq Process \X ExitCodes

Init ==
  /\ lock = {}
  /\ sem = 0
  /\ statics = {}
  /\ ctx = {}
  /\ ppc = [p \in Process |-> "out"]
  /\ result = [p \in Process |-> Stopped]
  /\ user_result = [p \in Process |-> Stopped]
  /\ killed = {}
  /\ tpc = [p \in Process |-> "none"]
  /\ should_stop = {}
  /\ exit = [p \in Process |-> Stopped]
  /\ halted = {}

GoTo(p, l) == ppc' = [ppc EXCEPT ![p] = l]
ThreadGoTo(p, l) == tpc' = [tpc EXCEPT ![p] = l]

-----------------------------------------------------------------------------
(* invoke_interpreter, the system call.                                    *)

\* Mutant: the result of mutex_trylock is not looked at.
mutex_trylock_unchecked(p) ==
  /\ ppc[p] = "out"
  /\ p \notin killed
  /\ user_result' = [user_result EXCEPT ![p] = Stopped]
  /\ halted' = {h \in halted : h[1] # p}
  /\ lock' = lock \cup {p}
  /\ GoTo(p, "init")
  /\ UNCHANGED <<sem, statics, ctx, result, killed, threadvars>>

\* The frontend presets its result with -1 and writes to the file.
mutex_trylock(p) ==
  /\ ppc[p] = "out"
  /\ p \notin killed
  /\ user_result' = [user_result EXCEPT ![p] = Stopped]
  /\ halted' = {h \in halted : h[1] # p}
  /\ IF lock = {}
     THEN lock' = {p} /\ GoTo(p, "init")
     ELSE UNCHANGED <<lock, ppc>>     \* "interpreter already in use"
  /\ UNCHANGED <<sem, statics, ctx, result, killed, threadvars>>

\* init_interpreter returns a runtime context or NULL.
init_interpreter(p) ==
  /\ ppc[p] = "init"
  /\ \/ ctx' = ctx \cup {p} /\ GoTo(p, "create")
     \/ GoTo(p, "unlock") /\ UNCHANGED ctx
  /\ UNCHANGED <<lock, sem, statics, result, user_result, killed, threadvars,
                 halted>>

\* start_interpreter_thread: kthread_run succeeds or fails with -ENOMEM.
kthread_run(p) ==
  /\ ppc[p] = "create"
  /\ \/ /\ ThreadGoTo(p, "created")
        /\ GoTo(p, "down")
        /\ UNCHANGED result
     \/ /\ result' = [result EXCEPT ![p] = NoThread]
        /\ GoTo(p, "cleanup")
        /\ UNCHANGED tpc
  /\ UNCHANGED <<lock, sem, statics, ctx, user_result, killed, should_stop,
                 exit, halted>>

\* Mutants: the semaphore is taken without a token; it is not waited for; its
\* token is seen but not taken; fatal signals do not end the wait.
DownAs(p, taken) ==
  /\ ppc[p] = "down"
  /\ sem' = sem - taken
  /\ GoTo(p, "stop")
  /\ UNCHANGED <<lock, statics, ctx, result, user_result, killed, threadvars,
                 halted>>
down_without_token(p) == DownAs(p, 1)
down_without_waiting(p) == DownAs(p, IF sem > 0 THEN 1 ELSE 0)
down_without_taking(p) == (sem > 0 \/ p \in killed) /\ DownAs(p, 0)
down_not_killable(p) == sem > 0 /\ DownAs(p, 1)

\* The return value is ignored: the creator goes on with or without a token.
down_killable(p) ==
  /\ ppc[p] = "down"
  /\ \/ sem > 0 /\ sem' = sem - 1
     \/ sem = 0 /\ p \in killed /\ UNCHANGED sem
  /\ GoTo(p, "stop")
  /\ UNCHANGED <<lock, statics, ctx, result, user_result, killed, threadvars,
                 halted>>

\* kthread_stop asks the thread to stop and waits until it has exited.
kthread_stop(p) ==
  /\ ppc[p] = "stop"
  /\ should_stop' = should_stop \cup {p}
  /\ GoTo(p, "join")
  /\ UNCHANGED <<lock, sem, statics, ctx, result, user_result, killed, tpc,
                 exit, halted>>

\* Mutant: only -1 is taken for a failed execution.
JoinThread_minus_one(p) ==
  /\ ppc[p] = "join"
  /\ tpc[p] = "exited"
  /\ result' = [result EXCEPT ![p] = exit[p]]
  /\ ThreadGoTo(p, "none")
  /\ should_stop' = should_stop \ {p}
  /\ GoTo(p, IF exit[p] = Stopped THEN "cleanup" ELSE "deliver")
  /\ UNCHANGED <<lock, sem, statics, ctx, user_result, killed, exit, halted>>

\* The exit code decides whether there is anything to deliver.
JoinThread(p) ==
  /\ ppc[p] = "join"
  /\ tpc[p] = "exited"
  /\ result' = [result EXCEPT ![p] = exit[p]]
  /\ ThreadGoTo(p, "none")
  /\ should_stop' = should_stop \ {p}
  /\ GoTo(p, IF exit[p] < 0 THEN "cleanup" ELSE "deliver")
  /\ UNCHANGED <<lock, sem, statics, ctx, user_result, killed, exit, halted>>

\* copy_to_user from the print segment the statics point to, put_user
DeliverResult(p) ==
  /\ ppc[p] = "deliver"
  /\ user_result' = [user_result EXCEPT ![p] = result[p]]
  /\ GoTo(p, "cleanup")
  /\ UNCHANGED <<lock, sem, statics, ctx, result, killed, threadvars, halted>>

cleanup_runtime_ctx(p) ==
  /\ ppc[p] = "cleanup"
  /\ ctx' = ctx \ {p}
  /\ GoTo(p, "unlock")
  /\ UNCHANGED <<lock, sem, statics, result, user_result, killed, threadvars,
                 halted>>

mutex_unlock(p) ==
  /\ ppc[p] = "unlock"
  /\ lock' = lock \ {p}
  /\ GoTo(p, "out")
  /\ UNCHANGED <<sem, statics, ctx, result, user_result, killed, threadvars,
                 halted>>

\* The environment: a fatal signal.
FatalSignal(p) ==
  /\ p \in Killable \ killed
  /\ killed' = killed \cup {p}
  /\ UNCHANGED <<lock, sem, statics, ctx, procvars, threadvars, halted>>

-----------------------------------------------------------------------------
(* thread_main and start_interpreter, the interpreter thread.              *)

\* The kernel does not call thread_main if kthread_stop came first.
\* Otherwise start_interpreter copies the runtime context to the statics.
ThreadStart(p) ==
  /\ tpc[p] = "created"
  /\ IF p \in should_stop
     THEN /\ ThreadGoTo(p, "exited")
          /\ exit' = [exit EXCEPT ![p] = NotRun]
          /\ UNCHANGED statics
     ELSE /\ ThreadGoTo(p, "loop")
          /\ statics' = {p}
          /\ exit' = [exit EXCEPT ![p] = 0]
  /\ UNCHANGED <<lock, sem, ctx, procvars, killed, should_stop, halted>>

\* The head of the loop; if the thread need not stop, one cycle is run.
Cycle(p) ==
  /\ tpc[p] = "loop"
  /\ \/ p \in should_stop /\ ThreadGoTo(p, "behind") /\ UNCHANGED <<exit, halted>>
     \/ p \notin should_stop /\ UNCHANGED <<tpc, exit, halted>>
     \/ /\ p \notin should_stop
        /\ \E e \in ExitCodes : /\ exit' = [exit EXCEPT ![p] = e]
                               /\ halted' = halted \cup {<<p, e>>}
        /\ ThreadGoTo(p, "behind")
  /\ UNCHANGED <<lock, sem, statics, ctx, procvars, killed, should_stop>>

\* Mutants: a thread that was told to stop returns its error_code; a thread
\* wakes up its creator only after a run without error.
BehindLoop_unchecked(p) ==
  /\ tpc[p] = "behind"
  /\ ThreadGoTo(p, "up")
  /\ UNCHANGED <<lock, sem, statics, ctx, procvars, killed, should_stop, exit,
                 halted>>
BehindLoop_silent_error(p) ==
  /\ tpc[p] = "behind"
  /\ exit' = [exit EXCEPT ![p] = IF p \in should_stop THEN Stopped ELSE exit[p]]
  /\ ThreadGoTo(p, IF exit'[p] = 0 THEN "up" ELSE "wait")
  /\ UNCHANGED <<lock, sem, statics, ctx, procvars, killed, should_stop, halted>>

\* Behind the loop a thread that was told to stop forgets its exit code.
BehindLoop(p) ==
  /\ tpc[p] = "behind"
  /\ IF p \in should_stop
     THEN /\ exit' = [exit EXCEPT ![p] = Stopped]
          /\ ThreadGoTo(p, "wait")
     ELSE ThreadGoTo(p, "up") /\ UNCHANGED exit
  /\ UNCHANGED <<lock, sem, statics, ctx, procvars, killed, should_stop, halted>>

up(p) ==
  /\ tpc[p] = "up"
  /\ sem' = sem + 1
  /\ ThreadGoTo(p, "wait")
  /\ UNCHANGED <<lock, statics, ctx, procvars, killed, should_stop, exit, halted>>

ThreadExit(p) ==
  /\ tpc[p] = "wait"
  /\ p \in should_stop
  /\ ThreadGoTo(p, "exited")
  /\ UNCHANGED <<lock, sem, statics, ctx, procvars, killed, should_stop, exit,
                 halted>>

-----------------------------------------------------------------------------
SystemCall(p) ==
  \/ init_interpreter(p) \/ kthread_run(p) \/ down_killable(p)
  \/ kthread_stop(p) \/ JoinThread(p) \/ DeliverResult(p)
  \/ cleanup_runtime_ctx(p) \/ mutex_unlock(p)

Thread(p) ==
  ThreadStart(p) \/ Cycle(p) \/ BehindLoop(p) \/ up(p) \/ ThreadExit(p)

Next == \E p \in Process :
          mutex_trylock(p) \/ FatalSignal(p) \/ SystemCall(p) \/ Thread(p)

\* Runnable system calls and threads are scheduled.  A program may run for
\* ever, but its thread sees a stop request when the current cycle is over.
\* Nobody has to start a program, to be killed, or to write one that halts.
Fairness ==
  \A p \in Process :
    /\ WF_vars(SystemCall(p))
    /\ WF_vars(Thread(p) /\ (tpc[p] = "loop" => p \in should_stop))

Spec == Init /\ [][Next]_vars /\ Fairness

-----------------------------------------------------------------------------
(* Properties.                                                             *)

(***************************************************************************)
(* There is at most one interpreter thread, and it exists only while its   *)
(* creator holds interpreter_lock: the statics belong to one execution.    *)
(***************************************************************************)
OneThread == \A p \in Process : tpc[p] # "none" => lock = {p}

(***************************************************************************)
(* Nobody touches a runtime context that is freed or another program's:    *)
(* when a thread runs cycles, and when invoke_interpreter copies the print *)
(* segment to user space, the statics point into the context of just this  *)
(* process, and it is still allocated.                                     *)
(***************************************************************************)
NoUseAfterFree ==
  \A p \in Process :
    tpc[p] = "loop" \/ ppc[p] = "deliver" => statics = {p} /\ p \in ctx

(***************************************************************************)
(* An exit code that reaches the frontend is the one with which the        *)
(* program of this very invocation halted.                                 *)
(***************************************************************************)
ResultIsOwn ==
  \A p \in Process : user_result[p] >= 0 => <<p, user_result[p]>> \in halted

(***************************************************************************)
(* Tokens of interpreter_finish_lock are left behind only by executions    *)
(* whose creator was killed: between two executions there are at most as   *)
(* many as processes that got a fatal signal.                              *)
(***************************************************************************)
TokensFromKills == lock = {} => sem <= Cardinality(killed)

(***************************************************************************)
(* A process that was killed leaves the system call, whatever its program  *)
(* does: down_killable returns, the thread sees kthread_should_stop after  *)
(* its current cycle, and kthread_stop returns.                            *)
(***************************************************************************)
KilledReturns == \A p \in Process : p \in killed ~> ppc[p] = "out"

(***************************************************************************)
(* When its program halts the creator is woken up and returns to the       *)
(* frontend: no order of up, down_killable and kthread_stop loses a wakeup.*)
(***************************************************************************)
HaltReturns == \A p \in Process : tpc[p] = "behind" ~> ppc[p] = "out"

(***************************************************************************)
(* As long as nobody was killed no execution is cut short: down_killable   *)
(* returns only for the up of this thread, never for one of an earlier     *)
(* execution, so kthread_stop comes when the program has halted.           *)
(***************************************************************************)
QuietRunsComplete ==
  killed = {} =>
    \A p \in Process : ppc[p] = "cleanup" => result[p] \notin {Stopped, NotRun}

(***************************************************************************)
(* "thread was told by signal to stop": an execution is reported as        *)
(* interrupted only if its process got a fatal signal.                     *)
(***************************************************************************)
InterruptedBySignal ==
  \A p \in Process :
    ppc[p] = "cleanup" /\ result[p] \in {Stopped, NotRun} => p \in killed
=============================================================================
