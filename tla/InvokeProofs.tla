---------------------------- MODULE InvokeProofs ----------------------------
(***************************************************************************)
(* Proofs about Invoke, for any number of processes: type correctness, one *)
(* interpreter thread at a time, no use of a freed runtime context,        *)
(* results that belong to the invocation, and tokens of the semaphore that *)
(* only kills leave behind.                                                *)
(***************************************************************************)
EXTENDS Invoke, FiniteSetTheorems, TLAPS

\* Where a system call is when its thread, or its runtime context, exists.
WithThread == {"down", "stop", "join"}
WithContext == {"create", "down", "stop", "join", "deliver", "cleanup"}

\* The lock is held by exactly the process that is in the system call.
LockInv ==
  /\ \A p \in Process : p \in lock <=> ppc[p] # "out"
  /\ \A p, q \in lock : p = q

\* What exists while a system call is where it is.
LifeInv ==
  \A p \in Process :
    /\ tpc[p] # "none" <=> ppc[p] \in WithThread
    /\ p \in should_stop <=> ppc[p] = "join"
    /\ p \in ctx <=> ppc[p] \in WithContext

\* A thread that called start_interpreter owns the statics until its result
\* has been delivered.
StaticsOK(p) ==
    /\ tpc[p] \in {"loop", "behind", "up", "wait"} => statics = {p}
    /\ tpc[p] = "exited" /\ exit[p] >= 0 => statics = {p}
    /\ ppc[p] = "deliver" => statics = {p} /\ result[p] >= 0
StaticsInv == \A p \in Process : StaticsOK(p)

\* A non-negative result was left by a program that halted with it.
HaltOK(p) ==
    /\ tpc[p] = "behind" /\ p \notin should_stop => <<p, exit[p]>> \in halted
    /\ tpc[p] = "up" => <<p, exit[p]>> \in halted
    /\ tpc[p] \in {"wait", "exited"} /\ exit[p] >= 0 => <<p, exit[p]>> \in halted
    /\ ppc[p] = "deliver" => <<p, result[p]>> \in halted
    /\ user_result[p] >= 0 => <<p, user_result[p]>> \in halted
HaltInv == \A p \in Process : HaltOK(p)

IndInv == TypeOK /\ LockInv /\ LifeInv /\ StaticsInv /\ HaltInv

\* Results of start_interpreter_thread are numbers.
LEMMA ResultsInt == Results \subseteq Int
  BY InvokeAssumption DEF Results, Stopped, NoThread, NotRun

\* Before the first invocation there is no thread and no context.
LEMMA InitInd == Init => IndInv
  BY DEF Init, IndInv, TypeOK, LockInv, LifeInv, StaticsInv, StaticsOK,
         HaltInv, HaltOK,
         WithThread, WithContext, ProcessPc, ThreadPc, Results, Stopped,
         NoThread, NotRun

\* Every step of a system call, of a thread and of the environment keeps
\* the parts of the state together.
LEMMA NextInd == IndInv /\ [Next]_vars => IndInv'
<1> SUFFICES ASSUME TypeOK, LockInv, LifeInv, StaticsInv, HaltInv, [Next]_vars
             PROVE  IndInv'
  BY DEF IndInv
<1> USE InvokeAssumption DEF GoTo, ThreadGoTo, procvars, threadvars
<1>1. ASSUME NEW p \in Process, mutex_trylock(p) PROVE IndInv'
  <2> USE <1>1 DEF mutex_trylock
  <2>1. TypeOK'
    BY DEF TypeOK, ProcessPc, ThreadPc, Results, Stopped, NoThread, NotRun
  <2>2. LockInv'
    BY DEF TypeOK, LockInv
  <2>3. LifeInv'
    BY DEF TypeOK, LifeInv, WithThread, WithContext
  <2>4. StaticsInv'
    BY DEF TypeOK, LockInv, LifeInv, StaticsInv, StaticsOK, WithThread, Results,
           Stopped, NoThread, NotRun
  <2>5. HaltInv'
    <3> SUFFICES ASSUME NEW q \in Process PROVE HaltOK(q)'
      BY DEF HaltInv
    <3>1. HaltOK(q)
      BY DEF HaltInv
    <3>2. CASE q = p
      BY <3>1, <3>2 DEF HaltOK, TypeOK, LifeInv, WithThread, Results, Stopped,
                      NoThread, NotRun
    <3>3. CASE q # p
      BY <3>1, <3>3 DEF HaltOK, TypeOK, LifeInv, WithThread, Results, Stopped,
                      NoThread, NotRun
    <3> QED
      BY <3>2, <3>3
  <2> QED
    BY <2>1, <2>2, <2>3, <2>4, <2>5 DEF IndInv
<1>2. ASSUME NEW p \in Process, FatalSignal(p) PROVE IndInv'
  <2> USE <1>2 DEF FatalSignal
  <2>1. TypeOK'
    BY DEF TypeOK, ProcessPc, ThreadPc, Results, Stopped, NoThread, NotRun
  <2>2. LockInv'
    BY DEF TypeOK, LockInv
  <2>3. LifeInv'
    BY DEF TypeOK, LifeInv, WithThread, WithContext
  <2>4. StaticsInv'
    BY DEF TypeOK, LockInv, LifeInv, StaticsInv, StaticsOK, WithThread, Results,
           Stopped, NoThread, NotRun
  <2>5. HaltInv'
    BY DEF TypeOK, LifeInv, HaltInv, HaltOK, WithThread, Results, Stopped, NoThread,
           NotRun
  <2> QED
    BY <2>1, <2>2, <2>3, <2>4, <2>5 DEF IndInv
<1>3. ASSUME NEW p \in Process, init_interpreter(p) PROVE IndInv'
  <2> USE <1>3 DEF init_interpreter
  <2>1. TypeOK'
    BY DEF TypeOK, ProcessPc, ThreadPc, Results, Stopped, NoThread, NotRun
  <2>2. LockInv'
    BY DEF TypeOK, LockInv
  <2>3. LifeInv'
    BY DEF TypeOK, LifeInv, WithThread, WithContext
  <2>4. StaticsInv'
    BY DEF TypeOK, LockInv, LifeInv, StaticsInv, StaticsOK, WithThread, Results,
           Stopped, NoThread, NotRun
  <2>5. HaltInv'
    BY DEF TypeOK, LifeInv, HaltInv, HaltOK, WithThread, Results, Stopped, NoThread,
           NotRun
  <2> QED
    BY <2>1, <2>2, <2>3, <2>4, <2>5 DEF IndInv
<1>4. ASSUME NEW p \in Process, kthread_run(p) PROVE IndInv'
  <2> USE <1>4 DEF kthread_run
  <2>1. TypeOK'
    BY DEF TypeOK, ProcessPc, ThreadPc, Results, Stopped, NoThread, NotRun
  <2>2. LockInv'
    BY DEF TypeOK, LockInv
  <2>3. LifeInv'
    BY DEF TypeOK, LifeInv, WithThread, WithContext
  <2>4. StaticsInv'
    BY DEF TypeOK, LockInv, LifeInv, StaticsInv, StaticsOK, WithThread, Results,
           Stopped, NoThread, NotRun
  <2>5. HaltInv'
    BY DEF TypeOK, LifeInv, HaltInv, HaltOK, WithThread, Results, Stopped, NoThread,
           NotRun
  <2> QED
    BY <2>1, <2>2, <2>3, <2>4, <2>5 DEF IndInv
<1>5. ASSUME NEW p \in Process, down_killable(p) PROVE IndInv'
  <2> USE <1>5 DEF down_killable
  <2>1. TypeOK'
    BY DEF TypeOK, ProcessPc, ThreadPc, Results, Stopped, NoThread, NotRun
  <2>2. LockInv'
    BY DEF TypeOK, LockInv
  <2>3. LifeInv'
    BY DEF TypeOK, LifeInv, WithThread, WithContext
  <2>4. StaticsInv'
    BY DEF TypeOK, LockInv, LifeInv, StaticsInv, StaticsOK, WithThread, Results,
           Stopped, NoThread, NotRun
  <2>5. HaltInv'
    BY DEF TypeOK, LifeInv, HaltInv, HaltOK, WithThread, Results, Stopped, NoThread,
           NotRun
  <2> QED
    BY <2>1, <2>2, <2>3, <2>4, <2>5 DEF IndInv
<1>6. ASSUME NEW p \in Process, kthread_stop(p) PROVE IndInv'
  <2> USE <1>6 DEF kthread_stop
  <2>1. TypeOK'
    BY DEF TypeOK, ProcessPc, ThreadPc, Results, Stopped, NoThread, NotRun
  <2>2. LockInv'
    BY DEF TypeOK, LockInv
  <2>3. LifeInv'
    BY DEF TypeOK, LifeInv, WithThread, WithContext
  <2>4. StaticsInv'
    BY DEF TypeOK, LockInv, LifeInv, StaticsInv, StaticsOK, WithThread, Results,
           Stopped, NoThread, NotRun
  <2>5. HaltInv'
    BY DEF TypeOK, LifeInv, HaltInv, HaltOK, WithThread, Results, Stopped, NoThread,
           NotRun
  <2> QED
    BY <2>1, <2>2, <2>3, <2>4, <2>5 DEF IndInv
<1>7. ASSUME NEW p \in Process, JoinThread(p) PROVE IndInv'
  <2> USE <1>7 DEF JoinThread
  <2>0. exit[p] \in Int
    BY ResultsInt DEF TypeOK
  <2>1. TypeOK'
    BY DEF TypeOK, ProcessPc, ThreadPc, Results, Stopped, NoThread, NotRun
  <2>2. LockInv'
    BY DEF TypeOK, LockInv
  <2>3. LifeInv'
    BY DEF TypeOK, LifeInv, WithThread, WithContext
  <2>4. StaticsInv'
    <3> SUFFICES ASSUME NEW q \in Process PROVE StaticsOK(q)'
      BY DEF StaticsInv
    <3>1. StaticsOK(q)
      BY DEF StaticsInv
    <3>2. CASE q = p
      BY <2>0, <3>1, <3>2 DEF StaticsOK, TypeOK, LifeInv, WithThread
    <3>3. CASE q # p
      BY <3>1, <3>3 DEF StaticsOK, TypeOK, LifeInv, WithThread
    <3> QED
      BY <3>2, <3>3
  <2>5. HaltInv'
    <3> SUFFICES ASSUME NEW q \in Process PROVE HaltOK(q)'
      BY DEF HaltInv
    <3>1. HaltOK(q)
      BY DEF HaltInv
    <3>2. CASE q = p
      BY <2>0, <3>1, <3>2 DEF HaltOK, TypeOK, LifeInv, WithThread
    <3>3. CASE q # p
      BY <3>1, <3>3 DEF HaltOK, TypeOK, LifeInv, WithThread
    <3> QED
      BY <3>2, <3>3
  <2> QED
    BY <2>1, <2>2, <2>3, <2>4, <2>5 DEF IndInv
<1>8. ASSUME NEW p \in Process, DeliverResult(p) PROVE IndInv'
  <2> USE <1>8 DEF DeliverResult
  <2>1. TypeOK'
    BY DEF TypeOK, ProcessPc, ThreadPc, Results, Stopped, NoThread, NotRun
  <2>2. LockInv'
    BY DEF TypeOK, LockInv
  <2>3. LifeInv'
    BY DEF TypeOK, LifeInv, WithThread, WithContext
  <2>4. StaticsInv'
    BY DEF TypeOK, LockInv, LifeInv, StaticsInv, StaticsOK, WithThread, Results,
           Stopped, NoThread, NotRun
  <2>5. HaltInv'
    BY DEF TypeOK, LifeInv, HaltInv, HaltOK, WithThread, Results, Stopped, NoThread,
           NotRun
  <2> QED
    BY <2>1, <2>2, <2>3, <2>4, <2>5 DEF IndInv
<1>9. ASSUME NEW p \in Process, cleanup_runtime_ctx(p) PROVE IndInv'
  <2> USE <1>9 DEF cleanup_runtime_ctx
  <2>1. TypeOK'
    BY DEF TypeOK, ProcessPc, ThreadPc, Results, Stopped, NoThread, NotRun
  <2>2. LockInv'
    BY DEF TypeOK, LockInv
  <2>3. LifeInv'
    BY DEF TypeOK, LifeInv, WithThread, WithContext
  <2>4. StaticsInv'
    BY DEF TypeOK, LockInv, LifeInv, StaticsInv, StaticsOK, WithThread, Results,
           Stopped, NoThread, NotRun
  <2>5. HaltInv'
    BY DEF TypeOK, LifeInv, HaltInv, HaltOK, WithThread, Results, Stopped, NoThread,
           NotRun
  <2> QED
    BY <2>1, <2>2, <2>3, <2>4, <2>5 DEF IndInv
<1>10. ASSUME NEW p \in Process, mutex_unlock(p) PROVE IndInv'
  <2> USE <1>10 DEF mutex_unlock
  <2>1. TypeOK'
    BY DEF TypeOK, ProcessPc, ThreadPc, Results, Stopped, NoThread, NotRun
  <2>2. LockInv'
    BY DEF TypeOK, LockInv
  <2>3. LifeInv'
    BY DEF TypeOK, LifeInv, WithThread, WithContext
  <2>4. StaticsInv'
    BY DEF TypeOK, LockInv, LifeInv, StaticsInv, StaticsOK, WithThread, Results,
           Stopped, NoThread, NotRun
  <2>5. HaltInv'
    BY DEF TypeOK, LifeInv, HaltInv, HaltOK, WithThread, Results, Stopped, NoThread,
           NotRun
  <2> QED
    BY <2>1, <2>2, <2>3, <2>4, <2>5 DEF IndInv
<1>11. ASSUME NEW p \in Process, ThreadStart(p) PROVE IndInv'
  <2> USE <1>11 DEF ThreadStart
  <2>1. TypeOK'
    BY DEF TypeOK, ProcessPc, ThreadPc, Results, Stopped, NoThread, NotRun
  <2>2. LockInv'
    BY DEF TypeOK, LockInv
  <2>3. LifeInv'
    BY DEF TypeOK, LifeInv, WithThread, WithContext
  <2>4. StaticsInv'
    BY DEF TypeOK, LockInv, LifeInv, StaticsInv, StaticsOK, WithThread, Results,
           Stopped, NoThread, NotRun
  <2>5. HaltInv'
    <3> SUFFICES ASSUME NEW q \in Process PROVE HaltOK(q)'
      BY DEF HaltInv
    <3>1. HaltOK(q)
      BY DEF HaltInv
    <3>2. CASE q = p
      BY <3>1, <3>2 DEF HaltOK, TypeOK, LifeInv, WithThread, Results, Stopped,
                      NoThread, NotRun
    <3>3. CASE q # p
      BY <3>1, <3>3 DEF HaltOK, TypeOK, LifeInv, WithThread, Results, Stopped,
                      NoThread, NotRun
    <3> QED
      BY <3>2, <3>3
  <2> QED
    BY <2>1, <2>2, <2>3, <2>4, <2>5 DEF IndInv
<1>12. ASSUME NEW p \in Process, Cycle(p) PROVE IndInv'
  <2> USE <1>12 DEF Cycle
  <2>1. TypeOK'
    BY DEF TypeOK, ProcessPc, ThreadPc, Results, Stopped, NoThread, NotRun
  <2>2. LockInv'
    BY DEF TypeOK, LockInv
  <2>3. LifeInv'
    BY DEF TypeOK, LifeInv, WithThread, WithContext
  <2>4. StaticsInv'
    BY DEF TypeOK, LockInv, LifeInv, StaticsInv, StaticsOK, WithThread, Results,
           Stopped, NoThread, NotRun
  <2>5. HaltInv'
    BY DEF TypeOK, LifeInv, HaltInv, HaltOK, WithThread, Results, Stopped, NoThread,
           NotRun
  <2> QED
    BY <2>1, <2>2, <2>3, <2>4, <2>5 DEF IndInv
<1>13. ASSUME NEW p \in Process, BehindLoop(p) PROVE IndInv'
  <2> USE <1>13 DEF BehindLoop
  <2>1. TypeOK'
    BY DEF TypeOK, ProcessPc, ThreadPc, Results, Stopped, NoThread, NotRun
  <2>2. LockInv'
    BY DEF TypeOK, LockInv
  <2>3. LifeInv'
    BY DEF TypeOK, LifeInv, WithThread, WithContext
  <2>4. StaticsInv'
    BY DEF TypeOK, LockInv, LifeInv, StaticsInv, StaticsOK, WithThread, Results,
           Stopped, NoThread, NotRun
  <2>5. HaltInv'
    <3> SUFFICES ASSUME NEW q \in Process PROVE HaltOK(q)'
      BY DEF HaltInv
    <3>1. HaltOK(q)
      BY DEF HaltInv
    <3>2. CASE q = p
      BY <3>1, <3>2 DEF HaltOK, TypeOK, LifeInv, WithThread, Results, Stopped,
                      NoThread, NotRun
    <3>3. CASE q # p
      BY <3>1, <3>3 DEF HaltOK, TypeOK, LifeInv, WithThread, Results, Stopped,
                      NoThread, NotRun
    <3> QED
      BY <3>2, <3>3
  <2> QED
    BY <2>1, <2>2, <2>3, <2>4, <2>5 DEF IndInv
<1>14. ASSUME NEW p \in Process, up(p) PROVE IndInv'
  <2> USE <1>14 DEF up
  <2>1. TypeOK'
    BY DEF TypeOK, ProcessPc, ThreadPc, Results, Stopped, NoThread, NotRun
  <2>2. LockInv'
    BY DEF TypeOK, LockInv
  <2>3. LifeInv'
    BY DEF TypeOK, LifeInv, WithThread, WithContext
  <2>4. StaticsInv'
    BY DEF TypeOK, LockInv, LifeInv, StaticsInv, StaticsOK, WithThread, Results,
           Stopped, NoThread, NotRun
  <2>5. HaltInv'
    BY DEF TypeOK, LifeInv, HaltInv, HaltOK, WithThread, Results, Stopped, NoThread,
           NotRun
  <2> QED
    BY <2>1, <2>2, <2>3, <2>4, <2>5 DEF IndInv
<1>15. ASSUME NEW p \in Process, ThreadExit(p) PROVE IndInv'
  <2> USE <1>15 DEF ThreadExit
  <2>1. TypeOK'
    BY DEF TypeOK, ProcessPc, ThreadPc, Results, Stopped, NoThread, NotRun
  <2>2. LockInv'
    BY DEF TypeOK, LockInv
  <2>3. LifeInv'
    BY DEF TypeOK, LifeInv, WithThread, WithContext
  <2>4. StaticsInv'
    BY DEF TypeOK, LockInv, LifeInv, StaticsInv, StaticsOK, WithThread, Results,
           Stopped, NoThread, NotRun
  <2>5. HaltInv'
    BY DEF TypeOK, LifeInv, HaltInv, HaltOK, WithThread, Results, Stopped, NoThread,
           NotRun
  <2> QED
    BY <2>1, <2>2, <2>3, <2>4, <2>5 DEF IndInv
<1>16. CASE UNCHANGED vars
  BY <1>16 DEF vars, IndInv, TypeOK, LockInv, LifeInv, StaticsInv,
          StaticsOK, HaltInv, HaltOK
<1> QED
  BY <1>1, <1>2, <1>3, <1>4, <1>5, <1>6, <1>7, <1>8, <1>9, <1>10, <1>11,
     <1>12, <1>13, <1>14, <1>15, <1>16 DEF Next, SystemCall, Thread

-----------------------------------------------------------------------------
(* The state of the system call, the thread, the statics and the halted    *)
(* programs always fit together.                                           *)
THEOREM Inductive == Spec => []IndInv
<1>1. Init => IndInv
  BY InitInd
<1>2. IndInv /\ [Next]_vars => IndInv'
  BY NextInd
<1> QED
  BY <1>1, <1>2, PTL DEF Spec

(* The variables of the system calls and threads keep their types; in      *)
(* particular the semaphore never falls below zero.                        *)
THEOREM TypeCorrect == Spec => []TypeOK
<1>1. IndInv => TypeOK
  BY DEF IndInv
<1> QED
  BY <1>1, Inductive, PTL

(* invoke_interpreter never lets two interpreter threads exist.            *)
THEOREM OneThreadAtATime == Spec => []OneThread
<1>1. IndInv => OneThread
  BY DEF IndInv, TypeOK, LockInv, LifeInv, WithThread, OneThread
<1> QED
  BY <1>1, Inductive, PTL

(* The statics never point into a freed or foreign runtime context when    *)
(* a cycle runs or the print segment is copied to user space.              *)
THEOREM MemorySafe == Spec => []NoUseAfterFree
<1>1. IndInv => NoUseAfterFree
  BY DEF IndInv, LifeInv, StaticsInv, StaticsOK, WithThread, WithContext,
         NoUseAfterFree
<1> QED
  BY <1>1, Inductive, PTL

(* The exit code put into user space is that of the invocation's own       *)
(* program, even when tokens of earlier executions are around.             *)
THEOREM OwnResult == Spec => []ResultIsOwn
<1>1. IndInv => ResultIsOwn
  BY DEF IndInv, HaltInv, HaltOK, ResultIsOwn
<1> QED
  BY <1>1, Inductive, PTL

-----------------------------------------------------------------------------
(* Tokens of interpreter_finish_lock.  A killed process cannot come back,  *)
(* so it leaves at most one token.  While a thread that is told to stop    *)
(* has not passed its up, either a token of an earlier execution was taken *)
(* or its creator was killed: one fewer token is there than kills.         *)

\* A process whose execution has not taken a token yet.
Before(q) == ppc[q] \in {"init", "create"} \/ (ppc[q] = "down" /\ tpc[q] # "wait")
After == {"stop", "join", "deliver", "cleanup", "unlock"}
NotUp == {"created", "loop", "behind", "up"}

TokensOK(q) ==
  /\ Before(q) => sem <= Cardinality(killed \ {q})
  /\ ppc[q] = "down" => sem <= Cardinality(killed \ {q}) + 1
  /\ ppc[q] \in {"stop", "join"} /\ tpc[q] \in NotUp => sem + 1 <= Cardinality(killed)
  /\ ppc[q] \in After => sem <= Cardinality(killed)

\* A thread that was stopped before it halted belongs to a time of kills.
QuietOK(q) ==
  /\ tpc[q] \in {"wait", "exited"} /\ exit[q] < 0 => killed # {}
  /\ ppc[q] = "cleanup" /\ result[q] \in {Stopped, NotRun} => killed # {}

TokensInv ==
  /\ TokensFromKills
  /\ \A q \in Process : TokensOK(q)
  /\ \A q \in Process : QuietOK(q)

\* Counting kills.
LEMMA Kills ==
  ASSUME TypeOK
  PROVE  /\ IsFiniteSet(killed)
         /\ Cardinality(killed) \in Nat
         /\ killed = {} => Cardinality(killed) = 0
         /\ \A q \in Process :
              /\ Cardinality(killed \ {q}) \in Nat
              /\ q \in killed => Cardinality(killed \ {q}) = Cardinality(killed) - 1
              /\ q \notin killed => Cardinality(killed \ {q}) = Cardinality(killed)
<1>1. killed \subseteq Process
  BY InvokeAssumption DEF TypeOK
<1>2. IsFiniteSet(killed) /\ Cardinality(killed) \in Nat
  BY <1>1, InvokeAssumption, FS_Subset, FS_CardinalityType
<1>3. killed = {} => Cardinality(killed) = 0
  BY FS_EmptySet
<1>4. ASSUME NEW q \in Process
      PROVE  /\ Cardinality(killed \ {q}) \in Nat
             /\ q \in killed => Cardinality(killed \ {q}) = Cardinality(killed) - 1
             /\ q \notin killed => Cardinality(killed \ {q}) = Cardinality(killed)
  <2>1. CASE q \in killed
    BY <1>2, <2>1, FS_RemoveElement, FS_CardinalityType
  <2>2. CASE q \notin killed
    <3>1. killed \ {q} = killed
      BY <2>2
    <3> QED
      BY <1>2, <2>2, <3>1
  <2> QED
    BY <2>1, <2>2
<1> QED
  BY <1>2, <1>3, <1>4

\* One more kill, one more token allowed.
LEMMA OneMoreKill ==
  ASSUME TypeOK, NEW p \in Process, p \notin killed, killed' = killed \cup {p}
  PROVE  /\ Cardinality(killed') = Cardinality(killed) + 1
         /\ \A q \in Process :
              /\ q = p => Cardinality(killed' \ {q}) = Cardinality(killed \ {q})
              /\ q # p => Cardinality(killed' \ {q}) = Cardinality(killed \ {q}) + 1
<1>1. IsFiniteSet(killed)
  BY Kills
<1>2. Cardinality(killed') = Cardinality(killed) + 1
  BY <1>1, FS_AddElement
<1>3. ASSUME NEW q \in Process
      PROVE  /\ q = p => Cardinality(killed' \ {q}) = Cardinality(killed \ {q})
             /\ q # p => Cardinality(killed' \ {q}) = Cardinality(killed \ {q}) + 1
  <2>1. CASE q = p
    <3>1. killed' \ {q} = killed \ {q}
      BY <2>1
    <3> QED
      BY <2>1, <3>1
  <2>2. CASE q # p
    <3>1. killed' \ {q} = (killed \ {q}) \cup {p}
      BY <2>2
    <3>2. IsFiniteSet(killed \ {q})
      BY <1>1, FS_Subset
    <3> QED
      BY <2>2, <3>1, <3>2, FS_AddElement
  <2> QED
    BY <2>1, <2>2
<1> QED
  BY <1>2, <1>3

\* No step leaves more tokens than there were kills.
LEMMA NextTokens == IndInv /\ TokensInv /\ [Next]_vars => TokensInv'
<1> SUFFICES ASSUME IndInv, TokensInv, [Next]_vars
             PROVE  TokensInv'
  OBVIOUS
<1>0. TypeOK /\ LockInv /\ LifeInv /\ StaticsInv /\ HaltInv
  BY DEF IndInv
<1>k. /\ Cardinality(killed) \in Nat
      /\ killed = {} => Cardinality(killed) = 0
      /\ \A q \in Process :
           /\ Cardinality(killed \ {q}) \in Nat
           /\ q \in killed => Cardinality(killed \ {q}) = Cardinality(killed) - 1
           /\ q \notin killed => Cardinality(killed \ {q}) = Cardinality(killed)
  BY <1>0, Kills
<1>t. sem \in Nat /\ \A q \in Process : exit[q] \in Int /\ result[q] \in Int
  BY <1>0, ResultsInt DEF TypeOK
<1> USE InvokeAssumption DEF GoTo, ThreadGoTo, procvars, threadvars
<1>1. ASSUME NEW p \in Process, mutex_trylock(p) PROVE TokensInv'
  <2> USE <1>1 DEF mutex_trylock
  <2>1. TokensFromKills'
    BY <1>0, <1>k, <1>t DEF TokensInv, TokensFromKills, TokensOK, After, TypeOK, LockInv
  <2>2. ASSUME NEW q \in Process PROVE TokensOK(q)'
    BY <1>0, <1>k, <1>t DEF TokensInv, TokensFromKills, TokensOK, Before, After, NotUp,
                            TypeOK, LockInv, LifeInv, WithThread, WithContext
  <2>3. ASSUME NEW q \in Process PROVE QuietOK(q)'
    BY <1>0, <1>k, <1>t DEF TokensInv, TokensOK, QuietOK, NotUp, TypeOK, LifeInv,
                            WithThread, StaticsInv, StaticsOK, HaltInv, HaltOK, Stopped,
                            NotRun, NoThread
  <2> QED
    BY <2>1, <2>2, <2>3 DEF TokensInv
<1>2. ASSUME NEW p \in Process, FatalSignal(p) PROVE TokensInv'
  <2> USE <1>2 DEF FatalSignal
  <2>0. p \notin killed /\ killed' = killed \cup {p}
    OBVIOUS
  <2>k. /\ Cardinality(killed') = Cardinality(killed) + 1
        /\ \A q \in Process :
             /\ q = p => Cardinality(killed' \ {q}) = Cardinality(killed \ {q})
             /\ q # p => Cardinality(killed' \ {q}) = Cardinality(killed \ {q}) + 1
    BY <1>0, <2>0, OneMoreKill
  <2>1. TokensFromKills'
    BY <1>k, <1>t, <2>k DEF TokensInv, TokensFromKills
  <2>2. ASSUME NEW q \in Process PROVE TokensOK(q)'
    <3>1. TokensOK(q)
      BY DEF TokensInv
    <3>2. UNCHANGED <<sem, ppc, tpc>>
      OBVIOUS
    <3> HIDE <1>2
    <3> QED
      BY <1>k, <1>t, <2>k, <3>1, <3>2 DEF TokensOK, Before, After, NotUp
  <2>3. ASSUME NEW q \in Process PROVE QuietOK(q)'
    BY DEF QuietOK
  <2> QED
    BY <2>1, <2>2, <2>3 DEF TokensInv
<1>3. ASSUME NEW p \in Process, init_interpreter(p) PROVE TokensInv'
  <2> USE <1>3 DEF init_interpreter
  <2>1. TokensFromKills'
    BY <1>0, <1>k, <1>t DEF TokensInv, TokensFromKills, TokensOK, After, TypeOK, LockInv
  <2>2. ASSUME NEW q \in Process PROVE TokensOK(q)'
    BY <1>0, <1>k, <1>t DEF TokensInv, TokensFromKills, TokensOK, Before, After, NotUp,
                            TypeOK, LockInv, LifeInv, WithThread, WithContext
  <2>3. ASSUME NEW q \in Process PROVE QuietOK(q)'
    BY <1>0, <1>k, <1>t DEF TokensInv, TokensOK, QuietOK, NotUp, TypeOK, LifeInv,
                            WithThread, StaticsInv, StaticsOK, HaltInv, HaltOK, Stopped,
                            NotRun, NoThread
  <2> QED
    BY <2>1, <2>2, <2>3 DEF TokensInv
<1>4. ASSUME NEW p \in Process, kthread_run(p) PROVE TokensInv'
  <2> USE <1>4 DEF kthread_run
  <2>1. TokensFromKills'
    BY <1>0, <1>k, <1>t DEF TokensInv, TokensFromKills, TokensOK, After, TypeOK, LockInv
  <2>2. ASSUME NEW q \in Process PROVE TokensOK(q)'
    BY <1>0, <1>k, <1>t DEF TokensInv, TokensFromKills, TokensOK, Before, After, NotUp,
                            TypeOK, LockInv, LifeInv, WithThread, WithContext
  <2>3. ASSUME NEW q \in Process PROVE QuietOK(q)'
    BY <1>0, <1>k, <1>t DEF TokensInv, TokensOK, QuietOK, NotUp, TypeOK, LifeInv,
                            WithThread, StaticsInv, StaticsOK, HaltInv, HaltOK, Stopped,
                            NotRun, NoThread
  <2> QED
    BY <2>1, <2>2, <2>3 DEF TokensInv
<1>5. ASSUME NEW p \in Process, down_killable(p) PROVE TokensInv'
  <2> USE <1>5 DEF down_killable
  <2>1. TokensFromKills'
    BY <1>0, <1>k, <1>t DEF TokensInv, TokensFromKills, TokensOK, After, TypeOK, LockInv
  <2>2. ASSUME NEW q \in Process PROVE TokensOK(q)'
    <3>1. CASE q = p
      <4>1. TokensOK(p)
        BY DEF TokensInv
      <4>2. ppc'[p] = "stop" /\ tpc'[p] = tpc[p] /\ killed' = killed
        BY <1>0 DEF TypeOK
      <4>3. tpc[p] \in NotUp => sem' + 1 <= Cardinality(killed)
        BY <1>k, <1>t, <4>1 DEF TokensOK, Before, NotUp
      <4>4. sem' <= Cardinality(killed)
        BY <1>k, <1>t, <4>1 DEF TokensOK, Before
      <4> QED
        BY <3>1, <4>2, <4>3, <4>4 DEF TokensOK, Before
    <3>2. CASE q # p
      BY <1>0, <3>2 DEF TokensOK, Before, After, TypeOK, LockInv
    <3> QED
      BY <3>1, <3>2
  <2>3. ASSUME NEW q \in Process PROVE QuietOK(q)'
    BY <1>0, <1>k, <1>t DEF TokensInv, TokensOK, QuietOK, NotUp, TypeOK, LifeInv,
                            WithThread, StaticsInv, StaticsOK, HaltInv, HaltOK, Stopped,
                            NotRun, NoThread
  <2> QED
    BY <2>1, <2>2, <2>3 DEF TokensInv
<1>6. ASSUME NEW p \in Process, kthread_stop(p) PROVE TokensInv'
  <2> USE <1>6 DEF kthread_stop
  <2>1. TokensFromKills'
    BY <1>0, <1>k, <1>t DEF TokensInv, TokensFromKills, TokensOK, After, TypeOK, LockInv
  <2>2. ASSUME NEW q \in Process PROVE TokensOK(q)'
    BY <1>0, <1>k, <1>t DEF TokensInv, TokensFromKills, TokensOK, Before, After, NotUp,
                            TypeOK, LockInv, LifeInv, WithThread, WithContext
  <2>3. ASSUME NEW q \in Process PROVE QuietOK(q)'
    BY <1>0, <1>k, <1>t DEF TokensInv, TokensOK, QuietOK, NotUp, TypeOK, LifeInv,
                            WithThread, StaticsInv, StaticsOK, HaltInv, HaltOK, Stopped,
                            NotRun, NoThread
  <2> QED
    BY <2>1, <2>2, <2>3 DEF TokensInv
<1>7. ASSUME NEW p \in Process, JoinThread(p) PROVE TokensInv'
  <2> USE <1>7 DEF JoinThread
  <2>1. TokensFromKills'
    BY <1>0, <1>k, <1>t DEF TokensInv, TokensFromKills, TokensOK, After, TypeOK, LockInv
  <2>2. ASSUME NEW q \in Process PROVE TokensOK(q)'
    BY <1>0, <1>k, <1>t DEF TokensInv, TokensFromKills, TokensOK, Before, After, NotUp,
                            TypeOK, LockInv, LifeInv, WithThread, WithContext
  <2>3. ASSUME NEW q \in Process PROVE QuietOK(q)'
    BY <1>0, <1>k, <1>t DEF TokensInv, TokensOK, QuietOK, NotUp, TypeOK, LifeInv,
                            WithThread, StaticsInv, StaticsOK, HaltInv, HaltOK, Stopped,
                            NotRun, NoThread
  <2> QED
    BY <2>1, <2>2, <2>3 DEF TokensInv
<1>8. ASSUME NEW p \in Process, DeliverResult(p) PROVE TokensInv'
  <2> USE <1>8 DEF DeliverResult
  <2>1. TokensFromKills'
    BY <1>0, <1>k, <1>t DEF TokensInv, TokensFromKills, TokensOK, After, TypeOK, LockInv
  <2>2. ASSUME NEW q \in Process PROVE TokensOK(q)'
    BY <1>0, <1>k, <1>t DEF TokensInv, TokensFromKills, TokensOK, Before, After, NotUp,
                            TypeOK, LockInv, LifeInv, WithThread, WithContext
  <2>3. ASSUME NEW q \in Process PROVE QuietOK(q)'
    BY <1>0, <1>k, <1>t DEF TokensInv, TokensOK, QuietOK, NotUp, TypeOK, LifeInv,
                            WithThread, StaticsInv, StaticsOK, HaltInv, HaltOK, Stopped,
                            NotRun, NoThread
  <2> QED
    BY <2>1, <2>2, <2>3 DEF TokensInv
<1>9. ASSUME NEW p \in Process, cleanup_runtime_ctx(p) PROVE TokensInv'
  <2> USE <1>9 DEF cleanup_runtime_ctx
  <2>1. TokensFromKills'
    BY <1>0, <1>k, <1>t DEF TokensInv, TokensFromKills, TokensOK, After, TypeOK, LockInv
  <2>2. ASSUME NEW q \in Process PROVE TokensOK(q)'
    BY <1>0, <1>k, <1>t DEF TokensInv, TokensFromKills, TokensOK, Before, After, NotUp,
                            TypeOK, LockInv, LifeInv, WithThread, WithContext
  <2>3. ASSUME NEW q \in Process PROVE QuietOK(q)'
    BY <1>0, <1>k, <1>t DEF TokensInv, TokensOK, QuietOK, NotUp, TypeOK, LifeInv,
                            WithThread, StaticsInv, StaticsOK, HaltInv, HaltOK, Stopped,
                            NotRun, NoThread
  <2> QED
    BY <2>1, <2>2, <2>3 DEF TokensInv
<1>10. ASSUME NEW p \in Process, mutex_unlock(p) PROVE TokensInv'
  <2> USE <1>10 DEF mutex_unlock
  <2>1. TokensFromKills'
    BY <1>0, <1>k, <1>t DEF TokensInv, TokensFromKills, TokensOK, After, TypeOK, LockInv
  <2>2. ASSUME NEW q \in Process PROVE TokensOK(q)'
    BY <1>0, <1>k, <1>t DEF TokensInv, TokensFromKills, TokensOK, Before, After, NotUp,
                            TypeOK, LockInv, LifeInv, WithThread, WithContext
  <2>3. ASSUME NEW q \in Process PROVE QuietOK(q)'
    BY <1>0, <1>k, <1>t DEF TokensInv, TokensOK, QuietOK, NotUp, TypeOK, LifeInv,
                            WithThread, StaticsInv, StaticsOK, HaltInv, HaltOK, Stopped,
                            NotRun, NoThread
  <2> QED
    BY <2>1, <2>2, <2>3 DEF TokensInv
<1>11. ASSUME NEW p \in Process, ThreadStart(p) PROVE TokensInv'
  <2> USE <1>11 DEF ThreadStart
  <2>1. TokensFromKills'
    BY <1>0, <1>k, <1>t DEF TokensInv, TokensFromKills, TokensOK, After, TypeOK, LockInv
  <2>2. ASSUME NEW q \in Process PROVE TokensOK(q)'
    BY <1>0, <1>k, <1>t DEF TokensInv, TokensFromKills, TokensOK, Before, After, NotUp,
                            TypeOK, LockInv, LifeInv, WithThread, WithContext
  <2>3. ASSUME NEW q \in Process PROVE QuietOK(q)'
    <3>1. p \in should_stop => killed # {}
      BY SMTT(30), <1>0, <1>k, <1>t DEF TokensInv, TokensOK, LifeInv, NotUp
    <3>2. CASE q = p
      BY <1>0, <3>1, <3>2 DEF TokensInv, QuietOK, TypeOK, LifeInv, WithThread, HaltInv,
                              HaltOK
    <3>3. CASE q # p
      BY <1>0, <3>3 DEF TokensInv, QuietOK, TypeOK
    <3> QED
      BY <3>2, <3>3
  <2> QED
    BY <2>1, <2>2, <2>3 DEF TokensInv
<1>12. ASSUME NEW p \in Process, Cycle(p) PROVE TokensInv'
  <2> USE <1>12 DEF Cycle
  <2>1. TokensFromKills'
    BY <1>0, <1>k, <1>t DEF TokensInv, TokensFromKills, TokensOK, After, TypeOK, LockInv
  <2>2. ASSUME NEW q \in Process PROVE TokensOK(q)'
    BY <1>0, <1>k, <1>t DEF TokensInv, TokensFromKills, TokensOK, Before, After, NotUp,
                            TypeOK, LockInv, LifeInv, WithThread, WithContext
  <2>3. ASSUME NEW q \in Process PROVE QuietOK(q)'
    BY <1>0, <1>k, <1>t DEF TokensInv, TokensOK, QuietOK, NotUp, TypeOK, LifeInv,
                            WithThread, StaticsInv, StaticsOK, HaltInv, HaltOK, Stopped,
                            NotRun, NoThread
  <2> QED
    BY <2>1, <2>2, <2>3 DEF TokensInv
<1>13. ASSUME NEW p \in Process, BehindLoop(p) PROVE TokensInv'
  <2> USE <1>13 DEF BehindLoop
  <2>1. TokensFromKills'
    BY <1>0, <1>k, <1>t DEF TokensInv, TokensFromKills, TokensOK, After, TypeOK, LockInv
  <2>2. ASSUME NEW q \in Process PROVE TokensOK(q)'
    BY <1>0, <1>k, <1>t DEF TokensInv, TokensFromKills, TokensOK, Before, After, NotUp,
                            TypeOK, LockInv, LifeInv, WithThread, WithContext
  <2>3. ASSUME NEW q \in Process PROVE QuietOK(q)'
    <3>1. p \in should_stop => killed # {}
      <4>1. TokensOK(p)
        BY DEF TokensInv
      <4>2. p \in should_stop => sem + 1 <= Cardinality(killed)
        BY <1>0, <4>1 DEF TokensOK, LifeInv, NotUp
      <4> QED
        BY <1>k, <1>t, <4>2
    <3>2. CASE q = p
      BY <1>0, <3>1, <3>2 DEF TokensInv, QuietOK, TypeOK, LifeInv, WithThread, HaltInv,
                              HaltOK
    <3>3. CASE q # p
      BY <1>0, <3>3 DEF TokensInv, QuietOK, TypeOK
    <3> QED
      BY <3>2, <3>3
  <2> QED
    BY <2>1, <2>2, <2>3 DEF TokensInv
<1>14. ASSUME NEW p \in Process, up(p) PROVE TokensInv'
  <2> USE <1>14 DEF up
  <2>1. TokensFromKills'
    BY <1>0 DEF TokensFromKills, TypeOK, LockInv, LifeInv, WithThread
  <2>2. ASSUME NEW q \in Process PROVE TokensOK(q)'
    BY <1>0, <1>k, <1>t DEF TokensInv, TokensFromKills, TokensOK, Before, After, NotUp,
                            TypeOK, LockInv, LifeInv, WithThread, WithContext
  <2>3. ASSUME NEW q \in Process PROVE QuietOK(q)'
    <3>1. CASE q = p
      <4>1. <<p, exit[p]>> \in halted
        BY <1>0 DEF HaltInv, HaltOK
      <4>2. exit[p] \in ExitCodes
        BY <1>0, <4>1 DEF TypeOK
      <4> QED
        <5>0. UNCHANGED <<ppc, exit>>
          OBVIOUS
        <5>1. exit'[p] >= 0
          <6>1. exit[p] \in 0 .. 8
            BY <4>2
          <6> QED
            BY <5>0, <6>1
        <5>2. ppc'[p] # "cleanup"
          BY <1>0, <5>0 DEF LifeInv, WithThread
        <5> QED
          BY <1>t, <3>1, <5>0, <5>1, <5>2 DEF QuietOK
    <3>2. CASE q # p
      BY <1>0, <3>2 DEF TokensInv, QuietOK, TypeOK
    <3> QED
      BY <3>1, <3>2
  <2> QED
    BY <2>1, <2>2, <2>3 DEF TokensInv
<1>15. ASSUME NEW p \in Process, ThreadExit(p) PROVE TokensInv'
  <2> USE <1>15 DEF ThreadExit
  <2>1. TokensFromKills'
    BY <1>0, <1>k, <1>t DEF TokensInv, TokensFromKills, TokensOK, After, TypeOK, LockInv
  <2>2. ASSUME NEW q \in Process PROVE TokensOK(q)'
    BY <1>0, <1>k, <1>t DEF TokensInv, TokensFromKills, TokensOK, Before, After, NotUp,
                            TypeOK, LockInv, LifeInv, WithThread, WithContext
  <2>3. ASSUME NEW q \in Process PROVE QuietOK(q)'
    BY <1>0, <1>k, <1>t DEF TokensInv, TokensOK, QuietOK, NotUp, TypeOK, LifeInv,
                            WithThread, StaticsInv, StaticsOK, HaltInv, HaltOK, Stopped,
                            NotRun, NoThread
  <2> QED
    BY <2>1, <2>2, <2>3 DEF TokensInv
<1>16. CASE UNCHANGED vars
  BY <1>16 DEF vars, TokensInv, TokensFromKills, TokensOK, QuietOK, Before
<1> QED
  BY <1>1, <1>2, <1>3, <1>4, <1>5, <1>6, <1>7, <1>8, <1>9, <1>10, <1>11,
     <1>12, <1>13, <1>14, <1>15, <1>16 DEF Next, SystemCall, Thread

(* The count of interpreter_finish_lock follows the kills, for any number  *)
(* of processes and of executions.                                         *)
THEOREM TokensInductive == Spec => []TokensInv
<1>1. Init => TokensInv
  <2> SUFFICES ASSUME Init PROVE TokensInv
    OBVIOUS
  <2>1. sem = 0 /\ Cardinality(killed) = 0
    BY FS_EmptySet DEF Init
  <2> QED
    BY <2>1 DEF Init, TokensInv, TokensFromKills, TokensOK, QuietOK, Before, After
<1>2. IndInv /\ TokensInv /\ [Next]_vars => TokensInv'
  BY NextTokens
<1> QED
  BY <1>1, <1>2, Inductive, PTL DEF Spec

(* Between two executions interpreter_finish_lock has at most one token    *)
(* for every process that got a fatal signal.                              *)
THEOREM TokensBounded == Spec => []TokensFromKills
<1>1. TokensInv => TokensFromKills
  BY DEF TokensInv
<1> QED
  BY <1>1, TokensInductive, PTL

(* Without fatal signals start_interpreter_thread never stops a program    *)
(* before it halts.                                                        *)
THEOREM QuietComplete == Spec => []QuietRunsComplete
<1>1. TokensInv => QuietRunsComplete
  BY DEF TokensInv, QuietOK, QuietRunsComplete
<1> QED
  BY <1>1, TokensInductive, PTL
=============================================================================
