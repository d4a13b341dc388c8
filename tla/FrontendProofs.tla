--------------------------- MODULE FrontendProofs ---------------------------
(***************************************************************************)
(* Proofs about Frontend, for any number of processes, command lines and   *)
(* inputs and any sizes of the buffers.                                    *)
(***************************************************************************)
EXTENDS Frontend, SequenceTheorems, WellFoundedInduction, TLAPS

-----------------------------------------------------------------------------
(* The life of the kernel module.                                          *)

\* What exists at each point of bispe_init and bispe_exit.  A module that
\* stays although the features are missing has nothing.
LifeInv ==
  /\ module \in {"out", "features"} => ~locks /\ ~kobj /\ ~group
  /\ module = "locks" => locks /\ ~kobj /\ ~group
  /\ module = "kobject" => locks /\ kobj /\ ~group
  /\ module = "in" => (locks <=> group) /\ (kobj <=> group)
  /\ module = "exit" => ~group /\ (locks <=> kobj)

\* A system call on the file invoke began when there were files, and rmmod
\* waits for it.
HandlerInv ==
  \A p \in Proc : pc[p] \in InHandler =>
    \/ module = "in" /\ group
    \/ module = "exit" /\ locks

ModuleInv ==
  /\ pc \in [Proc -> Labels]
  /\ module \in {"out", "features", "locks", "kobject", "in", "exit"}
  /\ locks \in BOOLEAN /\ kobj \in BOOLEAN /\ group \in BOOLEAN
  /\ LifeInv
  /\ HandlerInv

\* Steps of the module, and of a process into, in and out of a handler.
LEMMA NextModule == ModuleInv /\ [Next]_vars => ModuleInv'
<1> SUFFICES ASSUME ModuleInv, [Next]_vars PROVE ModuleInv'
  OBVIOUS
<1> USE DEF ModuleInv, LifeInv, HandlerInv, Labels, InHandler, procvars, kernelvars
<1>1. CASE Insmod
  BY <1>1 DEF Insmod
<1>2. CASE InitLocks
  BY <1>2 DEF InitLocks
<1>3. CASE CreateKobject
  <2>1. UNCHANGED <<pc, group>> /\ ~group /\ \A p \in Proc : pc[p] \notin InHandler
    BY <1>3 DEF CreateKobject
  <2>2. CASE module' = "kobject" /\ kobj' = TRUE /\ UNCHANGED locks
    BY <1>3, <2>1, <2>2 DEF CreateKobject
  <2>3. CASE LoadFails /\ UNCHANGED kobj
    <3>1. module' = "out" /\ locks' = FALSE
      BY <2>3 DEF LoadFails
    <3>2. kobj' = FALSE
      BY <1>3, <2>3 DEF CreateKobject
    <3> QED
      BY <2>1, <3>1, <3>2
  <2> QED
    BY <1>3, <2>2, <2>3 DEF CreateKobject
<1>4. CASE CreateGroup
  <2>1. UNCHANGED pc /\ ~group /\ \A p \in Proc : pc[p] \notin InHandler
    BY <1>4 DEF CreateGroup
  <2>2. CASE module' = "in" /\ group' = TRUE /\ UNCHANGED <<locks, kobj>>
    BY <1>4, <2>1, <2>2 DEF CreateGroup
  <2>3. CASE LoadFails /\ kobj' = FALSE /\ UNCHANGED group
    BY <1>4, <2>1, <2>3 DEF CreateGroup, LoadFails
  <2> QED
    BY <1>4, <2>2, <2>3 DEF CreateGroup
<1>5. CASE Rmmod
  BY <1>5 DEF Rmmod
<1>6. CASE ExitSysfs
  BY <1>6 DEF ExitSysfs
<1> USE DEF Set, GoTo, Exit, Return
<1>7. ASSUME NEW p \in Proc, ParseOptions(p) PROVE ModuleInv'
  BY <1>7 DEF ParseOptions
<1>8. ASSUME NEW p \in Proc, ReadAnswer(p) PROVE ModuleInv'
  BY <1>8 DEF ReadAnswer
<1>9. ASSUME NEW p \in Proc, read_password(p) PROVE ModuleInv'
  BY <1>9 DEF read_password
<1>10. ASSUME NEW p \in Proc, SendPassword(p) PROVE ModuleInv'
  BY <1>10 DEF SendPassword
<1>11. ASSUME NEW p \in Proc, OpenFile(p) PROVE ModuleInv'
  BY <1>11 DEF OpenFile
<1>12. ASSUME NEW p \in Proc, WriteInvoke(p) PROVE ModuleInv'
  BY <1>12 DEF WriteInvoke
<1>13. ASSUME NEW p \in Proc, InitInterpreter(p) PROVE ModuleInv'
  BY <1>13 DEF InitInterpreter
<1>14. ASSUME NEW p \in Proc, NextCycle(p) PROVE ModuleInv'
  BY <1>14 DEF NextCycle
<1>15. ASSUME NEW p \in Proc, ReturnResult(p) PROVE ModuleInv'
  BY <1>15 DEF ReturnResult
<1>16. ASSUME NEW p \in Proc, Report(p) PROVE ModuleInv'
  BY <1>16 DEF Report
<1>17. ASSUME NEW p \in Proc, Kill(p) PROVE ModuleInv'
  BY <1>17 DEF Kill
<1>18. CASE UNCHANGED vars
  BY <1>18 DEF vars
<1> QED
  BY <1>1, <1>2, <1>3, <1>4, <1>5, <1>6, <1>7, <1>8, <1>9, <1>10, <1>11, <1>12,
     <1>13, <1>14, <1>15, <1>16, <1>17, <1>18 DEF Next, Kernel, Process

\* The locks, the kobject and its files exist together where they should.
THEOREM ModuleInductive == Spec => []ModuleInv
<1>1. Init => ModuleInv
  BY ZenonT(30) DEF Init, ModuleInv, LifeInv, HandlerInv, Labels, InHandler
<1>2. ModuleInv /\ [Next]_vars => ModuleInv'
  BY NextModule
<1> QED
  BY <1>1, <1>2, PTL DEF Spec

\* No handler of a sysfs file runs without its module and its locks.
THEOREM Ready == Spec => []HandlersReady
<1>1. ModuleInv => HandlersReady
  BY DEF ModuleInv, LifeInv, HandlerInv, HandlersReady
<1> QED
  BY <1>1, ModuleInductive, PTL

\* However bispe_init fails, and after bispe_exit, no kobject is left.
THEOREM NothingLeft == Spec => []KobjectOwned
<1>1. ModuleInv => KobjectOwned
  BY DEF ModuleInv, LifeInv, KobjectOwned
<1> QED
  BY <1>1, ModuleInductive, PTL

\* Files and module go together, for any number of processes.
THEOREM Sound == Spec => []ModuleSound
  BY Ready, NothingLeft, PTL DEF ModuleSound

-----------------------------------------------------------------------------
(* Types.                                                                  *)

\* The first of some positions exists.
LEMMA FirstIn ==
  ASSUME NEW S, S \subseteq Nat, S # {}
  PROVE  First(S) \in S /\ \A m \in S : First(S) <= m
<1> DEFINE R == OpToRel(<, Nat)
<1>1. \E x \in S : \A y \in S : <<y, x>> \notin R
  <2>1. IsWellFoundedOn(R, Nat)
    BY NatLessThanWellFounded
  <2> HIDE DEF R
  <2> QED
    BY <2>1, WFMin
<1>2. \A x, y \in S : <<y, x>> \notin R => x <= y
  BY DEF OpToRel
<1>3. \E x \in S : \A y \in S : x <= y
  <2> HIDE DEF R
  <2> QED
    BY <1>1, <1>2
<1> QED
  BY <1>3 DEF First

\* Neither the bytes of a ring nor its words are a fraction of a word.
LEMMA WholeWords ==
  ASSUME NEW n \in Nat, (4 * n) % SizeMod > 0
  PROVE  /\ ((4 * n) % SizeMod) \div 4 >= 1
         /\ 4 * (((4 * n) % SizeMod) \div 4) = (4 * n) % SizeMod
<1> DEFINE q == (4 * n) \div SizeMod
           r == (4 * n) % SizeMod
           t == SizeMod \div 4
<1>1. SizeMod = 4 * t /\ t \in Int
  BY FrontendAssumption
<1>2. q \in Int /\ r \in Int /\ 4 * n = q * SizeMod + r
  BY FrontendAssumption
<1> HIDE DEF q, r, t
<1>3. q * SizeMod = 4 * (q * t)
  BY <1>1, <1>2
<1>4. r = 4 * (n - q * t)
  BY <1>1, <1>2, <1>3
<1>5. r > 0
  BY DEF r
<1>6. q * t \in Int
  BY <1>1, <1>2
<1>7. n - q * t >= 1
  BY <1>4, <1>5, <1>6
<1>8. r \div 4 >= 1 /\ 4 * (r \div 4) = r
  BY <1>2, <1>4, <1>6, <1>7
<1> QED
  BY <1>8 DEF r

\* What the assumption says of the job of a process.
LEMMA JobOK ==
  ASSUME TypeOK, NEW p \in Proc
  PROVE  /\ job[p].args \in Seq(Int) /\ job[p].print_size \in Nat
         /\ job[p].garbage \in [1 .. PwSize -> Char]
         /\ job[p].answer \in Seq(Char \ {"\n"})
         /\ job[p].typed \in Seq(Char \ {"\n"})
  BY FrontendAssumption DEF TypeOK

\* What is copied to print_buf fits into it.
LEMMA DeliveredOK ==
  ASSUME TypeOK, NEW p \in Proc, NEW words \in Words
  PROVE  /\ Delivered(p, words) \in Words
         /\ Len(Delivered(p, words)) \in Nat
         /\ 4 * Len(Delivered(p, words)) \in 0 .. SizeMod - 1
         /\ 4 * Len(words) < PrintBytes(p) => Delivered(p, words) = words
<1> DEFINE b == PrintBytes(p)
           ring == (IF b > 0 THEN b ELSE DEFAULT_PRINT_SIZE) \div 4
           n == Len(words) % ring
<1>1. b \in 0 .. SizeMod - 1
  BY JobOK, FrontendAssumption DEF PrintBytes
<1>2. CASE b > 0
  <2>1. ring \in Nat /\ ring >= 1 /\ 4 * ring = b
    <3>1. b \div 4 >= 1 /\ 4 * (b \div 4) = b
      BY <1>2, JobOK, WholeWords DEF PrintBytes
    <3>2. b \div 4 \in Nat
      BY <1>1
    <3>3. ring = b \div 4
      BY <1>2
    <3> QED
      BY <3>1, <3>2, <3>3
  <2>2. Len(words) \in Nat
    BY LenProperties DEF Words
  <2>3. n \in Nat /\ n < ring /\ n <= Len(words) /\ (Len(words) < ring => n = Len(words))
    <3> HIDE DEF ring
    <3> QED
      BY <2>1, <2>2
  <2>4. Delivered(p, words) = SubSeq(words, Len(words) - n + 1, Len(words))
    BY <1>2 DEF Delivered
  <2> HIDE DEF n, ring, b
  <2>5. \A k \in Len(words) - n + 1 .. Len(words) : words[k] \in 0 .. WordMod - 1
    <3>1. Len(words) - n + 1 >= 1
      BY <2>2, <2>3
    <3>2. \A k \in 1 .. Len(words) : words[k] \in 0 .. WordMod - 1
      BY ElementOfSeq DEF Words
    <3> QED
      BY <2>2, <2>3, <3>1, <3>2
  <2>6. /\ Delivered(p, words) \in Words
        /\ Len(Delivered(p, words)) = n
    <3>1. Len(words) - n + 1 \in Int
      BY <2>2, <2>3
    <3>2. /\ Delivered(p, words) \in Seq(0 .. WordMod - 1)
          /\ Len(Delivered(p, words)) =
               IF Len(words) - n + 1 <= Len(words)
               THEN Len(words) - (Len(words) - n + 1) + 1 ELSE 0
      BY <2>2, <2>4, <2>5, <3>1, SubSeqProperties
    <3> QED
      BY <2>2, <2>3, <3>2 DEF Words
  <2>7. 4 * n \in 0 .. SizeMod - 1
    <3>1. 4 * n < b
      BY <2>1, <2>3
    <3> QED
      BY <1>1, <2>3, <3>1, FrontendAssumption
  <2>8. ASSUME 4 * Len(words) < b PROVE Delivered(p, words) = words
    <3>1. Len(words) < ring
      BY <2>1, <2>2, <2>8
    <3>2. Delivered(p, words) = SubSeq(words, 1, Len(words))
      BY <2>2, <2>3, <2>4, <3>1
    <3> QED
      BY <3>2, SubSeqFull DEF Words
  <2> QED
    BY <2>3, <2>6, <2>7, <2>8 DEF b
<1>3. CASE ~(b > 0)
  <2>1. Delivered(p, words) = << >>
    BY <1>3 DEF Delivered
  <2>2. Len(words) \in Nat
    BY LenProperties DEF Words
  <2>3. Len(<< >>) = 0 /\ << >> \in Words
    BY EmptySeq DEF Words
  <2> QED
    BY <1>1, <1>3, <2>1, <2>2, <2>3, FrontendAssumption
<1> QED
  BY <1>2, <1>3

\* What read_password stores is part of what it was given.
LEMMA TypedOK ==
  ASSUME NEW s \in Seq(Char)
  PROVE  Typed(s) \in Seq(Char)
<1> DEFINE ends == {k \in DOMAIN s : s[k] \in {"\n", Eof}} \cup {Len(s) + 1}
<1>1. Len(s) \in Nat /\ DOMAIN s = 1 .. Len(s)
  BY LenProperties
<1>2. First(ends) \in ends
  BY <1>1, FirstIn
<1>3. First(ends) - 1 \in 0 .. Len(s)
  BY <1>1, <1>2
<1>4. \A k \in 1 .. First(ends) - 1 : s[k] \in Char
  BY <1>1, <1>3, ElementOfSeq
<1> QED
  BY <1>3, <1>4, SubSeqProperties DEF Typed

\* It never writes behind the end of the buffer.
LEMMA FilledOK ==
  ASSUME NEW buf \in [1 .. PwSize -> Char], NEW s \in Seq(Char)
  PROVE  Filled(buf, s) \in [1 .. PwSize -> Char]
<1>1. Len(s) \in Nat /\ \A k \in 1 .. Len(s) : s[k] \in Char
  BY LenProperties, ElementOfSeq
<1> QED
  BY <1>1, FrontendAssumption DEF Filled

\* password_store hashes a string of at most PwSize - 1 characters.
LEMMA StoreOK ==
  ASSUME NEW buf \in [1 .. PwSize -> Char]
  PROVE  password_store(buf) \in Seq(Char)
<1> DEFINE ends == {k \in 1 .. PwSize - 1 : buf[k] = NUL} \cup {PwSize}
<1>1. First(ends) \in ends
  <2>1. ends \subseteq Nat /\ ends # {}
    BY FrontendAssumption
  <2> HIDE DEF ends
  <2> QED
    BY <2>1, FirstIn
<1>2. First(ends) - 1 \in 0 .. PwSize
  BY <1>1, FrontendAssumption
<1>3. \A k \in 1 .. First(ends) - 1 : buf[k] \in Char
  BY <1>2, FrontendAssumption
<1> HIDE DEF ends
<1>4. SubSeq(buf, 1, First(ends) - 1) \in Seq(Char)
  BY <1>2, <1>3, SubSeqProperties
<1> QED
  BY <1>4 DEF password_store, ends

\* The arguments of a program are words.
LEMMA ArgvOK ==
  ASSUME NEW args \in Seq(Int)
  PROVE  /\ [k \in DOMAIN args |-> args[k] % WordMod] \in Words
         /\ Len([k \in DOMAIN args |-> args[k] % WordMod]) = Len(args)
<1>1. Len(args) \in Nat /\ DOMAIN args = 1 .. Len(args)
      /\ \A k \in 1 .. Len(args) : args[k] \in Int
  BY LenProperties, ElementOfSeq
<1>2. \A k \in 1 .. Len(args) : args[k] % WordMod \in 0 .. WordMod - 1
  BY <1>1, FrontendAssumption
<1> QED
  BY <1>1, <1>2 DEF Words

\* A word as a signed number is a number.
LEMMA PrintedOK ==
  ASSUME NEW words \in Words
  PROVE  Printed(words, 4 * Len(words)) \in Seq(Int)
<1>1. Len(words) \in Nat /\ \A k \in 1 .. Len(words) : words[k] \in 0 .. WordMod - 1
  BY LenProperties, ElementOfSeq DEF Words
<1>2. (4 * Len(words)) \div 4 = Len(words)
  BY <1>1
<1>3. \A k \in 1 .. Len(words) : Signed(words[k]) \in Int
  BY <1>1, FrontendAssumption DEF Signed
<1> QED
  BY <1>1, <1>2, <1>3 DEF Printed

-----------------------------------------------------------------------------
(* What a process knows of its own run.                                    *)

\* A result other than -1 is there if and only if the program came to its
\* end, and only then can the process show one.
RunOK(p) ==
  /\ p \in ran => /\ pc[p] \in {"report", "exit", "killed"}
                  /\ result[p] # -1
                  /\ written[p] = 4 * Len(out[p])
  /\ p \notin ran => result[p] = -1
  /\ shown[p].what = "done" => pc[p] = "exit" /\ p \in ran
  /\ pc[p] = "exit" /\ p \in ran => shown[p].what = "done"

RunInv == \A p \in Proc : RunOK(p)

\* Words and reports of a process that exits without a result.
LEMMA NothingOK ==
  ASSUME NEW what \in Reports
  PROVE  /\ [Nothing EXCEPT !.what = what] \in [what : Reports, words : Seq(Int)]
         /\ [Nothing EXCEPT !.what = what].what = what
  BY EmptySeq DEF Nothing

\* What can go wrong with a program has the types of what can go right.
LEMMA OutcomesOK ==
  ASSUME TypeOK, NEW p \in Proc, NEW o \in Outcomes(p)
  PROVE  o[1] \in 0 .. 1 /\ o[2] \in Words
<1>1. argv[p] \in Words
  BY DEF TypeOK
<1>2. << >> \in Words /\ <<WordMod - 1>> \in Words
  <2>1. WordMod - 1 \in 0 .. WordMod - 1
    BY FrontendAssumption
  <2> QED
    BY <2>1, EmptySeq DEF Words
<1>3. CASE o = <<0, argv[p]>>
  BY <1>1, <1>3
<1>4. CASE o \in {0, 1} \X {<< >>, <<WordMod - 1>>}
  BY <1>2, <1>4
<1> QED
  BY <1>3, <1>4 DEF Outcomes

\* A step of p moves p and nobody else.
Moved(p) ==
  /\ pc' \in [Proc -> Labels]
  /\ shown' \in [Proc -> [what : Reports, words : Seq(Int)]]
  /\ \A q \in Proc \ {p} : pc'[q] = pc[q] /\ shown'[q] = shown[q]

LEMMA ExitMoves ==
  ASSUME TypeOK, NEW p \in Proc, NEW what \in Reports, Exit(p, what)
  PROVE  Moved(p) /\ pc'[p] = "exit" /\ shown'[p].what = what
<1> DEFINE r == [Nothing EXCEPT !.what = what]
<1>1. r \in [what : Reports, words : Seq(Int)] /\ r.what = what
  BY NothingOK
<1>2. pc' = [pc EXCEPT ![p] = "exit"] /\ shown' = [shown EXCEPT ![p] = r]
  BY DEF Exit, Set
<1> HIDE DEF r
<1> QED
  BY <1>1, <1>2 DEF TypeOK, Moved, Labels

LEMMA GoToMoves ==
  ASSUME TypeOK, NEW p \in Proc, NEW l \in Labels, GoTo(p, l)
  PROVE  Moved(p) /\ pc'[p] = l /\ shown' = shown
  BY DEF TypeOK, Moved, GoTo, Set

\* A step of another process does not change what p knows.
LEMMA OthersRun ==
  ASSUME NEW p, NEW q \in Proc \ {p}, RunOK(q), Moved(p),
         result'[q] = result[q], written'[q] = written[q], out'[q] = out[q],
         q \in ran' <=> q \in ran
  PROVE  RunOK(q)'
  BY DEF RunOK, Moved

\* Every step keeps the types and the knowledge of the processes.
LEMMA NextRun == TypeOK /\ RunInv /\ [Next]_vars => (TypeOK /\ RunInv)'
<1> SUFFICES ASSUME TypeOK, RunInv, [Next]_vars PROVE TypeOK' /\ RunInv'
  OBVIOUS
<1> USE DEF procvars, kernelvars
<1>1. CASE Insmod
  BY <1>1 DEF Insmod, TypeOK, RunInv, RunOK
<1>2. CASE InitLocks
  BY <1>2 DEF InitLocks, TypeOK, RunInv, RunOK
<1>3. CASE CreateKobject
  BY <1>3 DEF CreateKobject, LoadFails, TypeOK, RunInv, RunOK
<1>4. CASE CreateGroup
  BY <1>4 DEF CreateGroup, LoadFails, TypeOK, RunInv, RunOK
<1>5. CASE Rmmod
  BY <1>5 DEF Rmmod, TypeOK, RunInv, RunOK
<1>6. CASE ExitSysfs
  BY <1>6 DEF ExitSysfs, TypeOK, RunInv, RunOK
<1>7. ASSUME NEW p \in Proc, ParseOptions(p) PROVE TypeOK' /\ RunInv'
  <2>f. UNCHANGED <<job, stdin, echo, pw, result, out, written, module, locks, kobj,
                  group, lock, key, setter, seen, ran>>
    BY <1>7 DEF ParseOptions
  <2>a. argv' \in [Proc -> Words]
    <3>1. [k \in DOMAIN job[p].args |-> job[p].args[k] % WordMod] \in Words
      BY JobOK, ArgvOK
    <3> DEFINE w == [k \in DOMAIN job[p].args |-> job[p].args[k] % WordMod]
    <3>2. argv' = argv \/ argv' = [argv EXCEPT ![p] = w]
      BY <1>7 DEF ParseOptions, Set
    <3> HIDE DEF w
    <3> QED
      BY <3>1, <3>2 DEF TypeOK, w
  <2>m. Moved(p)
    <3>1. Exit(p, "failure") \/ GoTo(p, "answer") \/ GoTo(p, "open")
      BY <1>7 DEF ParseOptions
    <3>2. "failure" \in Reports /\ "answer" \in Labels /\ "open" \in Labels
      BY DEF Reports, Labels
    <3> QED
      BY <3>1, <3>2, ExitMoves, GoToMoves
  <2>1. TypeOK'
    BY <2>f, <2>m, <2>a DEF TypeOK, Moved
  <2>2. RunOK(p)'
    <3>1. RunOK(p) /\ p \notin ran /\ shown[p].what # "done"
      BY <1>7 DEF ParseOptions, RunInv, RunOK
    <3>2. Exit(p, "failure") \/ GoTo(p, "answer") \/ GoTo(p, "open")
      BY <1>7 DEF ParseOptions
    <3>3. "failure" \in Reports /\ "answer" \in Labels /\ "open" \in Labels
      BY DEF Reports, Labels
    <3>4. shown'[p].what # "done"
      BY <3>1, <3>2, <3>3, ExitMoves, GoToMoves
    <3> QED
      BY <2>f, <2>m, <2>a, <3>1, <3>4 DEF RunOK
  <2>3. ASSUME NEW q \in Proc \ {p} PROVE RunOK(q)'
    BY <2>f, <2>m, <2>a, OthersRun DEF RunInv
  <2> QED
    BY <2>1, <2>2, <2>3 DEF RunInv
<1>8. ASSUME NEW p \in Proc, ReadAnswer(p) PROVE TypeOK' /\ RunInv'
  <2>f. UNCHANGED <<job, pw, argv, result, out, written, module, locks, kobj, group, lock,
                  key, setter, seen, ran>>
    BY <1>8 DEF ReadAnswer
  <2>a. stdin' \in [Proc -> Seq(Char)]
    <3> DEFINE n == IF stdin[p][1] = "\n" THEN 1 ELSE 2
               t == SubSeq(stdin[p], n + 1, Len(stdin[p]))
    <3>1. Len(stdin[p]) \in Nat /\ n \in Nat
      BY LenProperties DEF TypeOK
    <3>2. \A k \in n + 1 .. Len(stdin[p]) : stdin[p][k] \in Char
      BY <3>1, ElementOfSeq DEF TypeOK
    <3>3. t \in Seq(Char)
      BY <3>1, <3>2, SubSeqProperties
    <3>4. stdin' = [stdin EXCEPT ![p] = t]
      BY <1>8 DEF ReadAnswer, Set
    <3> HIDE DEF t
    <3> QED
      BY <3>3, <3>4 DEF TypeOK
  <2>b. echo' \in [Proc -> BOOLEAN]
    BY <1>8 DEF ReadAnswer, Set, TypeOK
  <2>m. Moved(p)
    <3>1. Exit(p, "failure") \/ GoTo(p, "password")
      BY <1>8 DEF ReadAnswer
    <3>2. "failure" \in Reports /\ "password" \in Labels
      BY DEF Reports, Labels
    <3> QED
      BY <3>1, <3>2, ExitMoves, GoToMoves
  <2>1. TypeOK'
    BY <2>f, <2>m, <2>a, <2>b DEF TypeOK, Moved
  <2>2. RunOK(p)'
    <3>1. RunOK(p) /\ p \notin ran /\ shown[p].what # "done"
      BY <1>8 DEF ReadAnswer, RunInv, RunOK
    <3>2. Exit(p, "failure") \/ GoTo(p, "password")
      BY <1>8 DEF ReadAnswer
    <3>3. "failure" \in Reports /\ "password" \in Labels
      BY DEF Reports, Labels
    <3>4. shown'[p].what # "done"
      BY <3>1, <3>2, <3>3, ExitMoves, GoToMoves
    <3> QED
      BY <2>f, <2>m, <2>a, <2>b, <3>1, <3>4 DEF RunOK
  <2>3. ASSUME NEW q \in Proc \ {p} PROVE RunOK(q)'
    BY <2>f, <2>m, <2>a, <2>b, OthersRun DEF RunInv
  <2> QED
    BY <2>1, <2>2, <2>3 DEF RunInv
<1>9. ASSUME NEW p \in Proc, read_password(p) PROVE TypeOK' /\ RunInv'
  <2>f. UNCHANGED <<job, stdin, argv, result, out, written, module, locks, kobj, group,
                  lock, key, setter, seen, ran>>
    BY <1>9 DEF read_password
  <2>a. pw' \in [Proc -> [1 .. PwSize -> Char]]
    <3> DEFINE w == IF job[p].stdin_fails THEN Zeros ELSE Filled(pw[p], Typed(stdin[p]))
    <3>1. Typed(stdin[p]) \in Seq(Char)
      BY TypedOK DEF TypeOK
    <3>2. Filled(pw[p], Typed(stdin[p])) \in [1 .. PwSize -> Char]
      BY <3>1, FilledOK DEF TypeOK
    <3>3. w \in [1 .. PwSize -> Char]
      BY <3>2, FrontendAssumption DEF Zeros
    <3>4. pw' = [pw EXCEPT ![p] = w]
      BY <1>9 DEF read_password, Set
    <3> HIDE DEF w
    <3> QED
      BY <3>3, <3>4 DEF TypeOK
  <2>b. echo' \in [Proc -> BOOLEAN]
    BY <1>9 DEF read_password, Set, TypeOK
  <2>m. Moved(p)
    <3>1. GoTo(p, "send") /\ "send" \in Labels
      BY <1>9 DEF read_password, Labels
    <3> QED
      BY <3>1, GoToMoves
  <2>1. TypeOK'
    BY <2>f, <2>m, <2>a, <2>b DEF TypeOK, Moved
  <2>2. RunOK(p)'
    <3>1. RunOK(p) /\ p \notin ran /\ shown[p].what # "done"
      BY <1>9 DEF read_password, RunInv, RunOK
    <3>2. GoTo(p, "send")
      BY <1>9 DEF read_password, Return
    <3>3. "send" \in Labels
      BY DEF Labels, InHandler
    <3>4. shown' = shown /\ pc'[p] \in {"send"}
      BY <3>2, <3>3, GoToMoves
    <3> QED
      BY <2>f, <2>m, <2>a, <2>b, <3>1, <3>4 DEF RunOK
  <2>3. ASSUME NEW q \in Proc \ {p} PROVE RunOK(q)'
    BY <2>f, <2>m, <2>a, <2>b, OthersRun DEF RunInv
  <2> QED
    BY <2>1, <2>2, <2>3 DEF RunInv
<1>10. ASSUME NEW p \in Proc, SendPassword(p) PROVE TypeOK' /\ RunInv'
  <2>f. UNCHANGED <<job, stdin, echo, argv, result, out, written, module, locks, kobj,
                  group, lock, seen, ran>>
    BY <1>10 DEF SendPassword
  <2>a. pw' \in [Proc -> [1 .. PwSize -> Char]]
    <3>1. Zeros \in [1 .. PwSize -> Char]
      BY FrontendAssumption DEF Zeros
    <3>2. pw' = [pw EXCEPT ![p] = Zeros]
      BY <1>10 DEF SendPassword, Erase, Set
    <3> QED
      BY <3>1, <3>2 DEF TypeOK
  <2>b. key' \in {NoKey} \cup Seq(Char) /\ setter' \in Proc \cup {Nobody}
    <3>1. password_store(pw[p]) \in Seq(Char)
      BY StoreOK DEF TypeOK
    <3>2. \/ key' = password_store(pw[p]) /\ setter' = p
          \/ key' = key /\ setter' = setter
      BY <1>10 DEF SendPassword
    <3> QED
      BY <3>1, <3>2 DEF TypeOK
  <2>m. Moved(p)
    <3>1. Exit(p, "failure") \/ Exit(p, "success") \/ GoTo(p, "open")
      BY <1>10 DEF SendPassword
    <3>2. "failure" \in Reports /\ "success" \in Reports /\ "open" \in Labels
      BY DEF Reports, Labels
    <3> QED
      BY <3>1, <3>2, ExitMoves, GoToMoves
  <2>1. TypeOK'
    BY <2>f, <2>m, <2>a, <2>b DEF TypeOK, Moved
  <2>2. RunOK(p)'
    <3>1. RunOK(p) /\ p \notin ran /\ shown[p].what # "done"
      BY <1>10 DEF SendPassword, RunInv, RunOK
    <3>2. Exit(p, "failure") \/ Exit(p, "success") \/ GoTo(p, "open")
      BY <1>10 DEF SendPassword
    <3>3. "failure" \in Reports /\ "success" \in Reports /\ "open" \in Labels
      BY DEF Reports, Labels
    <3>4. shown'[p].what # "done"
      BY <3>1, <3>2, <3>3, ExitMoves, GoToMoves
    <3> QED
      BY <2>f, <2>m, <2>a, <2>b, <3>1, <3>4 DEF RunOK
  <2>3. ASSUME NEW q \in Proc \ {p} PROVE RunOK(q)'
    BY <2>f, <2>m, <2>a, <2>b, OthersRun DEF RunInv
  <2> QED
    BY <2>1, <2>2, <2>3 DEF RunInv
<1>11. ASSUME NEW p \in Proc, OpenFile(p) PROVE TypeOK' /\ RunInv'
  <2>f. UNCHANGED <<job, stdin, echo, pw, argv, out, written, module, locks, kobj, group,
                  lock, key, setter, seen, ran>>
    BY <1>11 DEF OpenFile
  <2>a. result' \in [Proc -> -1 .. 8] /\ result'[p] = -1
        /\ \A q \in Proc \ {p} : result'[q] = result[q]
    <3>1. result[p] = -1
      BY <1>11 DEF OpenFile, RunInv, RunOK
    <3>2. result' = result \/ result' = [result EXCEPT ![p] = -1]
      BY <1>11 DEF OpenFile, NoResult, Set
    <3> QED
      BY <3>1, <3>2 DEF TypeOK
  <2>m. Moved(p)
    <3>1. Exit(p, "failure") \/ GoTo(p, "invoke")
      BY <1>11 DEF OpenFile
    <3>2. "failure" \in Reports /\ "invoke" \in Labels
      BY DEF Reports, Labels
    <3> QED
      BY <3>1, <3>2, ExitMoves, GoToMoves
  <2>1. TypeOK'
    BY <2>f, <2>m, <2>a DEF TypeOK, Moved
  <2>2. RunOK(p)'
    <3>1. RunOK(p) /\ p \notin ran /\ shown[p].what # "done"
      BY <1>11 DEF OpenFile, RunInv, RunOK
    <3>2. Exit(p, "failure") \/ GoTo(p, "invoke")
      BY <1>11 DEF OpenFile
    <3>3. "failure" \in Reports /\ "invoke" \in Labels
      BY DEF Reports, Labels
    <3>4. shown'[p].what # "done"
      BY <3>1, <3>2, <3>3, ExitMoves, GoToMoves
    <3> QED
      BY <2>f, <2>m, <2>a, <3>1, <3>4 DEF RunOK
  <2>3. ASSUME NEW q \in Proc \ {p} PROVE RunOK(q)'
    BY <2>f, <2>m, <2>a, OthersRun DEF RunInv
  <2> QED
    BY <2>1, <2>2, <2>3 DEF RunInv
<1>12. ASSUME NEW p \in Proc, WriteInvoke(p) PROVE TypeOK' /\ RunInv'
  <2>f. UNCHANGED <<job, stdin, echo, pw, argv, result, out, module, locks, kobj, group,
                  key, setter, seen, ran>>
    BY <1>12 DEF WriteInvoke
  <2>a. written' \in [Proc -> -1 .. SizeMod - 1]
        /\ \A q \in Proc \ {p} : written'[q] = written[q]
    <3>1. \/ written' = [written EXCEPT ![p] = -1]
          \/ written' = [written EXCEPT ![p] = 0]
          \/ written' = written
      BY <1>12 DEF WriteInvoke, Return, Set
    <3>2. -1 \in -1 .. SizeMod - 1 /\ 0 \in -1 .. SizeMod - 1
      BY FrontendAssumption
    <3> QED
      BY SMTT(30), <3>1, <3>2 DEF TypeOK
  <2>b. lock' \in Proc \cup {Nobody}
    BY <1>12 DEF WriteInvoke, TypeOK
  <2>m. Moved(p)
    <3>1. GoTo(p, "report") \/ GoTo(p, "init")
      BY <1>12 DEF WriteInvoke, Return
    <3>2. "report" \in Labels /\ "init" \in Labels
      BY DEF Labels, InHandler
    <3> QED
      BY <3>1, <3>2, GoToMoves
  <2>1. TypeOK'
    BY <2>f, <2>m, <2>a, <2>b DEF TypeOK, Moved
  <2>2. RunOK(p)'
    <3>1. RunOK(p) /\ p \notin ran /\ shown[p].what # "done"
      BY <1>12 DEF WriteInvoke, RunInv, RunOK
    <3>2. GoTo(p, "report") \/ GoTo(p, "init")
      BY <1>12 DEF WriteInvoke, Return
    <3>3. "report" \in Labels /\ "init" \in Labels
      BY DEF Labels, InHandler
    <3>4. shown' = shown /\ pc'[p] \in {"report", "init"}
      BY <3>2, <3>3, GoToMoves
    <3> QED
      BY <2>f, <2>m, <2>a, <2>b, <3>1, <3>4 DEF RunOK
  <2>3. ASSUME NEW q \in Proc \ {p} PROVE RunOK(q)'
    BY <2>f, <2>m, <2>a, <2>b, OthersRun DEF RunInv
  <2> QED
    BY <2>1, <2>2, <2>3 DEF RunInv
<1>13. ASSUME NEW p \in Proc, InitInterpreter(p) PROVE TypeOK' /\ RunInv'
  <2>f. UNCHANGED <<job, stdin, echo, pw, argv, result, out, module, locks, kobj, group,
                  key, setter, ran>>
    BY <1>13 DEF InitInterpreter
  <2>a. written' \in [Proc -> -1 .. SizeMod - 1]
        /\ \A q \in Proc \ {p} : written'[q] = written[q]
    <3>1. written' = [written EXCEPT ![p] = 0] \/ written' = written
      BY <1>13 DEF InitInterpreter, Return, Set
    <3>2. -1 \in -1 .. SizeMod - 1 /\ 0 \in -1 .. SizeMod - 1
      BY FrontendAssumption
    <3> QED
      BY ZenonT(30), <3>1, <3>2 DEF TypeOK
  <2>b. /\ lock' \in Proc \cup {Nobody}
        /\ seen' \in [Proc -> SUBSET ({NoKey} \cup Seq(Char))]
    <3>1. lock' = Nobody \/ lock' = lock
      BY <1>13 DEF InitInterpreter
    <3>2. seen' = seen \/ seen' = [seen EXCEPT ![p] = {key}]
      BY <1>13 DEF InitInterpreter, Set
    <3>3. {key} \in SUBSET ({NoKey} \cup Seq(Char))
      BY DEF TypeOK
    <3> QED
      BY <3>1, <3>2, <3>3 DEF TypeOK
  <2>m. Moved(p)
    <3>1. GoTo(p, "report") \/ GoTo(p, "run")
      BY <1>13 DEF InitInterpreter, Return
    <3>2. "report" \in Labels /\ "run" \in Labels
      BY DEF Labels, InHandler
    <3> QED
      BY <3>1, <3>2, GoToMoves
  <2>1. TypeOK'
    BY <2>f, <2>m, <2>a, <2>b DEF TypeOK, Moved
  <2>2. RunOK(p)'
    <3>1. RunOK(p) /\ p \notin ran /\ shown[p].what # "done"
      BY <1>13 DEF InitInterpreter, RunInv, RunOK
    <3>2. GoTo(p, "report") \/ GoTo(p, "run")
      BY <1>13 DEF InitInterpreter, Return
    <3>3. "report" \in Labels /\ "run" \in Labels
      BY DEF Labels, InHandler
    <3>4. shown' = shown /\ pc'[p] \in {"report", "run"}
      BY <3>2, <3>3, GoToMoves
    <3> QED
      BY <2>f, <2>m, <2>a, <2>b, <3>1, <3>4 DEF RunOK
  <2>3. ASSUME NEW q \in Proc \ {p} PROVE RunOK(q)'
    BY <2>f, <2>m, <2>a, <2>b, OthersRun DEF RunInv
  <2> QED
    BY <2>1, <2>2, <2>3 DEF RunInv
<1>14. ASSUME NEW p \in Proc, NextCycle(p) PROVE TypeOK' /\ RunInv'
  <2>f. UNCHANGED <<job, stdin, echo, pw, argv, result, out, written, module, locks, kobj,
                  group, lock, key, setter, ran>>
    BY <1>14 DEF NextCycle
  <2>a. seen' \in [Proc -> SUBSET ({NoKey} \cup Seq(Char))]
    BY <1>14 DEF NextCycle, Set, TypeOK
  <2>m. Moved(p)
    <3>1. GoTo(p, "done") /\ "done" \in Labels
      BY <1>14 DEF NextCycle, Labels, InHandler
    <3> QED
      BY <3>1, GoToMoves
  <2>1. TypeOK'
    BY <2>f, <2>m, <2>a DEF TypeOK, Moved
  <2>2. RunOK(p)'
    <3>1. RunOK(p) /\ p \notin ran /\ shown[p].what # "done"
      BY <1>14 DEF NextCycle, RunInv, RunOK
    <3>2. GoTo(p, "done")
      BY <1>14 DEF NextCycle, Return
    <3>3. "done" \in Labels
      BY DEF Labels, InHandler
    <3>4. shown' = shown /\ pc'[p] \in {"done"}
      BY <3>2, <3>3, GoToMoves
    <3> QED
      BY <2>f, <2>m, <2>a, <3>1, <3>4 DEF RunOK
  <2>3. ASSUME NEW q \in Proc \ {p} PROVE RunOK(q)'
    BY <2>f, <2>m, <2>a, OthersRun DEF RunInv
  <2> QED
    BY <2>1, <2>2, <2>3 DEF RunInv
<1>15. ASSUME NEW p \in Proc, ReturnResult(p) PROVE TypeOK' /\ RunInv'
  <2>f. UNCHANGED <<job, stdin, echo, pw, argv, module, locks, kobj, group, key, setter,
                  seen>>
    BY <1>15 DEF ReturnResult
  <2>a. PICK o \in Outcomes(p) :
          /\ out' = [out EXCEPT ![p] = Delivered(p, o[2])]
          /\ written' = [written EXCEPT ![p] = 4 * Len(Delivered(p, o[2]))]
          /\ result' = [result EXCEPT ![p] = o[1]]
          /\ GoTo(p, "report")
    BY <1>15 DEF ReturnResult, Return, Set
  <2>b. o[1] \in 0 .. 1 /\ o[2] \in Words
    BY OutcomesOK
  <2>c. /\ Delivered(p, o[2]) \in Words
        /\ 4 * Len(Delivered(p, o[2])) \in 0 .. SizeMod - 1
    BY <2>b, DeliveredOK
  <2>d. /\ out' \in [Proc -> Words]
        /\ written' \in [Proc -> -1 .. SizeMod - 1]
        /\ result' \in [Proc -> -1 .. 8]
    <3>1. o[1] \in -1 .. 8
      BY <2>b
    <3>2. 4 * Len(Delivered(p, o[2])) \in -1 .. SizeMod - 1
      BY <2>c, FrontendAssumption
    <3>3. out' \in [Proc -> Words]
      BY <2>a, <2>c DEF TypeOK
    <3>4. written' \in [Proc -> -1 .. SizeMod - 1]
      BY <2>a, <3>2 DEF TypeOK
    <3>5. result' \in [Proc -> -1 .. 8]
      BY <2>a, <3>1 DEF TypeOK
    <3> QED
      BY <3>3, <3>4, <3>5
  <2>e. /\ result'[p] # -1 /\ written'[p] = 4 * Len(out'[p])
        /\ \A q \in Proc \ {p} : /\ result'[q] = result[q]
                                  /\ written'[q] = written[q]
                                  /\ out'[q] = out[q]
    BY <2>a, <2>b DEF TypeOK
  <2>g. ran' = ran \cup {p} /\ lock' = Nobody
    BY <1>15 DEF ReturnResult
  <2>m. Moved(p)
    <3>1. "report" \in Labels
      BY DEF Labels
    <3> QED
      BY <2>a, <3>1, GoToMoves
  <2>1. TypeOK'
    BY <2>f, <2>m, <2>d, <2>e, <2>g DEF TypeOK, Moved
  <2>2. RunOK(p)'
    <3>1. RunOK(p) /\ p \notin ran /\ shown[p].what # "done"
      BY <1>15 DEF ReturnResult, RunInv, RunOK
    <3>2. GoTo(p, "report")
      BY <1>15 DEF ReturnResult, Return
    <3>3. "report" \in Labels
      BY DEF Labels, InHandler
    <3>4. shown' = shown /\ pc'[p] \in {"report"}
      BY <3>2, <3>3, GoToMoves
    <3> QED
      BY <2>f, <2>m, <2>d, <2>e, <2>g, <3>1, <3>4 DEF RunOK
  <2>3. ASSUME NEW q \in Proc \ {p} PROVE RunOK(q)'
    BY <2>f, <2>m, <2>d, <2>e, <2>g, OthersRun DEF RunInv
  <2> QED
    BY <2>1, <2>2, <2>3 DEF RunInv
<1>16. ASSUME NEW p \in Proc, Report(p) PROVE TypeOK' /\ RunInv'
  <2>f. UNCHANGED <<job, stdin, echo, pw, argv, result, out, written, module, locks, kobj,
                  group, lock, key, setter, seen, ran>>
    BY <1>16 DEF Report
  <2>m. Moved(p)
    <3>1. CASE written[p] = -1 \/ result[p] = -1
      <4>1. \/ Exit(p, "no backend") /\ "no backend" \in Reports
            \/ Exit(p, "backend error") /\ "backend error" \in Reports
        BY <1>16, <3>1 DEF Report, Reports
      <4> QED
        BY <4>1, ExitMoves
    <3>2. CASE written[p] # -1 /\ result[p] # -1
      <4> DEFINE r == [what |-> "done", words |-> Printed(out[p], written[p])]
      <4>1. pc' = [pc EXCEPT ![p] = "exit"] /\ shown' = [shown EXCEPT ![p] = r]
        BY <1>16, <3>2 DEF Report, Set
      <4>2. written[p] = 4 * Len(out[p]) /\ out[p] \in Words
        BY <3>2 DEF RunInv, RunOK, TypeOK
      <4>3. r \in [what : Reports, words : Seq(Int)]
        BY <4>2, PrintedOK DEF Reports
      <4> HIDE DEF r
      <4> QED
        BY <4>1, <4>3 DEF TypeOK, Moved, Labels
    <3> QED
      BY <3>1, <3>2
  <2>1. TypeOK'
    BY <2>f, <2>m DEF TypeOK, Moved
  <2>2. RunOK(p)'
    <3>1. CASE written[p] = -1 \/ result[p] = -1
      <4>1. \/ Exit(p, "no backend") /\ "no backend" \in Reports
            \/ Exit(p, "backend error") /\ "backend error" \in Reports
        BY <1>16, <3>1 DEF Report, Reports
      <4>2. pc'[p] = "exit" /\ shown'[p].what # "done"
        BY <4>1, ExitMoves
      <4>3. p \notin ran
        <5>1. p \in ran => written[p] = 4 * Len(out[p]) /\ Len(out[p]) \in Nat
          BY LenProperties DEF RunInv, RunOK, TypeOK, Words
        <5> QED
          BY <3>1, <5>1 DEF RunInv, RunOK
      <4> QED
        BY <2>f, <4>2, <4>3 DEF RunInv, RunOK
    <3>2. CASE written[p] # -1 /\ result[p] # -1
      <4>1. pc'[p] = "exit" /\ shown'[p].what = "done"
        BY <1>16, <3>2 DEF Report, Set, TypeOK
      <4> QED
        BY <2>f, <3>2, <4>1 DEF RunInv, RunOK
    <3> QED
      BY <3>1, <3>2
  <2>3. ASSUME NEW q \in Proc \ {p} PROVE RunOK(q)'
    BY <2>f, <2>m, OthersRun DEF RunInv
  <2> QED
    BY <2>1, <2>2, <2>3 DEF RunInv
<1>17. ASSUME NEW p \in Proc, Kill(p) PROVE TypeOK' /\ RunInv'
  <2>f. UNCHANGED <<job, stdin, echo, pw, argv, result, out, written, module, locks, kobj,
                  group, key, setter, seen, ran>>
    BY <1>17 DEF Kill
  <2>a. lock' \in Proc \cup {Nobody}
    BY <1>17 DEF Kill, TypeOK
  <2>m. Moved(p)
    BY <1>17 DEF Kill, Set, TypeOK, Moved, Labels
  <2>1. TypeOK'
    BY <2>f, <2>m, <2>a DEF TypeOK, Moved
  <2>2. RunOK(p)'
    BY <1>17, <2>f DEF Kill, Set, RunInv, RunOK, TypeOK
  <2>3. ASSUME NEW q \in Proc \ {p} PROVE RunOK(q)'
    BY <2>f, <2>m, <2>a, OthersRun DEF RunInv
  <2> QED
    BY <2>1, <2>2, <2>3 DEF RunInv
<1>18. CASE UNCHANGED vars
  BY <1>18 DEF vars, TypeOK, RunInv, RunOK
<1> QED
  BY <1>1, <1>2, <1>3, <1>4, <1>5, <1>6, <1>7, <1>8, <1>9, <1>10, <1>11, <1>12,
     <1>13, <1>14, <1>15, <1>16, <1>17, <1>18 DEF Next, Kernel, Process

\* A line is a sequence of characters.
LEMMA LineOK == ASSUME NEW s \in Seq(Char \ {"\n"})
                PROVE  s \in Seq(Char)
<1>1. Len(s) \in Nat /\ s \in [1 .. Len(s) -> Char \ {"\n"}]
  BY LenProperties
<1>2. s \in [1 .. Len(s) -> Char]
  BY <1>1
<1> QED
  BY <1>1, <1>2

\* Types and knowledge hold from the start.
LEMMA InitRun == Init => TypeOK /\ RunInv
<1> SUFFICES ASSUME Init PROVE TypeOK /\ RunInv
  OBVIOUS
<1>1. \A p \in Proc : /\ job[p] \in JobsOf[p]
                      /\ job[p].garbage \in [1 .. PwSize -> Char]
                      /\ job[p].answer \in Seq(Char) /\ job[p].typed \in Seq(Char)
  BY FrontendAssumption, LineOK DEF Init
<1>2. stdin \in [Proc -> Seq(Char)]
  <2>1. <<"\n">> \in Seq(Char)
    BY FrontendAssumption
  <2>2. \A p \in Proc :
          job[p].answer \o <<"\n">> \o job[p].typed \o <<"\n">> \in Seq(Char)
    BY <1>1, <2>1, ConcatProperties
  <2> QED
    BY <2>2 DEF Init
<1>3. pw \in [Proc -> [1 .. PwSize -> Char]]
  BY <1>1 DEF Init
<1>4. /\ argv \in [Proc -> Words] /\ out \in [Proc -> Words]
      /\ shown \in [Proc -> [what : Reports, words : Seq(Int)]]
      /\ \A p \in Proc : shown[p].what = "none"
  BY EmptySeq DEF Init, Words, Nothing, Reports
<1>5. written \in [Proc -> -1 .. SizeMod - 1]
  <2>1. 0 \in -1 .. SizeMod - 1
    BY FrontendAssumption
  <2> QED
    BY <2>1 DEF Init
<1>6. /\ pc \in [Proc -> Labels] /\ echo \in [Proc -> BOOLEAN]
      /\ result \in [Proc -> -1 .. 8]
      /\ seen \in [Proc -> SUBSET ({NoKey} \cup Seq(Char))]
  BY DEF Init, Labels
<1>7. TypeOK
  BY <1>1, <1>2, <1>3, <1>4, <1>5, <1>6 DEF Init, TypeOK
<1>8. RunInv
  BY <1>4 DEF Init, RunInv, RunOK
<1> QED
  BY <1>7, <1>8

\* Types and knowledge hold in every state.
THEOREM RunInductive == Spec => [](TypeOK /\ RunInv)
<1>1. Init => TypeOK /\ RunInv
  BY InitRun
<1>2. TypeOK /\ RunInv /\ [Next]_vars => (TypeOK /\ RunInv)'
  BY NextRun
<1> QED
  BY <1>1, <1>2, PTL DEF Spec

\* Types are kept: pw keeps its size whatever is typed, every argument and
\* every word that comes back is a word, the bytes that invoke_interpreter
\* says it copied are those of the print buffer.
THEOREM TypeCorrect == Spec => []TypeOK
  BY RunInductive, PTL

\* The frontend shows a result if and only if its program came to its end.
THEOREM Truthful == Spec => []ReportTruthful
<1>1. RunInv => ReportTruthful
  BY DEF RunInv, RunOK, ReportTruthful
<1> QED
  BY <1>1, RunInductive, PTL

-----------------------------------------------------------------------------
(* The password.                                                           *)

\* What password_store hashes of a password, according to KeyFromPassword.
Wanted(j) == SubSeq(j.typed, 1, IF Len(j.typed) < PwSize THEN Len(j.typed) ELSE PwSize - 1)

\* Two sequences of the same length with the same elements.
LEMMA SameSeq ==
  ASSUME NEW S, NEW s \in Seq(S), NEW t \in Seq(S), Len(s) = Len(t),
         \A k \in 1 .. Len(s) : s[k] = t[k]
  PROVE  s = t
<1>1. /\ Len(s) \in Nat /\ s \in [1 .. Len(s) -> S] /\ t \in [1 .. Len(s) -> S]
  BY LenProperties
<1> QED
  BY <1>1

\* read_password stores a clean line as it was typed.
LEMMA TypedLine ==
  ASSUME NEW line \in Seq(Char \ {"\n"}), \A k \in DOMAIN line : line[k] # Eof
  PROVE  Typed(line \o <<"\n">>) = line
<1> DEFINE s == line \o <<"\n">>
           ends == {k \in DOMAIN s : s[k] \in {"\n", Eof}} \cup {Len(s) + 1}
           n == Len(line)
<1>1. line \in Seq(Char) /\ <<"\n">> \in Seq(Char) /\ Len(<<"\n">>) = 1
  BY LineOK, FrontendAssumption
<1>2. /\ n \in Nat /\ DOMAIN line = 1 .. n
      /\ \A k \in 1 .. n : line[k] \in Char \ {"\n"}
  BY LenProperties, ElementOfSeq
<1>3. /\ s \in Seq(Char) /\ Len(s) = n + 1
      /\ \A k \in 1 .. n + 1 : s[k] = IF k <= n THEN line[k] ELSE <<"\n">>[k - n]
  BY <1>1, <1>2, ConcatProperties
<1> HIDE DEF s, n
<1>4. DOMAIN s = 1 .. n + 1
  BY <1>3, LenProperties
<1>5. s[n + 1] = "\n" /\ \A k \in 1 .. n : s[k] \notin {"\n", Eof}
  BY <1>2, <1>3
<1>6. ends \subseteq Nat /\ n + 1 \in ends /\ \A k \in ends : k >= n + 1
  BY <1>2, <1>3, <1>4, <1>5
<1> HIDE DEF ends
<1>7. First(ends) = n + 1
  <2>1. First(ends) \in ends /\ First(ends) <= n + 1
    BY <1>6, FirstIn
  <2>2. First(ends) \in Nat /\ First(ends) >= n + 1
    BY <1>6, <2>1
  <2> QED
    BY <1>2, <2>1, <2>2
<1>8. Typed(s) = SubSeq(s, 1, n)
  <2>1. Typed(s) = SubSeq(s, 1, First(ends) - 1)
    BY DEF Typed, ends
  <2> QED
    BY <1>2, <1>7, <2>1
<1>9. /\ SubSeq(s, 1, n) \in Seq(Char) /\ Len(SubSeq(s, 1, n)) = n
      /\ \A k \in 1 .. n : SubSeq(s, 1, n)[k] = s[k]
  <2>1. \A k \in 1 .. n : s[k] \in Char
    BY <1>2, <1>3
  <2>2. /\ SubSeq(s, 1, n) \in Seq(Char)
        /\ Len(SubSeq(s, 1, n)) = IF 1 <= n THEN n - 1 + 1 ELSE 0
        /\ \A k \in 1 .. n - 1 + 1 : SubSeq(s, 1, n)[k] = s[1 + k - 1]
    BY <1>2, <2>1, SubSeqProperties
  <2> QED
    BY <1>2, <2>2
<1>10. \A k \in 1 .. n : SubSeq(s, 1, n)[k] = line[k]
  BY <1>2, <1>3, <1>9
<1>11. SubSeq(s, 1, n) = line
  BY <1>1, <1>9, <1>10, SameSeq DEF n
<1> QED
  BY <1>8, <1>11 DEF s

\* What password_store finds in the buffer of a clean input.
LEMMA StoredLine ==
  ASSUME NEW j, CleanInput(j), j.typed \in Seq(Char \ {"\n"}),
         j.garbage \in [1 .. PwSize -> Char]
  PROVE  password_store(Filled(j.garbage, j.typed)) = Wanted(j)
<1> DEFINE line == j.typed
           n == Len(line)
           buf == Filled(j.garbage, line)
           ends == {k \in 1 .. PwSize - 1 : buf[k] = NUL} \cup {PwSize}
           m == IF n < PwSize THEN n ELSE PwSize - 1
<1>0. PwSize \in Nat /\ PwSize >= 1
  BY FrontendAssumption
<1>1. line \in Seq(Char)
  BY LineOK
<1>2. /\ n \in Nat /\ DOMAIN line = 1 .. n /\ \A k \in 1 .. n : line[k] \in Char
  BY <1>1, LenProperties, ElementOfSeq
<1>3. \A k \in 1 .. n : line[k] # NUL
  BY <1>2 DEF CleanInput
<1>4. \A k \in 1 .. PwSize : buf[k] = IF k <= n THEN line[k] ELSE j.garbage[k]
  BY DEF Filled
<1>5. n >= PwSize - 1 \/ j.garbage[n + 1] = NUL
  BY DEF CleanInput
<1> HIDE DEF line, buf
<1>6. m \in 0 .. PwSize - 1 /\ m <= n
  BY <1>0, <1>2
<1>7. ends \subseteq Nat /\ m + 1 \in ends /\ \A k \in ends : k >= m + 1
  <2>1. ends \subseteq Nat
    BY <1>0
  <2>2. \A k \in 1 .. m : k \notin ends
    BY <1>0, <1>2, <1>3, <1>4, <1>6
  <2>3. m + 1 \in ends
    <3>1. CASE n >= PwSize - 1
      BY <1>0, <1>2, <3>1
    <3>2. CASE n < PwSize - 1
      BY <1>0, <1>2, <1>4, <1>5, <3>2
    <3> QED
      BY <1>0, <1>2, <3>1, <3>2
  <2>4. 0 \notin ends
    BY <1>0
  <2> QED
    BY <1>6, <2>1, <2>2, <2>3, <2>4
<1> HIDE DEF ends, m
<1>8. First(ends) = m + 1
  <2>1. First(ends) \in ends /\ First(ends) <= m + 1
    BY <1>7, FirstIn
  <2>2. First(ends) \in Nat /\ First(ends) >= m + 1
    BY <1>7, <2>1
  <2>3. m \in Int
    BY <1>6
  <2> QED
    BY <2>1, <2>2, <2>3
<1>9. password_store(buf) = SubSeq(buf, 1, m)
  <2>1. password_store(buf) = SubSeq(buf, 1, First(ends) - 1)
    BY DEF password_store, ends
  <2> QED
    BY <1>6, <1>8, <2>1
<1>10. \A k \in 1 .. m : buf[k] = line[k] /\ line[k] \in Char
  BY <1>0, <1>2, <1>4, <1>6
<1>11. SubSeq(buf, 1, m) = SubSeq(line, 1, m)
  <2>1. \A k \in 1 .. m : buf[k] \in Char /\ line[k] \in Char
    BY <1>10
  <2>2. m \in Int /\ 1 \in Int
    BY <1>6
  <2>3. /\ SubSeq(buf, 1, m) \in Seq(Char) /\ SubSeq(line, 1, m) \in Seq(Char)
        /\ Len(SubSeq(buf, 1, m)) = IF 1 <= m THEN m - 1 + 1 ELSE 0
        /\ Len(SubSeq(line, 1, m)) = IF 1 <= m THEN m - 1 + 1 ELSE 0
        /\ \A k \in 1 .. m - 1 + 1 : SubSeq(buf, 1, m)[k] = buf[1 + k - 1]
        /\ \A k \in 1 .. m - 1 + 1 : SubSeq(line, 1, m)[k] = line[1 + k - 1]
    BY <2>1, <2>2, SubSeqProperties
  <2>4. /\ Len(SubSeq(buf, 1, m)) = m /\ Len(SubSeq(line, 1, m)) = m
        /\ \A k \in 1 .. m : SubSeq(buf, 1, m)[k] = SubSeq(line, 1, m)[k]
    BY <1>6, <1>10, <2>3
  <2> QED
    BY <2>3, <2>4, SameSeq
<1> QED
  BY <1>9, <1>11 DEF Wanted, m, buf, line

\* What the password does on its way from the terminal to the key.
PwOK(p) ==
  /\ pc[p] \in {"options", "answer"} =>
       stdin[p] = job[p].answer \o <<"\n">> \o job[p].typed \o <<"\n">>
  /\ pc[p] = "password" /\ job[p].answer = <<"y">> => stdin[p] = job[p].typed \o <<"\n">>
  /\ pc[p] \in {"options", "answer", "password"} => pw[p] = job[p].garbage
  /\ pc[p] = "send" /\ CleanInput(job[p]) => password_store(pw[p]) = Wanted(job[p])
  /\ pc[p] \notin {"send", "killed"} => pw[p] \in {Zeros, job[p].garbage}
  /\ pc[p] \notin {"password", "killed"} /\ ~job[p].stdin_fails => echo[p]

\* What the arguments do on their way to the program and back.
Parsed(p) ==
  /\ argv[p] = [k \in DOMAIN job[p].args |-> job[p].args[k] % WordMod]
  /\ \A k \in DOMAIN job[p].args : InRange(job[p].args[k])

EchoOK(p) ==
  /\ pc[p] \notin {"options", "exit", "killed"} => Parsed(p)
  /\ pc[p] = "report" /\ p \in ran /\ seen[p] = {job[p].enc} =>
       out[p] = Delivered(p, argv[p])
  /\ /\ shown[p].what = "done"
     /\ seen[p] = {job[p].enc}
     /\ \A k \in DOMAIN job[p].args : job[p].args[k] < WordMod \div 2
     /\ 4 * Len(job[p].args) < PrintBytes(p)
     => shown[p].words = job[p].args

DataInv == KeyFromPassword /\ \A p \in Proc : PwOK(p) /\ EchoOK(p)

\* Nothing of a process q changes.
Same(q) ==
  /\ pc'[q] = pc[q] /\ stdin'[q] = stdin[q] /\ echo'[q] = echo[q] /\ pw'[q] = pw[q]
  /\ argv'[q] = argv[q] /\ out'[q] = out[q] /\ written'[q] = written[q]
  /\ shown'[q] = shown[q] /\ seen'[q] = seen[q] /\ (q \in ran' <=> q \in ran)

\* A step of p leaves the others alone, and nobody's job changes.
LEMMA OthersSame ==
  ASSUME TypeOK, NEW p \in Proc, Process(p)
  PROVE  job' = job /\ \A q \in Proc \ {p} : Same(q)
<1> USE DEF Set, GoTo, Exit, Return, Same, TypeOK, procvars, kernelvars
<1>1. CASE ParseOptions(p)
  BY <1>1 DEF ParseOptions
<1>2. CASE ReadAnswer(p)
  BY <1>2 DEF ReadAnswer
<1>3. CASE read_password(p)
  BY <1>3 DEF read_password
<1>4. CASE SendPassword(p)
  BY <1>4 DEF SendPassword, Erase
<1>5. CASE OpenFile(p)
  BY <1>5 DEF OpenFile
<1>6. CASE WriteInvoke(p)
  BY <1>6 DEF WriteInvoke
<1>7. CASE InitInterpreter(p)
  BY <1>7 DEF InitInterpreter
<1>8. CASE NextCycle(p)
  BY <1>8 DEF NextCycle
<1>9. CASE ReturnResult(p)
  BY <1>9 DEF ReturnResult
<1>10. CASE Report(p)
  BY <1>10 DEF Report
<1>11. CASE Kill(p)
  BY <1>11 DEF Kill
<1> QED
  BY <1>1, <1>2, <1>3, <1>4, <1>5, <1>6, <1>7, <1>8, <1>9, <1>10, <1>11 DEF Process

\* What does not change stays true.
LEMMA SameOK ==
  ASSUME NEW q \in Proc, Same(q), job' = job, PwOK(q), EchoOK(q)
  PROVE  PwOK(q)' /\ EchoOK(q)'
<1>1. PwOK(q)'
  BY DEF Same, PwOK
<1>2. Delivered(q, argv[q])' = Delivered(q, argv[q]) /\ PrintBytes(q)' = PrintBytes(q)
  BY DEF Same, Delivered, PrintBytes
<1>3. EchoOK(q)'
  BY <1>2 DEF Same, EchoOK, Parsed
<1> QED
  BY <1>1, <1>3

\* The answer "y" and its newline are gone when the password is read.
LEMMA AnswerRead ==
  ASSUME NEW typed \in Seq(Char \ {"\n"}), NEW s,
         s = <<"y">> \o <<"\n">> \o typed \o <<"\n">>, "y" \in Char
  PROVE  s[1] = "y" /\ SubSeq(s, 3, Len(s)) = typed \o <<"\n">>
<1> DEFINE t == typed \o <<"\n">>
           u == <<"y">> \o <<"\n">>
<1>1. /\ typed \in Seq(Char) /\ <<"\n">> \in Seq(Char) /\ <<"y">> \in Seq(Char)
      /\ Len(<<"\n">>) = 1 /\ Len(<<"y">>) = 1
  BY LineOK, FrontendAssumption
<1>2. /\ u \in Seq(Char) /\ Len(u) = Len(<<"y">>) + Len(<<"\n">>)
      /\ \A k \in 1 .. Len(<<"y">>) + Len(<<"\n">>) :
           u[k] = IF k <= Len(<<"y">>) THEN <<"y">>[k] ELSE <<"\n">>[k - Len(<<"y">>)]
  BY <1>1, ConcatProperties
<1>3. t \in Seq(Char)
  BY <1>1, ConcatProperties
<1>4. s = u \o t
  <2> HIDE DEF u
  <2>1. s = (u \o typed) \o <<"\n">>
    BY DEF u
  <2> QED
    BY <1>1, <1>2, <2>1, ConcatAssociative
<1>u. Len(u) = 2 /\ u[1] = "y"
  BY <1>1, <1>2
<1> HIDE DEF t, u
<1>5. Len(t) \in Nat /\ \A k \in 1 .. Len(t) : t[k] \in Char
  BY <1>3, LenProperties, ElementOfSeq
<1>6. /\ s \in Seq(Char) /\ Len(s) = 2 + Len(t)
      /\ \A k \in 1 .. 2 + Len(t) :
           s[k] = IF k <= 2 THEN u[k] ELSE t[k - 2]
  <2>1. /\ u \o t \in Seq(Char) /\ Len(u \o t) = Len(u) + Len(t)
        /\ \A k \in 1 .. Len(u) + Len(t) :
             (u \o t)[k] = IF k <= Len(u) THEN u[k] ELSE t[k - Len(u)]
    <3>1. u \in Seq(Char)
      BY <1>2
    <3> QED
      BY <1>3, <3>1, ConcatProperties, Zenon
  <2> QED
    BY <1>4, <1>u, <2>1, Zenon
<1>7. s[1] = "y" /\ \A k \in 1 .. Len(t) : s[k + 2] = t[k]
  <2>1. 1 \in 1 .. 2 + Len(t) /\ 1 <= 2
    BY <1>5
  <2>2. s[1] = "y"
    BY <1>6, <1>u, <2>1, Zenon
  <2>3. ASSUME NEW k \in 1 .. Len(t) PROVE s[k + 2] = t[k]
    <3>1. k + 2 \in 1 .. 2 + Len(t) /\ ~(k + 2 <= 2) /\ (k + 2) - 2 = k
      BY <1>5
    <3> QED
      BY <1>6, <3>1
  <2> QED
    BY <2>2, <2>3
<1>8. \A k \in 3 .. Len(s) : s[k] \in Char
  BY <1>5, <1>6, ElementOfSeq
<1>9. /\ SubSeq(s, 3, Len(s)) \in Seq(Char)
      /\ Len(SubSeq(s, 3, Len(s))) = IF 3 <= Len(s) THEN Len(s) - 3 + 1 ELSE 0
      /\ \A k \in 1 .. Len(s) - 3 + 1 : SubSeq(s, 3, Len(s))[k] = s[3 + k - 1]
  BY <1>5, <1>6, <1>8, SubSeqProperties
<1>10. /\ Len(SubSeq(s, 3, Len(s))) = Len(t)
       /\ \A k \in 1 .. Len(t) : SubSeq(s, 3, Len(s))[k] = t[k]
  BY <1>5, <1>6, <1>7, <1>9
<1> QED
  BY <1>3, <1>7, <1>9, <1>10, SameSeq DEF t

\* Numbers survive the conversion to a word and back.
LEMMA EchoLine ==
  ASSUME NEW args \in Seq(Int),
         \A k \in DOMAIN args : InRange(args[k]) /\ args[k] < WordMod \div 2
  PROVE  Printed([k \in DOMAIN args |-> args[k] % WordMod], 4 * Len(args)) = args
<1> DEFINE n == Len(args)
           words == [k \in DOMAIN args |-> args[k] % WordMod]
           h == WordMod \div 2
<1>1. n \in Nat /\ DOMAIN args = 1 .. n /\ \A k \in 1 .. n : args[k] \in Int
  BY LenProperties, ElementOfSeq
<1>2. h \in Nat /\ WordMod = 2 * h /\ h > 0
  BY FrontendAssumption
<1>3. \A k \in 1 .. n : args[k] >= -h /\ args[k] < h
  BY <1>1 DEF InRange
<1> HIDE DEF h
<1>4. \A x \in Int : x >= -h /\ x < h => Signed(x % WordMod) = x
  <2> SUFFICES ASSUME NEW x \in Int, x >= -h, x < h PROVE Signed(x % WordMod) = x
    OBVIOUS
  <2>1. CASE x >= 0
    <3>1. x % WordMod = x
      BY <1>2, <2>1
    <3> QED
      BY <1>2, <2>1, <3>1 DEF Signed, h
  <2>2. CASE x < 0
    <3>1. x % WordMod = x + WordMod
      <4> DEFINE q == x \div WordMod
                 r == x % WordMod
      <4>1. q \in Int /\ r \in 0 .. WordMod - 1 /\ x = WordMod * q + r
        BY FrontendAssumption
      <4> HIDE DEF q, r
      <4>2. q >= 0 => WordMod * q >= 0
        BY <1>2, <4>1
      <4>3. q <= -2 => WordMod * q <= -(2 * WordMod)
        BY <1>2, <4>1
      <4>4. q = -1
        BY <1>2, <2>2, <4>1, <4>2, <4>3
      <4>5. WordMod * q = -WordMod
        BY <1>2, <4>4
      <4> QED
        BY <1>2, <4>1, <4>5 DEF r
    <3> QED
      BY <1>2, <2>2, <3>1 DEF Signed, h
  <2> QED
    BY <2>1, <2>2
<1>5. (4 * n) \div 4 = n
  <2>1. n \in Nat
    BY <1>1
  <2> HIDE DEF n
  <2> QED
    BY <2>1
<1>6. Printed(words, 4 * n) = [k \in 1 .. n |-> args[k]]
  BY <1>1, <1>3, <1>4, <1>5 DEF Printed
<1>7. args = [k \in 1 .. n |-> args[k]]
  BY LenProperties
<1> QED
  BY <1>6, <1>7

\* The key is kept by every step but the one that sets it.
LEMMA KeyKept ==
  ASSUME KeyFromPassword, UNCHANGED <<job, key, setter>>
  PROVE  KeyFromPassword'
  BY DEF KeyFromPassword, CleanInput

\* The steps of a process keep what holds of its own password ...
LEMMA OwnPassword ==
  ASSUME TypeOK, NEW p \in Proc, Process(p), PwOK(p)
  PROVE  PwOK(p)'
<1>j. job' = job
  BY OthersSame
<1> USE DEF Set, procvars, kernelvars
<1>1. CASE ParseOptions(p)
  <2>1. UNCHANGED <<stdin, pw, echo>> /\ pc[p] = "options"
    BY <1>1 DEF ParseOptions
  <2>2. pc'[p] \in {"exit", "answer", "open"}
    BY <1>1 DEF ParseOptions, Exit, GoTo, TypeOK
  <2> QED
    BY <1>j, <2>1, <2>2 DEF PwOK
<1>2. CASE ReadAnswer(p)
  <2>1. UNCHANGED pw /\ pc[p] = "answer"
    BY <1>2 DEF ReadAnswer
  <2>2. \/ pc'[p] = "exit" /\ echo' = echo
        \/ pc'[p] = "password"
    BY <1>2 DEF ReadAnswer, Exit, GoTo, TypeOK
  <2>3. ASSUME job[p].answer = <<"y">> PROVE stdin'[p] = job[p].typed \o <<"\n">>
    <3>1. stdin[p] = <<"y">> \o <<"\n">> \o job[p].typed \o <<"\n">>
      BY <2>1, <2>3 DEF PwOK
    <3>2. "y" \in Char
      <4>1. job[p].answer \in Seq(Char)
        BY JobOK, LineOK
      <4> QED
        BY <2>3, <4>1
    <3>3. stdin[p][1] = "y" /\ SubSeq(stdin[p], 3, Len(stdin[p])) = job[p].typed \o <<"\n">>
      BY <3>1, <3>2, JobOK, AnswerRead
    <3>4. stdin'[p] = SubSeq(stdin[p], 3, Len(stdin[p]))
      BY <1>2, <3>3 DEF ReadAnswer, TypeOK
    <3> QED
      BY <3>3, <3>4
  <2> QED
    BY <1>j, <2>1, <2>2, <2>3 DEF PwOK
<1>3. CASE read_password(p)
  <2>1. pc[p] = "password" /\ pc'[p] = "send" /\ pw[p] = job[p].garbage
    BY <1>3 DEF read_password, GoTo, TypeOK, PwOK
  <2>2. ~job[p].stdin_fails => echo'[p]
    BY <1>3 DEF read_password, TypeOK
  <2>3. ASSUME CleanInput(job[p]) PROVE password_store(pw'[p]) = Wanted(job[p])
    <3>1. ~job[p].stdin_fails /\ \A k \in DOMAIN job[p].typed : job[p].typed[k] # Eof
      BY <2>3 DEF CleanInput
    <3>2. stdin[p] = job[p].typed \o <<"\n">>
      BY <2>1, <2>3 DEF PwOK, CleanInput
    <3>3. Typed(stdin[p]) = job[p].typed
      BY <3>1, <3>2, JobOK, TypedLine
    <3>4. pw'[p] = Filled(job[p].garbage, job[p].typed)
      BY <1>3, <2>1, <3>1, <3>3 DEF read_password, TypeOK
    <3> QED
      BY <2>3, <3>4, JobOK, StoredLine
  <2> QED
    BY <1>j, <2>1, <2>2, <2>3 DEF PwOK
<1>4. CASE SendPassword(p)
  <2>1. pc[p] = "send" /\ pw'[p] = Zeros /\ echo' = echo
    BY <1>4 DEF SendPassword, Erase, TypeOK
  <2>2. pc'[p] \in {"exit", "open"}
    BY <1>4 DEF SendPassword, Exit, GoTo, TypeOK
  <2> QED
    BY <1>j, <2>1, <2>2 DEF PwOK, Zeros
<1>5. CASE \/ OpenFile(p) \/ WriteInvoke(p) \/ InitInterpreter(p) \/ NextCycle(p)
           \/ ReturnResult(p) \/ Report(p) \/ Kill(p)
  <2>1. UNCHANGED <<stdin, pw, echo>>
    BY <1>5 DEF OpenFile, WriteInvoke, InitInterpreter, NextCycle, ReturnResult, Report,
                Kill
  <2>2. \/ /\ pc[p] \in {"open", "invoke", "init", "run", "done", "report"}
           /\ pc'[p] \in {"exit", "invoke", "report", "init", "run", "done"}
        \/ pc'[p] = "killed"
    <3>1. CASE OpenFile(p)
      BY <3>1 DEF OpenFile, Exit, GoTo, TypeOK
    <3>2. CASE WriteInvoke(p)
      BY <3>2 DEF WriteInvoke, Return, GoTo, TypeOK
    <3>3. CASE InitInterpreter(p)
      BY <3>3 DEF InitInterpreter, Return, GoTo, TypeOK
    <3>4. CASE NextCycle(p)
      BY <3>4 DEF NextCycle, GoTo, TypeOK
    <3>5. CASE ReturnResult(p)
      BY <3>5 DEF ReturnResult, Return, GoTo, TypeOK
    <3>6. CASE Report(p)
      BY <3>6 DEF Report, Exit, TypeOK
    <3>7. CASE Kill(p)
      BY <3>7 DEF Kill, TypeOK
    <3> QED
      BY <1>5, <3>1, <3>2, <3>3, <3>4, <3>5, <3>6, <3>7
  <2> QED
    BY <1>j, <2>1, <2>2 DEF PwOK
<1> QED
  BY <1>1, <1>2, <1>3, <1>4, <1>5 DEF Process

\* ... and of its own arguments.
LEMMA OwnEcho ==
  ASSUME TypeOK, RunInv, NEW p \in Proc, Process(p), EchoOK(p)
  PROVE  EchoOK(p)'
<1>j. job' = job
  BY OthersSame
<1>r. RunOK(p)
  BY DEF RunInv
<1> USE DEF Set, procvars, kernelvars
<1>p. PrintBytes(p)' = PrintBytes(p)
  BY <1>j DEF PrintBytes
<1>1. CASE ParseOptions(p)
  <2>1. UNCHANGED <<ran, seen>> /\ pc[p] = "options" /\ p \notin ran
    BY <1>1, <1>r DEF ParseOptions, RunOK
  <2>2. CASE pc'[p] = "exit" /\ shown'[p].what = "failure"
    BY <1>j, <2>1, <2>2 DEF EchoOK
  <2>3. CASE pc'[p] # "exit" /\ shown' = shown /\ Parsed(p)'
    BY <1>j, <1>r, <2>1, <2>3 DEF EchoOK, RunOK
  <2>4. \/ Exit(p, "failure")
        \/ /\ shown' = shown /\ pc'[p] \in {"answer", "open"}
           /\ argv'[p] = [k \in DOMAIN job[p].args |-> job[p].args[k] % WordMod]
           /\ \A k \in DOMAIN job[p].args : InRange(job[p].args[k])
    BY <1>1 DEF ParseOptions, GoTo, TypeOK
  <2>5. "failure" \in Reports
    BY DEF Reports
  <2> QED
    BY <1>j, <2>2, <2>3, <2>4, <2>5, ExitMoves DEF Parsed
<1>2. CASE \/ ReadAnswer(p) \/ read_password(p) \/ SendPassword(p) \/ OpenFile(p)
           \/ WriteInvoke(p) \/ InitInterpreter(p) \/ NextCycle(p) \/ Kill(p)
  <2>1. /\ argv' = argv /\ ran' = ran
        /\ pc[p] \notin {"options", "report", "exit"} \/ pc'[p] = "killed"
    BY <1>2 DEF ReadAnswer, read_password, SendPassword, OpenFile, WriteInvoke,
                InitInterpreter, NextCycle, Kill, TypeOK
  <2>2. p \notin ran \/ pc'[p] = "killed"
    BY <1>r, <2>1, <1>2 DEF RunOK, ReadAnswer, read_password, SendPassword, OpenFile,
                WriteInvoke, InitInterpreter, NextCycle, Kill
  <2>3. (pc[p] \in {"options", "exit", "killed"} => pc'[p] = "killed")
    BY <1>2 DEF ReadAnswer, read_password, SendPassword, OpenFile, WriteInvoke,
                InitInterpreter, NextCycle, Kill, TypeOK
  <2>4. shown'[p].what # "done"
    <3>1. shown[p].what # "done"
      BY <1>2, <1>r DEF RunOK, ReadAnswer, read_password, SendPassword, OpenFile,
                WriteInvoke, InitInterpreter, NextCycle, Kill
    <3>2. shown' = shown \/ Exit(p, "failure") \/ Exit(p, "success")
      BY <1>2 DEF ReadAnswer, read_password, SendPassword, OpenFile, WriteInvoke,
                InitInterpreter, NextCycle, Kill, GoTo, Return
    <3>3. "failure" \in Reports /\ "success" \in Reports
      BY DEF Reports
    <3> QED
      BY <3>1, <3>2, <3>3, ExitMoves
  <2> QED
    BY <1>j, <2>1, <2>2, <2>3, <2>4 DEF EchoOK, Parsed
<1>3. CASE ReturnResult(p)
  <2>1. PICK o \in Outcomes(p) :
          out' = [out EXCEPT ![p] = Delivered(p, o[2])] /\ GoTo(p, "report")
    BY <1>3 DEF ReturnResult, Return
  <2>2. UNCHANGED <<seen, argv>> /\ pc[p] = "done"
    BY <1>3 DEF ReturnResult
  <2>3. shown'[p].what # "done" /\ pc'[p] = "report"
    BY <1>r, <2>1, <2>2 DEF RunOK, GoTo, TypeOK
  <2>4. out'[p] = Delivered(p, o[2])
    BY <2>1 DEF TypeOK
  <2>5. seen[p] = {job[p].enc} => o[2] = argv[p]
    BY <2>1 DEF Outcomes
  <2>6. Delivered(p, argv[p])' = Delivered(p, argv[p])
    BY <1>j, <1>p, <2>2 DEF Delivered
  <2> QED
    BY <1>j, <2>2, <2>3, <2>4, <2>5, <2>6 DEF EchoOK, Parsed
<1>4. CASE Report(p)
  <2>1. UNCHANGED <<argv, seen, ran, out>> /\ pc[p] = "report" /\ pc'[p] = "exit"
    BY <1>4 DEF Report, Exit, TypeOK
  <2>2. ASSUME shown'[p].what = "done", seen[p] = {job[p].enc},
               \A k \in DOMAIN job[p].args : job[p].args[k] < WordMod \div 2,
               4 * Len(job[p].args) < PrintBytes(p)
        PROVE  shown'[p].words = job[p].args
    <3>1. written[p] # -1 /\ result[p] # -1
      <4>1. written[p] = -1 \/ result[p] = -1 =>
              Exit(p, "no backend") \/ Exit(p, "backend error")
        BY <1>4 DEF Report
      <4>2. "no backend" \in Reports /\ "backend error" \in Reports
        BY DEF Reports
      <4> QED
        BY <2>2, <4>1, <4>2, ExitMoves
    <3>2. p \in ran /\ written[p] = 4 * Len(out[p])
      BY <1>r, <3>1 DEF RunOK
    <3>3. shown'[p].words = Printed(out[p], written[p])
      BY <1>4, <3>1 DEF Report, TypeOK
    <3>4. Parsed(p) /\ out[p] = Delivered(p, argv[p])
      BY <2>1, <2>2, <3>2 DEF EchoOK
    <3>5. argv[p] \in Words /\ Len(argv[p]) = Len(job[p].args)
      BY <3>4, JobOK, ArgvOK DEF Parsed
    <3>6. out[p] = argv[p]
      BY <2>2, <3>4, <3>5, DeliveredOK
    <3>7. Printed([k \in DOMAIN job[p].args |-> job[p].args[k] % WordMod],
                  4 * Len(job[p].args)) = job[p].args
      BY <2>2, <3>4, JobOK, EchoLine DEF Parsed
    <3> QED
      BY <3>2, <3>3, <3>4, <3>5, <3>6, <3>7 DEF Parsed
  <2> QED
    BY <1>j, <1>p, <2>1, <2>2 DEF EchoOK
<1> QED
  BY <1>1, <1>2, <1>3, <1>4 DEF Process

\* Passwords, keys, arguments and output are kept by every step.
LEMMA NextData == TypeOK /\ RunInv /\ DataInv /\ [Next]_vars => DataInv'
<1> SUFFICES ASSUME TypeOK, RunInv, DataInv, [Next]_vars PROVE DataInv'
  OBVIOUS
<1>1. CASE Kernel \/ UNCHANGED vars
  <2>1. UNCHANGED <<procvars, key, setter, seen, ran>>
    BY <1>1 DEF Kernel, Insmod, InitLocks, CreateKobject, CreateGroup, LoadFails, Rmmod,
                ExitSysfs, vars, kernelvars
  <2>2. \A q \in Proc : Same(q)
    BY <2>1 DEF procvars, Same
  <2>3. UNCHANGED <<job, key, setter>>
    BY <2>1 DEF procvars
  <2> QED
    BY <2>2, <2>3, SameOK, KeyKept DEF DataInv
<1>2. ASSUME NEW p \in Proc, Process(p) PROVE DataInv'
  <2>1. job' = job /\ \A q \in Proc \ {p} : Same(q)
    BY <1>2, OthersSame
  <2>2. \A q \in Proc \ {p} : PwOK(q)' /\ EchoOK(q)'
    BY <2>1, SameOK DEF DataInv
  <2>3. PwOK(p)' /\ EchoOK(p)'
    BY <1>2, OwnPassword, OwnEcho DEF DataInv
  <2>4. KeyFromPassword'
    <3>1. CASE key' = key /\ setter' = setter
      BY <2>1, <3>1, KeyKept DEF DataInv
    <3>2. CASE SendPassword(p) /\ key' = password_store(pw[p]) /\ setter' = p
      <4>1. CleanInput(job[p]) => key' = Wanted(job[p])
        BY <3>2 DEF SendPassword, DataInv, PwOK
      <4> QED
        BY <2>1, <3>2, <4>1 DEF KeyFromPassword, Wanted, CleanInput
    <3>3. \/ key' = key /\ setter' = setter
          \/ SendPassword(p) /\ key' = password_store(pw[p]) /\ setter' = p
      <4>1. CASE SendPassword(p)
        BY <4>1 DEF SendPassword
      <4>2. CASE ParseOptions(p) \/ ReadAnswer(p) \/ read_password(p) \/ OpenFile(p)
        BY <4>2 DEF ParseOptions, ReadAnswer, read_password, OpenFile, kernelvars
      <4>3. CASE \/ WriteInvoke(p) \/ InitInterpreter(p) \/ NextCycle(p)
                 \/ ReturnResult(p) \/ Report(p) \/ Kill(p)
        BY <4>3 DEF WriteInvoke, InitInterpreter, NextCycle, ReturnResult, Report, Kill,
                    kernelvars
      <4> QED
        BY <1>2, <4>1, <4>2, <4>3 DEF Process
    <3> QED
      BY <3>1, <3>2, <3>3
  <2> QED
    BY <2>2, <2>3, <2>4 DEF DataInv
<1> QED
  BY <1>1, <1>2 DEF Next

\* Keys and output follow what was typed, from the start on.
THEOREM DataInductive == Spec => []DataInv
<1>1. Init => DataInv
  <2> SUFFICES ASSUME Init PROVE DataInv
    OBVIOUS
  <2>1. KeyFromPassword
    BY DEF Init, KeyFromPassword
  <2>2. ASSUME NEW p \in Proc PROVE PwOK(p)
    <3>1. pc[p] = "options" /\ echo[p] = TRUE /\ pw[p] = job[p].garbage
      BY <2>2 DEF Init
    <3>2. stdin[p] = job[p].answer \o <<"\n">> \o job[p].typed \o <<"\n">>
      BY <2>2 DEF Init
    <3> QED
      BY <3>1, <3>2 DEF PwOK
  <2>3. ASSUME NEW p \in Proc PROVE EchoOK(p)
    <3>1. pc[p] = "options" /\ shown[p].what = "none"
      BY <2>3 DEF Init, Nothing
    <3> QED
      BY <3>1 DEF EchoOK
  <2> QED
    BY <2>1, <2>2, <2>3 DEF DataInv
<1>2. TypeOK /\ RunInv /\ DataInv /\ [Next]_vars => DataInv'
  BY NextData
<1> QED
  BY <1>1, <1>2, RunInductive, PTL DEF Spec

\* The key in use was derived from the text typed at a password prompt, for
\* any clean input of any length, and any number of concurrent frontends.
THEOREM KeyDerived == Spec => []KeyFromPassword
<1>1. DataInv => KeyFromPassword
  BY DEF DataInv
<1> QED
  BY <1>1, DataInductive, PTL

\* The array pw holds the password only between read_password and memset.
THEOREM Erased == Spec => []PasswordErased
<1>1. DataInv => PasswordErased
  BY DEF DataInv, PwOK, PasswordErased
<1> QED
  BY <1>1, DataInductive, PTL

\* Every exit but the one after a read error leaves the echo on.
THEOREM EchoOn == Spec => []TerminalRestored
<1>1. DataInv => TerminalRestored
  BY DEF DataInv, PwOK, TerminalRestored
<1> QED
  BY <1>1, DataInductive, PTL

\* Whatever was typed and wherever the frontend exits, neither memory nor
\* terminal show that a password was asked for.
THEOREM Traceless == Spec => []NoTrace
  BY Erased, EchoOn, PTL DEF NoTrace

\* Arguments that a program prints are shown as they were typed, for words
\* of any width and print buffers of any size.
THEOREM EndToEnd == Spec => []EchoRight
<1>1. DataInv => EchoRight
  BY DEF DataInv, EchoOK, EchoRight
<1> QED
  BY <1>1, DataInductive, PTL
=============================================================================
