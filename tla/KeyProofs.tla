----------------------------- MODULE KeyProofs ------------------------------
(***************************************************************************)
(* Proofs about Key, for every set of cpus and passwords and every number  *)
(* of iterations: what holds for any number of concurrent writers, and     *)
(* what holds if there is only one.                                        *)
(***************************************************************************)
EXTENDS Key, TLAPS

-----------------------------------------------------------------------------
(* Any number of writers.                                                  *)

\* A writer that has derived something has a digest, and its interrupts are
\* under way only while it waits for them.
WriterOK ==
  \A w \in Writer : /\ wpc[w] # "out" => key[w] \in Digest
                    /\ wpc[w] = "second" => key_hash \in Digest
                    /\ wpc[w] = "first" => i[w] < KdfIter
                    /\ wpc[w] = "second" => i[w] < KdfIter
                    /\ todo[w] # {} => wpc[w] = "wait"

\* A cpu in a section has its interrupts off; round keys are loaded between
\* bispe_gen_rkeys and bispe_clear_regs only.
CpuOK ==
  \A c \in Cpu : /\ section[c] # "none" => c \in irq_off
                 /\ section[c] # "use" => rkeys[c] = Zero
                 /\ section[c] = "use" => rkeys[c] = db[c]

IndInv == TypeOK /\ WriterOK /\ CpuOK

\* Hashing a digest gives a digest.
LEMMA HashType == ASSUME NEW d \in Digest PROVE bispe_sha256(d) \in Digest
  BY DEF Digest, bispe_sha256

\* The module is loaded with no key and no writer.
LEMMA InitInd == Init => IndInv
  BY KeyAssumption DEF Init, IndInv, TypeOK, WriterOK, CpuOK

\* The steps of password_store.
LEMMA StoreInd ==
  ASSUME IndInv, NEW w \in Writer, password_store(w) \/ Store(w)
  PROVE  IndInv'
<1>1. CASE password_store(w)
  <2>1. PICK p \in Password : key' = [key EXCEPT ![w] = <<p, 1>>]
    BY <1>1 DEF password_store
  <2>2. <<p, 1>> \in Digest
    BY DEF Digest
  <2>3. LoopHead(0) \in {"first", "ipi"} /\ (LoopHead(0) = "first" => 0 < KdfIter)
    BY DEF LoopHead
  <2>4. TypeOK'
    BY <1>1, <2>1, <2>2, <2>3, KeyAssumption DEF IndInv, TypeOK, password_store
  <2>5. WriterOK'
    BY <1>1, <2>1, <2>2, <2>3 DEF IndInv, TypeOK, WriterOK, password_store
  <2>6. CpuOK'
    BY <1>1 DEF IndInv, CpuOK, password_store
  <2> QED
    BY <2>4, <2>5, <2>6 DEF IndInv
<1>2. CASE HashToKeyHash(w)
  <2>1. bispe_sha256(key[w]) \in Digest
    BY <1>2, HashType DEF IndInv, WriterOK, HashToKeyHash
  <2>2. TypeOK'
    BY <1>2, <2>1 DEF IndInv, TypeOK, HashToKeyHash
  <2>3. WriterOK'
    BY <1>2, <2>1 DEF IndInv, TypeOK, WriterOK, HashToKeyHash
  <2>4. CpuOK'
    BY <1>2 DEF IndInv, CpuOK, HashToKeyHash
  <2> QED
    BY <2>2, <2>3, <2>4 DEF IndInv
<1>3. CASE HashToKey(w)
  <2>1. bispe_sha256(key_hash) \in Digest
    BY <1>3, HashType DEF IndInv, WriterOK, HashToKey
  <2>2. i[w] + 1 \in 0 .. KdfIter
    BY <1>3, KeyAssumption DEF IndInv, TypeOK, WriterOK, HashToKey
  <2>3. /\ LoopHead(i[w] + 1) \in {"first", "ipi"}
        /\ LoopHead(i[w] + 1) = "first" => i[w] + 1 < KdfIter
    BY DEF LoopHead
  <2>4. TypeOK'
    BY <1>3, <2>1, <2>2, <2>3 DEF IndInv, TypeOK, HashToKey
  <2>5. WriterOK'
    BY <1>3, <2>1, <2>2, <2>3 DEF IndInv, TypeOK, WriterOK, HashToKey
  <2>6. CpuOK'
    BY <1>3 DEF IndInv, CpuOK, HashToKey
  <2> QED
    BY <2>4, <2>5, <2>6 DEF IndInv
<1>4. CASE on_each_cpu(w)
  <2>1. TypeOK'
    BY <1>4 DEF IndInv, TypeOK, on_each_cpu
  <2>2. WriterOK'
    BY <1>4 DEF IndInv, TypeOK, WriterOK, on_each_cpu
  <2>3. CpuOK'
    BY <1>4 DEF IndInv, CpuOK, on_each_cpu
  <2> QED
    BY <2>1, <2>2, <2>3 DEF IndInv
<1>5. CASE PublishHash(w)
  <2>1. bispe_sha256(key[w]) \in Digest
    BY <1>5, HashType DEF IndInv, WriterOK, PublishHash
  <2>2. TypeOK'
    BY <1>5, <2>1 DEF IndInv, TypeOK, PublishHash
  <2>3. WriterOK'
    BY <1>5, <2>1 DEF IndInv, TypeOK, WriterOK, PublishHash
  <2>4. CpuOK'
    BY <1>5 DEF IndInv, CpuOK, PublishHash
  <2> QED
    BY <2>2, <2>3, <2>4 DEF IndInv
<1>6. CASE ResetMemory(w)
  <2>1. TypeOK'
    BY <1>6 DEF IndInv, TypeOK, ResetMemory
  <2>2. WriterOK'
    BY <1>6 DEF IndInv, TypeOK, WriterOK, ResetMemory
  <2>3. CpuOK'
    BY <1>6 DEF IndInv, CpuOK, ResetMemory
  <2> QED
    BY <2>1, <2>2, <2>3 DEF IndInv
<1> QED
  BY <1>1, <1>2, <1>3, <1>4, <1>5, <1>6 DEF Store

\* The interrupt of on_each_cpu: the cpu is in no section.
LEMMA SetKeyInd ==
  ASSUME IndInv, NEW w \in Writer, NEW c \in Cpu, setkey_current_cpu(w, c)
  PROVE  IndInv'
<1>1. key[w] \in Digest
  BY DEF IndInv, WriterOK, setkey_current_cpu
<1>2. TypeOK'
  BY <1>1 DEF IndInv, TypeOK, setkey_current_cpu
<1>3. WriterOK'
  BY DEF IndInv, TypeOK, WriterOK, setkey_current_cpu
<1>4. CpuOK'
  BY DEF IndInv, TypeOK, CpuOK, setkey_current_cpu
<1> QED
  BY <1>2, <1>3, <1>4 DEF IndInv

\* The critical sections.
LEMMA SectionInd ==
  ASSUME IndInv, NEW c \in Cpu, local_irq_save(c) \/ Section(c)
  PROVE  IndInv'
<1>1. TypeOK'
  BY DEF IndInv, TypeOK, Section, local_irq_save, bispe_gen_rkeys,
         bispe_clear_regs, local_irq_restore, writervars
<1>2. WriterOK'
  BY DEF IndInv, WriterOK, Section, local_irq_save, bispe_gen_rkeys,
         bispe_clear_regs, local_irq_restore, writervars
<1>3. CpuOK'
  BY DEF IndInv, TypeOK, CpuOK, Section, local_irq_save, bispe_gen_rkeys,
         bispe_clear_regs, local_irq_restore, writervars
<1> QED
  BY <1>1, <1>2, <1>3 DEF IndInv

\* Every step keeps the invariant.
LEMMA NextInd == IndInv /\ [Next]_vars => IndInv'
<1>1. IndInv /\ UNCHANGED vars => IndInv'
  BY DEF IndInv, TypeOK, WriterOK, CpuOK, vars, writervars
<1> QED
  BY <1>1, StoreInd, SetKeyInd, SectionInd DEF Next

\* The invariant holds throughout.
THEOREM Inductive == Spec => []IndInv
  BY InitInd, NextInd, PTL DEF Spec

\* Keys, hashes and counters keep their types.
THEOREM TypeCorrect == Spec => []TypeOK
<1>1. IndInv => TypeOK
  BY DEF IndInv
<1> QED
  BY <1>1, Inductive, PTL

\* No number of concurrent password_store calls changes the key under a
\* section of encrypt_code or under a cycle.
THEOREM KeyStableInSection == Spec => []SectionKeyCurrent
<1>1. IndInv => SectionKeyCurrent
  BY DEF IndInv, CpuOK, SectionKeyCurrent
<1> QED
  BY <1>1, Inductive, PTL

\* Whenever a cpu can be interrupted its round key registers are clear.
THEOREM NoKeyInInterrupt == Spec => []RegistersClean
<1>1. IndInv => RegistersClean
  BY DEF IndInv, CpuOK, RegistersClean
<1> QED
  BY <1>1, Inductive, PTL

-----------------------------------------------------------------------------
(* A single writer.                                                        *)

OneWriterOnly == \A v, w \in Writer : v = w

\* How far the derivation has come, who has the key already, and what
\* key_hash is the hash of.
DerivationOK ==
  \A w \in Writer :
    /\ wpc[w] \in {"first", "second"} => key[w][2] = 2 * i[w] + 1
    /\ wpc[w] = "second" => key_hash = bispe_sha256(key[w])
    /\ wpc[w] \in {"ipi", "wait", "reset"} => key[w][2] = 2 * KdfIter + 1
    /\ wpc[w] \in {"wait", "reset"} => \A c \in Cpu \ todo[w] : db[c] = key[w]
    /\ wpc[w] = "reset" => key_hash = bispe_sha256(key[w])

OneWriterInv == IndInv /\ DerivationOK /\ HashOfKeyInUse /\ FullyDerived

\* Hashing counts.
LEMMA HashCount == ASSUME NEW d \in Digest PROVE bispe_sha256(d)[2] = d[2] + 1
  BY DEF Digest, bispe_sha256

\* Without interrupts under way nothing but the writer's own steps matter.
LEMMA OneStoreInd ==
  ASSUME OneWriterOnly, OneWriterInv, NEW w \in Writer,
         password_store(w) \/ Store(w)
  PROVE  OneWriterInv'
<1>1. IndInv'
  BY StoreInd DEF OneWriterInv
<1>2. Writer = {w}
  BY DEF OneWriterOnly
<1>3. key[w] \in Digest \cup {Zero} /\ i[w] \in 0 .. KdfIter /\ KdfIter \in Nat
  BY KeyAssumption DEF OneWriterInv, IndInv, TypeOK
<1>4. FullyDerived'
  BY DEF OneWriterInv, FullyDerived, password_store, Store, HashToKeyHash,
         HashToKey, on_each_cpu, PublishHash, ResetMemory
<1>5. CASE password_store(w)
  <2>1. PICK p \in Password : key' = [key EXCEPT ![w] = <<p, 1>>]
    BY <1>5 DEF password_store
  <2>2. key'[w] = <<p, 1>>
    BY <2>1 DEF OneWriterInv, IndInv, TypeOK
  <2>3. key'[w][2] = 1
    BY <2>2
  <2>4. i'[w] = 0 /\ wpc'[w] \in {"first", "ipi"}
        /\ (wpc'[w] = "ipi" => KdfIter = 0)
    BY <1>3, <1>5 DEF password_store, LoopHead, OneWriterInv, IndInv, TypeOK
  <2>5. DerivationOK'
    BY <1>2, <1>3, <2>3, <2>4 DEF DerivationOK
  <2>6. HashOfKeyInUse'
    BY <2>4 DEF HashOfKeyInUse, Quiet
  <2> QED
    BY <1>1, <1>4, <2>5, <2>6 DEF OneWriterInv
<1>6. CASE HashToKeyHash(w)
  <2>1. /\ wpc'[w] = "second" /\ key' = key /\ i' = i
        /\ key_hash' = bispe_sha256(key[w]) /\ wpc[w] = "first"
    BY <1>6 DEF HashToKeyHash, OneWriterInv, IndInv, TypeOK
  <2>2. DerivationOK'
    BY <1>2, <2>1 DEF DerivationOK, OneWriterInv
  <2>3. HashOfKeyInUse'
    BY <2>1 DEF HashOfKeyInUse, Quiet
  <2> QED
    BY <1>1, <1>4, <2>2, <2>3 DEF OneWriterInv
<1>7. CASE HashToKey(w)
  <2>1. /\ wpc[w] = "second" /\ key'[w] = bispe_sha256(key_hash)
        /\ i'[w] = i[w] + 1 /\ wpc'[w] = LoopHead(i[w] + 1)
    BY <1>7 DEF HashToKey, OneWriterInv, IndInv, TypeOK
  <2>2. /\ key[w] \in Digest /\ key_hash = bispe_sha256(key[w])
        /\ key[w][2] = 2 * i[w] + 1 /\ i[w] < KdfIter
    BY <2>1 DEF OneWriterInv, IndInv, WriterOK, DerivationOK
  <2>3. key'[w][2] = 2 * i[w] + 3
    <3>1. key_hash \in Digest /\ key_hash[2] = 2 * i[w] + 2
      BY <1>3, <2>2, HashType, HashCount
    <3> QED
      BY <1>3, <2>1, <3>1, HashCount
  <2>4. wpc'[w] \in {"first", "ipi"} /\ (wpc'[w] = "ipi" => i[w] + 1 = KdfIter)
    BY <1>3, <2>1, <2>2 DEF LoopHead
  <2>5. DerivationOK'
    BY <1>2, <1>3, <2>1, <2>3, <2>4 DEF DerivationOK
  <2>6. HashOfKeyInUse'
    BY <2>4 DEF HashOfKeyInUse, Quiet
  <2> QED
    BY <1>1, <1>4, <2>5, <2>6 DEF OneWriterInv
<1>8. CASE on_each_cpu(w)
  <2>1. /\ wpc[w] = "ipi" /\ wpc'[w] = "wait" /\ key' = key /\ i' = i
        /\ todo'[w] = Cpu
    BY <1>8 DEF on_each_cpu, OneWriterInv, IndInv, TypeOK
  <2>2. DerivationOK'
    BY <1>2, <2>1 DEF DerivationOK, OneWriterInv
  <2>3. HashOfKeyInUse'
    BY <2>1 DEF HashOfKeyInUse, Quiet
  <2> QED
    BY <1>1, <1>4, <2>2, <2>3 DEF OneWriterInv
<1>9. CASE PublishHash(w)
  <2>1. /\ wpc[w] = "wait" /\ wpc'[w] = "reset" /\ key' = key /\ i' = i
        /\ todo' = todo /\ db' = db /\ key_hash' = bispe_sha256(key[w])
    BY <1>9 DEF PublishHash, OneWriterInv, IndInv, TypeOK
  <2>2. DerivationOK'
    BY <1>2, <2>1 DEF DerivationOK, OneWriterInv
  <2>3. HashOfKeyInUse'
    BY <2>1 DEF HashOfKeyInUse, Quiet
  <2> QED
    BY <1>1, <1>4, <2>2, <2>3 DEF OneWriterInv
<1>10. CASE ResetMemory(w)
  <2>1. /\ wpc[w] = "reset" /\ wpc'[w] = "out" /\ todo[w] = {}
        /\ db' = db /\ key_hash' = key_hash
    BY <1>10 DEF ResetMemory, OneWriterInv, IndInv, TypeOK, WriterOK
  <2>2. DerivationOK'
    BY <1>2, <2>1 DEF DerivationOK
  <2>3. key[w] # Zero
    BY <2>1, KeyAssumption DEF OneWriterInv, IndInv, WriterOK, Digest
  <2>4. \A c \in Cpu : db[c] = key[w] /\ key_hash = bispe_sha256(db[c])
    BY <2>1 DEF OneWriterInv, DerivationOK
  <2>5. HashOfKeyInUse'
    BY <2>1, <2>3, <2>4 DEF HashOfKeyInUse
  <2> QED
    BY <1>1, <1>4, <2>2, <2>5 DEF OneWriterInv
<1> QED
  BY <1>5, <1>6, <1>7, <1>8, <1>9, <1>10 DEF Store

\* A cpu gets the key of the writer, which is complete.
LEMMA OneSetKeyInd ==
  ASSUME OneWriterOnly, OneWriterInv, NEW w \in Writer, NEW c \in Cpu,
         setkey_current_cpu(w, c)
  PROVE  OneWriterInv'
<1>1. IndInv'
  BY SetKeyInd DEF OneWriterInv
<1>2. Writer = {w}
  BY DEF OneWriterOnly
<1>3. /\ wpc[w] = "wait" /\ wpc' = wpc /\ key' = key /\ i' = i
      /\ key_hash' = key_hash
  BY DEF setkey_current_cpu, OneWriterInv, IndInv, WriterOK
<1>4. key[w][2] = 2 * KdfIter + 1
  BY <1>3 DEF OneWriterInv, DerivationOK
<1>5. /\ \A d \in Cpu : db'[d] = IF d = c THEN key[w] ELSE db[d]
      /\ todo'[w] = todo[w] \ {c}
  BY DEF setkey_current_cpu, OneWriterInv, IndInv, TypeOK
<1>6. FullyDerived'
  BY <1>4, <1>5 DEF FullyDerived, OneWriterInv
<1>7. DerivationOK'
  BY <1>2, <1>3, <1>5 DEF DerivationOK, OneWriterInv
<1>8. HashOfKeyInUse'
  BY <1>3 DEF HashOfKeyInUse, Quiet
<1> QED
  BY <1>1, <1>6, <1>7, <1>8 DEF OneWriterInv

\* Sections do not touch what the writer works on.
LEMMA OneFrame ==
  ASSUME OneWriterInv, IndInv', UNCHANGED <<writervars, db>>
  PROVE  OneWriterInv'
  BY DEF OneWriterInv, writervars, DerivationOK, HashOfKeyInUse, Quiet,
         FullyDerived

\* Every step keeps the invariant of a single writer.
LEMMA OneNextInd ==
  ASSUME OneWriterOnly PROVE OneWriterInv /\ [Next]_vars => OneWriterInv'
<1> SUFFICES ASSUME OneWriterInv, [Next]_vars PROVE OneWriterInv'
  OBVIOUS
<1>1. IndInv'
  BY NextInd DEF OneWriterInv
<1>2. ASSUME NEW c \in Cpu, local_irq_save(c) \/ Section(c)
      PROVE  OneWriterInv'
  BY <1>1, <1>2, OneFrame DEF Section, local_irq_save, bispe_gen_rkeys,
     bispe_clear_regs, local_irq_restore
<1>3. CASE UNCHANGED vars
  BY <1>1, <1>3, OneFrame DEF vars
<1> QED
  BY <1>2, <1>3, OneStoreInd, OneSetKeyInd DEF Next

\* The invariant of a single writer holds throughout.
LEMMA OneInductive == ASSUME OneWriterOnly PROVE Spec => []OneWriterInv
<1>1. Init => OneWriterInv
  BY InitInd DEF Init, OneWriterInv, DerivationOK, HashOfKeyInUse, FullyDerived
<1> QED
  BY <1>1, OneNextInd, PTL DEF Spec

\* If passwords are set one after the other, the hash shown by hash_show is
\* that of the key every cpu uses.
THEOREM HashShown == ASSUME OneWriterOnly PROVE Spec => []HashOfKeyInUse
<1>1. OneWriterInv => HashOfKeyInUse
  BY DEF OneWriterInv
<1> QED
  BY <1>1, OneInductive, PTL

\* If passwords are set one after the other, no cpu ever has a key that did
\* not go through all iterations of the derivation.
THEOREM KeysFullyDerived == ASSUME OneWriterOnly PROVE Spec => []FullyDerived
<1>1. OneWriterInv => FullyDerived
  BY DEF OneWriterInv
<1> QED
  BY <1>1, OneInductive, PTL
=============================================================================
