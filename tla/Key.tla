-------------------------------- MODULE Key ---------------------------------
(***************************************************************************)
(* The encryption key: how password_store derives it and brings it to the  *)
(* debug registers of every cpu, and how encrypt_code and the cycles of    *)
(* the interpreter use it.  Processes that write to the sysfs file         *)
(* "password" run concurrently: nothing but their own file descriptor      *)
(* serialises them.  A cpu reads its key at the head of a section in which *)
(* its interrupts are off, and clears its registers before they are on     *)
(* again.                                                                  *)
(*                                                                         *)
(* SHA-256 is taken as injective: a digest is a password and the number of *)
(* times it was hashed.  One call of it is one step.  on_each_cpu, the     *)
(* delivery of its interrupts and local_irq_save are the kernel's.         *)
(***************************************************************************)
EXTENDS Integers

CONSTANTS
  Writer,      \* processes that can write to the password file
  Cpu,
  Password,
  KdfIter,     \* BISPE_KDF_ITER
  Zero         \* memory or registers that were cleared, or never set

ASSUME KeyAssumption ==
  /\ KdfIter \in Nat
  /\ Zero \notin Password \X Nat

Digest == Password \X Nat
bispe_sha256(d) == <<d[1], d[2] + 1>>

VARIABLES
  key_hash,    \* static, shared by all calls of password_store
  wpc,         \* where the system call of a writer is
  i,           \* its loop counter
  key,         \* its local array key
  todo,        \* the cpus that have not yet run its setkey_current_cpu
  db,          \* the debug registers of a cpu, which hold its key
  rkeys,       \* the key from which its round key registers were generated
  irq_off,     \* the cpus with interrupts disabled
  section      \* where a cpu is in encrypt_code or in a cycle

writervars == <<key_hash, wpc, i, key, todo>>
vars == <<writervars, db, rkeys, irq_off, section>>

TypeOK ==
  /\ key_hash \in Digest \cup {Zero}
  /\ wpc \in [Writer -> {"out", "first", "second", "ipi", "wait", "reset"}]
  /\ i \in [Writer -> 0 .. KdfIter]
  /\ key \in [Writer -> Digest \cup {Zero}]
  /\ todo \in [Writer -> SUBSET Cpu]
  /\ db \in [Cpu -> Digest \cup {Zero}]
  /\ rkeys \in [Cpu -> Digest \cup {Zero}]
  /\ irq_off \subseteq Cpu
  /\ section \in [Cpu -> {"none", "gen", "use", "restore"}]

Init ==
  /\ key_hash = Zero
  /\ wpc = [w \in Writer |-> "out"]
  /\ i = [w \in Writer |-> 0]
  /\ key = [w \in Writer |-> Zero]
  /\ todo = [w \in Writer |-> {}]
  /\ db = [c \in Cpu |-> Zero]
  /\ rkeys = [c \in Cpu |-> Zero]
  /\ irq_off = {}
  /\ section = [c \in Cpu |-> "none"]

-----------------------------------------------------------------------------
(* password_store.                                                         *)

\* Mutant: one iteration too many.
LoopHead_late(n) == IF n <= KdfIter THEN "first" ELSE "ipi"

\* The head of the loop of the key derivation.
LoopHead(n) == IF n < KdfIter THEN "first" ELSE "ipi"

password_store(w) ==
  /\ wpc[w] = "out"
  /\ \E p \in Password : key' = [key EXCEPT ![w] = <<p, 1>>]
  /\ i' = [i EXCEPT ![w] = 0]
  /\ wpc' = [wpc EXCEPT ![w] = LoopHead(0)]
  /\ UNCHANGED <<key_hash, todo, db, rkeys, irq_off, section>>

\* The static array key_hash holds the intermediate results.
HashToKeyHash(w) ==
  /\ wpc[w] = "first"
  /\ key_hash' = bispe_sha256(key[w])
  /\ wpc' = [wpc EXCEPT ![w] = "second"]
  /\ UNCHANGED <<i, key, todo, db, rkeys, irq_off, section>>

HashToKey(w) ==
  /\ wpc[w] = "second"
  /\ key' = [key EXCEPT ![w] = bispe_sha256(key_hash)]
  /\ i' = [i EXCEPT ![w] = i[w] + 1]
  /\ wpc' = [wpc EXCEPT ![w] = LoopHead(i[w] + 1)]
  /\ UNCHANGED <<key_hash, todo, db, rkeys, irq_off, section>>

on_each_cpu(w) ==
  /\ wpc[w] = "ipi"
  /\ todo' = [todo EXCEPT ![w] = Cpu]
  /\ wpc' = [wpc EXCEPT ![w] = "wait"]
  /\ UNCHANGED <<key_hash, i, key, db, rkeys, irq_off, section>>

\* Runs on cpu c as soon as its interrupts are on, with the address of key.
setkey_current_cpu(w, c) ==
  /\ c \in todo[w]
  /\ c \notin irq_off
  /\ db' = [db EXCEPT ![c] = key[w]]
  /\ todo' = [todo EXCEPT ![w] = @ \ {c}]
  /\ UNCHANGED <<key_hash, wpc, i, key, rkeys, irq_off, section>>

\* Mutant: on_each_cpu does not wait for the other cpus.
PublishHash_early(w) ==
  /\ wpc[w] = "wait"
  /\ key_hash' = bispe_sha256(key[w])
  /\ wpc' = [wpc EXCEPT ![w] = "reset"]
  /\ UNCHANGED <<i, key, todo, db, rkeys, irq_off, section>>

\* on_each_cpu returns when every cpu has the key.
PublishHash(w) ==
  /\ wpc[w] = "wait"
  /\ todo[w] = {}
  /\ key_hash' = bispe_sha256(key[w])
  /\ wpc' = [wpc EXCEPT ![w] = "reset"]
  /\ UNCHANGED <<i, key, todo, db, rkeys, irq_off, section>>

ResetMemory(w) ==
  /\ wpc[w] = "reset"
  /\ key' = [key EXCEPT ![w] = Zero]
  /\ wpc' = [wpc EXCEPT ![w] = "out"]
  /\ UNCHANGED <<key_hash, i, todo, db, rkeys, irq_off, section>>

-----------------------------------------------------------------------------
(* The critical section of encrypt_code and of an interpreter cycle.  How  *)
(* many blocks or instructions it handles does not matter here.            *)

\* Mutant: interrupts stay on.
local_irq_save_missing(c) ==
  /\ section[c] = "none"
  /\ section' = [section EXCEPT ![c] = "gen"]
  /\ UNCHANGED <<writervars, db, rkeys, irq_off>>

local_irq_save(c) ==
  /\ section[c] = "none"
  /\ irq_off' = irq_off \cup {c}
  /\ section' = [section EXCEPT ![c] = "gen"]
  /\ UNCHANGED <<writervars, db, rkeys>>

bispe_gen_rkeys(c) ==
  /\ section[c] = "gen"
  /\ rkeys' = [rkeys EXCEPT ![c] = db[c]]
  /\ section' = [section EXCEPT ![c] = "use"]
  /\ UNCHANGED <<writervars, db, irq_off>>

\* Mutant: the registers are left as they are.
bispe_clear_regs_missing(c) ==
  /\ section[c] = "use"
  /\ section' = [section EXCEPT ![c] = "restore"]
  /\ UNCHANGED <<writervars, db, rkeys, irq_off>>

bispe_clear_regs(c) ==
  /\ section[c] = "use"
  /\ rkeys' = [rkeys EXCEPT ![c] = Zero]
  /\ section' = [section EXCEPT ![c] = "restore"]
  /\ UNCHANGED <<writervars, db, irq_off>>

\* Mutant: interrupts are not enabled again.
local_irq_restore_missing(c) ==
  /\ section[c] = "restore"
  /\ section' = [section EXCEPT ![c] = "none"]
  /\ UNCHANGED <<writervars, db, rkeys, irq_off>>

local_irq_restore(c) ==
  /\ section[c] = "restore"
  /\ irq_off' = irq_off \ {c}
  /\ section' = [section EXCEPT ![c] = "none"]
  /\ UNCHANGED <<writervars, db, rkeys>>

-----------------------------------------------------------------------------
Store(w) ==
  \/ HashToKeyHash(w) \/ HashToKey(w) \/ on_each_cpu(w) \/ PublishHash(w)
  \/ ResetMemory(w)

Section(c) == bispe_gen_rkeys(c) \/ bispe_clear_regs(c) \/ local_irq_restore(c)

Next ==
  \/ \E w \in Writer : password_store(w) \/ Store(w)
  \/ \E w \in Writer, c \in Cpu : setkey_current_cpu(w, c)
  \/ \E c \in Cpu : local_irq_save(c) \/ Section(c)

\* System calls and sections go on; a cpu handles a pending interrupt when
\* its interrupts are on, although another section may turn them off again.
\* Nobody has to set a password or to start a section.
Fairness ==
  /\ \A w \in Writer : WF_vars(Store(w))
  /\ \A w \in Writer, c \in Cpu : SF_vars(setkey_current_cpu(w, c))
  /\ \A c \in Cpu : WF_vars(Section(c))

Spec == Init /\ [][Next]_vars /\ Fairness

-----------------------------------------------------------------------------
(* Properties.                                                             *)

\* No call of password_store is under way.
Quiet == \A w \in Writer : wpc[w] = "out"

(***************************************************************************)
(* "Show the SHA256 hash of the key currently in use": when no password is *)
(* being set, every cpu has the same key and key_hash is its hash.         *)
(***************************************************************************)
HashOfKeyInUse ==
  Quiet /\ key_hash # Zero => \A c \in Cpu : /\ db[c] # Zero
                                             /\ key_hash = bispe_sha256(db[c])

(***************************************************************************)
(* A cpu never has a key that is not derived from a password with all the  *)
(* iterations of password_store, not even while passwords are being set.   *)
(***************************************************************************)
FullyDerived == \A c \in Cpu : db[c] # Zero => db[c][2] = 2 * KdfIter + 1

(***************************************************************************)
(* The key does not change under a section: from bispe_gen_rkeys on, the   *)
(* round keys are those of the key in the debug registers, so the blocks   *)
(* of a buffer or a cycle are encrypted under the cpu's current key.       *)
(***************************************************************************)
SectionKeyCurrent == \A c \in Cpu : section[c] = "use" => rkeys[c] = db[c]

(***************************************************************************)
(* Round keys are in registers only while interrupts are off: whatever     *)
(* interrupts encrypt_code or start_interpreter, and could save registers  *)
(* to memory, finds them cleared.                                          *)
(***************************************************************************)
RegistersClean == \A c \in Cpu : c \notin irq_off => rkeys[c] = Zero

(***************************************************************************)
(* Setting a password ends: every cpu's section ends and lets the          *)
(* interrupt of on_each_cpu in, so password_store is not left waiting.     *)
(***************************************************************************)
StoreReturns == \A w \in Writer : wpc[w] = "wait" ~> wpc[w] = "out"
=============================================================================
