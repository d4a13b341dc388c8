---------------------------- MODULE DriverProofs ----------------------------
(***************************************************************************)
(* Proofs about Driver, for every set of jobs, every parser and generator  *)
(* and every size of the file buffer.                                      *)
(***************************************************************************)
EXTENDS Driver, TLAPS

Labels == {"outfile_out", "buf_build_out", "generator_out", "parser_out"}

\* The tree, and the symbol tables if the parser has made some.
Tree == {"tokens", "ast"} \cup Symbols(parsed.funcs)

\* What main holds in a phase; a process the parser has brought down ("killed")
\* frees nothing any more.
Held ==
  CASE phase \in {"options", "open", "out", "run"} -> {}
    [] phase \in {"read", "tokenize"} -> {"text"}
    [] phase = "parse" -> {"tokens"}
    [] phase \in {"generate", "generator_out"} -> Tree
    [] phase \in {"build", "buf_build_out"} -> Tree \cup {"code"}
    [] phase \in {"encrypt", "write", "outfile_out"} -> Tree \cup {"code", "buf"}
    [] phase = "parser_out" -> {"tokens"} \cup Symbols(parsed.funcs)
    [] OTHER -> live

\* Everything that is held is freed once, by the labels still ahead.
HeldOK == live = Held /\ ~freed_twice

\* Only what may be readable is on its way to the file.
SecretOK ==
  /\ phase = "write" => encrypted \/ job.unencrypted
  /\ NoPlaintextFile

\* read_file has room for one more character.
ReadOK ==
  /\ rpos \in Nat /\ rsize \in Nat
  /\ phase \in {"options", "open", "read", "tokenize"} => rpos < rsize

\* The tree and the code are those of the job.
ProgramOK ==
  LET r == ParseTokens(job.toks)
  IN /\ job \in Jobs
     /\ phase \in {"generate", "build"} =>
          /\ r.st.stopped = "no" /\ r.node # NoTree
          /\ parsed.node = r.node /\ parsed.funcs = r.st.funcs
     /\ phase = "build" => code = GenerateCode(r.node, r.st.funcs)
     /\ phase = "encrypt" => Len(buf.words) = buf.room /\ buf.room % 4 = 0

Inv == HeldOK /\ SecretOK /\ ReadOK /\ ProgramOK

-----------------------------------------------------------------------------
(* The buffers.                                                            *)

\* build_codebuf fills whole lines, and the FINISH has its word also if the
\* code already fills its last line.
LEMMA BufferExact ==
  ASSUME NEW program \in Seq(WordJ)
  PROVE  LET b == build_codebuf(program)
         IN Len(b.words) = b.room /\ b.room % 4 = 0 /\ b.room > Len(program)
<1> DEFINE n == Len(program)
           words == program \o <<INSTR_FINISH>>
           room == BufSize(n)
           fill == Random(room - Len(words))
<1>1. n \in Nat
  OBVIOUS
<1>2. room \in Nat /\ room % 4 = 0 /\ room >= n + 1
  BY <1>1 DEF BufSize
<1>3. words \in Seq(WordJ \cup {INSTR_FINISH}) /\ Len(words) = n + 1
  <2>1. program \in Seq(WordJ \cup {INSTR_FINISH})
    OBVIOUS
  <2>2. <<INSTR_FINISH>> \in Seq(WordJ \cup {INSTR_FINISH}) /\ Len(<<INSTR_FINISH>>) = 1
    OBVIOUS
  <2> QED
    BY <2>1, <2>2
<1>4. room - Len(words) \in Nat
  BY <1>1, <1>2, <1>3
<1>5. fill \in Seq({Junk}) /\ Len(fill) = room - Len(words)
  BY <1>4 DEF Random
<1>6. Len(words \o fill) = room
  <2>1. words \in Seq(WordJ \cup {INSTR_FINISH, Junk})
    BY <1>3
  <2>2. fill \in Seq(WordJ \cup {INSTR_FINISH, Junk})
    BY <1>5
  <2>3. Len(words \o fill) = Len(words) + Len(fill)
    BY <2>1, <2>2
  <2> QED
    BY <1>2, <1>3, <1>5, <2>3
<1>7. build_codebuf(program) = [words |-> words \o fill, room |-> room]
  BY DEF build_codebuf
<1> QED
  BY <1>1, <1>2, <1>6, <1>7

\* read_file doubles its buffer when the last word of it has been written.
LEMMA GrowOK ==
  ASSUME NEW pos \in Nat, NEW size \in Nat, pos < size
  PROVE  Grow(pos + 1, size) \in Nat /\ pos + 1 < Grow(pos + 1, size)
  BY DEF Grow

-----------------------------------------------------------------------------
(* What is held.                                                           *)

\* The first phases hold what they allocate.
LEMMA ReadHolds ==
  ASSUME HeldOK, ParseOptions \/ OpenInfile \/ ReadChar \/ ReadEnd \/ Tokenize
  PROVE  HeldOK'
<1>1. CASE ParseOptions
  BY <1>1 DEF ParseOptions, HeldOK, Held, At, GoTo
<1>2. CASE OpenInfile
  BY <1>2 DEF OpenInfile, HeldOK, Held, At, GoTo, Alloc
<1>3. CASE ReadChar
  BY <1>3 DEF ReadChar, HeldOK, Held, At, GoTo
<1>4. CASE ReadEnd
  BY <1>4 DEF ReadEnd, HeldOK, Held, At, GoTo
<1>5. CASE Tokenize
  BY <1>5 DEF Tokenize, HeldOK, Held, At, GoTo
<1> QED
  BY <1>1, <1>2, <1>3, <1>4, <1>5

\* The parser leaves its tables behind even if it fails.
LEMMA ParseHolds ==
  ASSUME HeldOK, Parse PROVE HeldOK'
<1> DEFINE r == ParseTokens(job.toks)
<1>1. /\ phase = "parse" /\ live = {"tokens"} /\ ~freed_twice
      /\ parsed' = [node |-> r.node, funcs |-> r.st.funcs, errs |-> r.st.errs,
                    stopped |-> r.st.stopped]
      /\ phase' = (IF r.st.stopped # "no" THEN "killed" ELSE ParseTarget(r.node))
      /\ live' = live \cup Symbols(r.st.funcs)
                      \cup (IF r.node = NoTree THEN {} ELSE {"ast"})
      /\ freed_twice' = freed_twice
  BY DEF Parse, HeldOK, Held, At, GoTo
<1>2. Symbols(parsed.funcs)' = Symbols(r.st.funcs)
  BY <1>1 DEF Symbols
<1>3. CASE r.st.stopped # "no"
  BY <1>1, <1>3 DEF HeldOK, Held
<1>4. CASE r.st.stopped = "no" /\ r.node = NoTree
  BY <1>1, <1>2, <1>4 DEF HeldOK, Held, ParseTarget
<1>5. CASE r.st.stopped = "no" /\ r.node # NoTree
  BY <1>1, <1>2, <1>5 DEF HeldOK, Held, ParseTarget, Tree
<1> QED
  BY <1>3, <1>4, <1>5

\* Every failure behind the parser goes to the label that frees what has been
\* allocated until then.
LEMMA GenerateHolds ==
  ASSUME HeldOK, Generate \/ Build \/ Encrypt \/ WriteOutfile
  PROVE  HeldOK'
<1> USE DEF HeldOK, Held, At, GoTo, Alloc, Tree
<1>1. CASE Generate
  BY <1>1 DEF Generate
<1>2. CASE Build
  BY <1>2 DEF Build
<1>3. CASE Encrypt
  BY <1>3 DEF Encrypt, CryptoFailed
<1>4. CASE WriteOutfile
  BY <1>4 DEF WriteOutfile
<1> QED
  BY <1>1, <1>2, <1>3, <1>4

\* A label frees what it is there for, and falls through to the next one.
LEMMA CleanupHolds ==
  ASSUME HeldOK, NEW label \in Labels, Cleanup(label) PROVE HeldOK'
<1>1. /\ phase = label /\ phase' = Below(label) /\ parsed' = parsed
      /\ freed_twice' = (freed_twice \/ ~(Free(label) \subseteq live))
      /\ live' = live \ (Free(label)
                         \cup (IF label = "parser_out" THEN {"symbols"} ELSE {}))
  BY DEF Cleanup, At, GoTo
<1>2. Symbols(parsed.funcs) \subseteq {"symbols"}
  BY DEF Symbols
<1>3. Tree' = Tree /\ Symbols(parsed.funcs)' = Symbols(parsed.funcs)
  BY <1>1 DEF Tree, Symbols
<1>4. CASE label = "outfile_out"
  BY <1>1, <1>2, <1>3, <1>4 DEF HeldOK, Held, Free, Below, Tree
<1>5. CASE label = "buf_build_out"
  BY <1>1, <1>2, <1>3, <1>5 DEF HeldOK, Held, Free, Below, Tree
<1>6. CASE label = "generator_out"
  BY <1>1, <1>2, <1>3, <1>6 DEF HeldOK, Held, Free, Below, Tree
<1>7. CASE label = "parser_out"
  BY <1>1, <1>2, <1>3, <1>7 DEF HeldOK, Held, Free, Below
<1> QED
  BY <1>4, <1>5, <1>6, <1>7 DEF Labels

\* All steps together.
LEMMA StepHolds ==
  ASSUME HeldOK, [Compile \/ StartOutput]_compvars PROVE HeldOK'
<1>1. CASE Compile
  BY <1>1, ReadHolds, ParseHolds, GenerateHolds, CleanupHolds DEF Compile, Labels
<1>2. CASE StartOutput
  BY <1>2 DEF StartOutput, HeldOK, Held, At, GoTo
<1>3. CASE UNCHANGED compvars
  BY <1>3 DEF compvars, HeldOK, Held, Tree, Symbols
<1> QED
  BY <1>1, <1>2, <1>3

-----------------------------------------------------------------------------
(* The other parts of the invariant.                                       *)

\* Only Encrypt and the option u lead to "write", and only "write" leads to a
\* file.
LEMMA StepSecret ==
  ASSUME SecretOK, [Compile \/ StartOutput]_compvars PROVE SecretOK'
<1> USE DEF SecretOK, NoPlaintextFile, At, GoTo
<1>1. CASE ParseOptions \/ OpenInfile \/ ReadChar \/ ReadEnd \/ Tokenize
  BY <1>1 DEF ParseOptions, OpenInfile, ReadChar, ReadEnd, Tokenize
<1>2. CASE Parse
  BY <1>2 DEF Parse, ParseTarget
<1>3. CASE Generate \/ Build
  BY <1>3 DEF Generate, Build
<1>4. CASE Encrypt
  BY <1>4 DEF Encrypt, CryptoFailed, write_sys
<1>5. CASE WriteOutfile
  BY <1>5 DEF WriteOutfile
<1>6. ASSUME NEW label \in Labels, Cleanup(label) PROVE SecretOK'
  BY <1>6 DEF Cleanup, Below, Labels
<1>7. CASE StartOutput
  BY <1>7 DEF StartOutput
<1>8. CASE UNCHANGED compvars
  BY <1>8 DEF compvars
<1> QED
  BY <1>1, <1>2, <1>3, <1>4, <1>5, <1>6, <1>7, <1>8 DEF Compile, Labels

\* Only read_file moves in its buffer.
LEMMA StepRead ==
  ASSUME ReadOK, [Compile \/ StartOutput]_compvars PROVE ReadOK'
<1> USE DEF ReadOK, At, GoTo
<1>1. CASE ReadChar
  <2>1. /\ phase = "read" /\ rpos < rsize
        /\ rpos' = rpos + 1 /\ rsize' = Grow(rpos + 1, rsize)
    BY <1>1 DEF ReadChar
  <2> QED
    BY <2>1, GrowOK
<1>2. CASE ParseOptions \/ OpenInfile \/ ReadEnd \/ Tokenize
  BY <1>2 DEF ParseOptions, OpenInfile, ReadEnd, Tokenize
<1>3. CASE Parse
  BY <1>3 DEF Parse, ParseTarget
<1>4. CASE Generate \/ Build \/ Encrypt \/ WriteOutfile
  BY <1>4 DEF Generate, Build, Encrypt, WriteOutfile
<1>5. ASSUME NEW label \in Labels, Cleanup(label) PROVE ReadOK'
  BY <1>5 DEF Cleanup, Below, Labels
<1>6. CASE StartOutput
  BY <1>6 DEF StartOutput
<1>7. CASE UNCHANGED compvars
  BY <1>7 DEF compvars
<1> QED
  BY <1>1, <1>2, <1>3, <1>4, <1>5, <1>6, <1>7 DEF Compile, Labels

\* The parser is run once on the tokens of the job, the generator once on its
\* result, and build_codebuf on the words of that.
LEMMA StepProgram ==
  ASSUME ProgramOK, [Compile \/ StartOutput]_compvars PROVE ProgramOK'
<1> DEFINE r == ParseTokens(job.toks)
<1>1. CASE Parse
  <2>1. /\ job \in Jobs /\ job' = job /\ phase = "parse"
        /\ parsed' = [node |-> r.node, funcs |-> r.st.funcs, errs |-> r.st.errs,
                      stopped |-> r.st.stopped]
        /\ phase' = (IF r.st.stopped # "no" THEN "killed" ELSE ParseTarget(r.node))
    BY <1>1 DEF Parse, ProgramOK, At, GoTo
  <2>2. phase' = "generate" => r.st.stopped = "no" /\ r.node # NoTree
    BY <2>1 DEF ParseTarget
  <2>3. phase' # "build" /\ phase' # "encrypt"
    BY <2>1 DEF ParseTarget
  <2> QED
    BY <2>1, <2>2, <2>3 DEF ProgramOK
<1>2. CASE Generate
  <2>1. /\ job \in Jobs /\ job' = job /\ phase = "generate" /\ parsed' = parsed
        /\ code' = GenerateCode(parsed.node, parsed.funcs)
        /\ phase' \in {"generator_out", "buf_build_out", "build"}
    BY <1>2 DEF Generate, ProgramOK, At, GoTo
  <2> QED
    BY <2>1 DEF ProgramOK
<1>3. CASE Build
  <2>1. /\ job \in Jobs /\ job' = job /\ phase = "build"
        /\ \/ phase' = "buf_build_out"
           \/ phase' = "encrypt" /\ buf' = build_codebuf(WordsOf(code))
    BY <1>3 DEF Build, ProgramOK, At, GoTo
  <2>2. WordsOf(code) \in Seq(WordJ)
    BY <2>1, DriverAssumption DEF ProgramOK
  <2>3. phase' = "encrypt" => Len(buf'.words) = buf'.room /\ buf'.room % 4 = 0
    BY <2>1, <2>2, BufferExact
  <2> QED
    BY <2>1, <2>3 DEF ProgramOK
<1>4. CASE ParseOptions \/ OpenInfile \/ ReadChar \/ ReadEnd \/ Tokenize
  <2>1. job' = job /\ phase' \in {"out", "open", "read", "tokenize", "parse"}
    BY <1>4 DEF ParseOptions, OpenInfile, ReadChar, ReadEnd, Tokenize, At, GoTo
  <2> QED
    BY <2>1 DEF ProgramOK
<1>5. CASE Encrypt \/ WriteOutfile \/ StartOutput
  <2>1. job' = job /\ phase' \in {"write", "outfile_out", "run"}
    BY <1>5 DEF Encrypt, WriteOutfile, StartOutput, At, GoTo
  <2> QED
    BY <2>1 DEF ProgramOK
<1>6. ASSUME NEW label \in Labels, Cleanup(label) PROVE ProgramOK'
  <2>1. job' = job /\ phase' \in {"buf_build_out", "generator_out", "parser_out", "out"}
    BY <1>6 DEF Cleanup, Below, Labels, At, GoTo
  <2> QED
    BY <2>1 DEF ProgramOK
<1>7. CASE UNCHANGED compvars
  BY <1>7 DEF compvars, ProgramOK
<1> QED
  BY <1>1, <1>2, <1>3, <1>4, <1>5, <1>6, <1>7 DEF Compile, Labels

-----------------------------------------------------------------------------
(* The theorems.                                                           *)

\* main holds nothing when it starts.
LEMMA InitInv == DriverInit => Inv
  BY DriverAssumption
     DEF DriverInit, Inv, HeldOK, Held, SecretOK, NoPlaintextFile, ReadOK, ProgramOK

\* The invariant holds in every reachable state: what is held in each phase,
\* which parser result and code the phase works on, and what may be written.
THEOREM InvHolds == DriverSpec => []Inv
<1>1. Inv /\ [Compile \/ StartOutput]_compvars => Inv'
  BY StepHolds, StepSecret, StepRead, StepProgram DEF Inv
<1> QED
  BY <1>1, InitInv, PTL DEF DriverSpec

(***************************************************************************)
(* Whichever phase of main fails, the label it jumps to and the labels     *)
(* below it free exactly what has been allocated, and free it once.        *)
(***************************************************************************)
THEOREM FreedExactly == DriverSpec => []CleanupExact
<1>1. Inv => CleanupExact
  BY DEF Inv, HeldOK, Held, CleanupExact
<1> QED
  BY <1>1, InvHolds, PTL

(***************************************************************************)
(* Readable code is written to a file only for the option u: the three     *)
(* results of write_sys are told apart.                                    *)
(***************************************************************************)
THEOREM NothingReadable == DriverSpec => []NoPlaintextFile
<1>1. Inv => NoPlaintextFile
  BY DEF Inv, SecretOK
<1> QED
  BY <1>1, InvHolds, PTL

(***************************************************************************)
(* read_file stays in its buffer for a source of any length and any        *)
(* FILE_BUFSIZE, and build_codebuf fills what it allocated for any code.   *)
(***************************************************************************)
THEOREM Fits == DriverSpec => []BuffersFit
<1>1. Inv => BuffersFit
  BY DEF Inv, ReadOK, ProgramOK, BuffersFit
<1> QED
  BY <1>1, InvHolds, PTL
=============================================================================
