------------------------------- MODULE Driver -------------------------------
(***************************************************************************)
(* The compiler as a process, from its command line to its exit.  main of  *)
(* compiler.c is a chain of phases with one label of its cleanup code for  *)
(* each.  live is the set of what has been allocated.  The text of the     *)
(* source file matters here only by its length; its tokens are given       *)
(* (Lexer is about how they are found).                                    *)
(*                                                                         *)
(* What the phases in between compute are constants here.  Compiler gives  *)
(* them the parser of Parser and the generator of Generator and runs the   *)
(* programs that come out.                                                 *)
(***************************************************************************)
EXTENDS Bytecode, Sequences

CONSTANTS
  Jobs,                \* command line, tokens and length of the source, arguments
  FileBufsize,         \* FILE_BUFSIZE
  NoTree,              \* the NULL of parse_tokenlist
  ParseTokens(_),      \* parse_tokenlist, of a list of tokens
  GenerateCode(_, _),  \* generate_code, of a tree and the table of functions
  WordsOf(_)           \* the words of a list of instructions

\* The code of a job that parses is written as words.
ASSUME DriverAssumption ==
  /\ FileBufsize \in Nat
  /\ \A j \in Jobs :
       LET r == ParseTokens(j.toks)
       IN r.st.stopped = "no" /\ r.node # NoTree =>
            WordsOf(GenerateCode(r.node, r.st.funcs)) \in Seq(WordJ)

VARIABLES
  job,                    \* what is compiled, never changed
  phase,                  \* where main is; "run" when its output is executed
  rpos, rsize,            \* pos and size of read_file
  live,                   \* what main has allocated and not freed
  freed_twice,            \* something was freed that was not allocated
  parsed,                 \* the result of parse_tokenlist
  code,                   \* the list of instructions
  buf,                    \* the buffer of build_codebuf
  encrypted,              \* the backend has encrypted buf
  file,                   \* the output file: "none", "plain" or "cipher"
  res                     \* the exit status

compvars == <<job, phase, rpos, rsize, live, freed_twice, parsed, code, buf,
              encrypted, file, res>>

NotParsed == [node |-> NoTree, funcs |-> << >>, errs |-> {}, stopped |-> "no"]
NoBuffer == [words |-> << >>, room |-> 0]

DriverInit ==
  /\ job \in Jobs
  /\ phase = "options"
  /\ rpos = 0 /\ rsize = FileBufsize + 1
  /\ live = {}
  /\ freed_twice = FALSE
  /\ parsed = NotParsed
  /\ code = << >>
  /\ buf = NoBuffer
  /\ encrypted = FALSE
  /\ file = "none"
  /\ res = 1

-----------------------------------------------------------------------------
(* build_codebuf.  Random data is Junk.                                    *)

Random(n) == [k \in 1 .. n |-> Junk]

\* Mutant: a size that is already a multiple of 4 is not rounded.
BufSize_exact(size) == size + ((4 - (size % 4)) % 4)

\* The words allocated for the code and its FINISH.
BufSize(size) == size + (4 - (size % 4))

\* What is written to the buffer, and its size without the init vector.
\* Writing fills it exactly unless the size is too small.
build_codebuf(program) ==
  LET words == program \o <<INSTR_FINISH>>
      room == BufSize(Len(program))
  IN [words |-> words \o Random(room - Len(words)), room |-> room]

-----------------------------------------------------------------------------
(* main.                                                                   *)

At(p) == phase = p /\ UNCHANGED job
GoTo(p) == phase' = p
Alloc(x) == live' = live \cup {x} /\ UNCHANGED freed_twice

ParseOptions ==
  /\ At("options")
  /\ GoTo(IF job.usage THEN "out" ELSE "open")
  /\ UNCHANGED <<rpos, rsize, live, freed_twice, parsed, code, buf, encrypted, file, res>>

\* fopen and the malloc of read_file.
OpenInfile ==
  /\ At("open")
  /\ \/ GoTo("out") /\ UNCHANGED <<live, freed_twice>>
     \/ GoTo("read") /\ Alloc("text")
  /\ UNCHANGED <<rpos, rsize, parsed, code, buf, encrypted, file, res>>

\* Mutant: the buffer grows one character too late.
Grow_late(pos, size) == IF pos > size THEN size * 2 ELSE size

\* The size of the buffer when pos characters have been written to it.
Grow(pos, size) == IF pos = size THEN size * 2 ELSE size

\* One turn of the loop of read_file; realloc can fail.
ReadChar ==
  /\ At("read")
  /\ rpos < job.chars
  /\ rpos' = rpos + 1
  /\ rsize' = Grow(rpos + 1, rsize)
  /\ \/ GoTo("read") /\ UNCHANGED live
     \/ rsize' # rsize /\ GoTo("out") /\ live' = live \ {"text"}
  /\ UNCHANGED <<freed_twice, parsed, code, buf, encrypted, file, res>>

ReadEnd ==
  /\ At("read")
  /\ rpos = job.chars
  /\ \/ GoTo("tokenize") /\ UNCHANGED live
     \/ GoTo("out") /\ live' = live \ {"text"}
  /\ UNCHANGED <<rpos, rsize, freed_twice, parsed, code, buf, encrypted, file, res>>

Tokenize ==
  /\ At("tokenize")
  /\ \/ GoTo("out") /\ live' = live \ {"text"}
     \/ GoTo("parse") /\ live' = (live \ {"text"}) \cup {"tokens"}
  /\ UNCHANGED <<rpos, rsize, freed_twice, parsed, code, buf, encrypted, file, res>>

\* Mutant: the tokens are forgotten when the parser fails.
ParseTarget_leak(node) == IF node = NoTree THEN "out" ELSE "generate"

ParseTarget(node) == IF node = NoTree THEN "parser_out" ELSE "generate"

Symbols(funcs) == IF DOMAIN funcs = {} THEN {} ELSE {"symbols"}

Parse ==
  /\ At("parse")
  /\ LET r == ParseTokens(job.toks)
     IN /\ parsed' = [node |-> r.node, funcs |-> r.st.funcs, errs |-> r.st.errs,
                      stopped |-> r.st.stopped]
        /\ GoTo(IF r.st.stopped # "no" THEN "killed" ELSE ParseTarget(r.node))
        /\ live' = live \cup Symbols(r.st.funcs)
                        \cup (IF r.node = NoTree THEN {} ELSE {"ast"})
  /\ UNCHANGED <<rpos, rsize, freed_twice, code, buf, encrypted, file, res>>

\* generate_code, and print_code if the code is only to be shown.
Generate ==
  /\ At("generate")
  /\ code' = GenerateCode(parsed.node, parsed.funcs)
  /\ IF code' = << >> THEN GoTo("generator_out") /\ UNCHANGED <<live, freed_twice>>
     ELSE GoTo(IF job.show THEN "buf_build_out" ELSE "build") /\ Alloc("code")
  /\ UNCHANGED <<rpos, rsize, parsed, buf, encrypted, file, res>>

\* build_codebuf fails for want of memory or of random data, after it has
\* freed what it allocated.
Build ==
  /\ At("build")
  /\ \/ GoTo("buf_build_out") /\ UNCHANGED <<live, freed_twice, buf>>
     \/ GoTo("encrypt") /\ Alloc("buf") /\ buf' = build_codebuf(WordsOf(code))
  /\ UNCHANGED <<rpos, rsize, parsed, code, encrypted, file, res>>

\* What write_sys can return: -1 if the file cannot be opened or written, 0
\* if encrypt_code refuses, else the size of the buffer, which encrypt_code
\* has then overwritten.
write_sys == {"cannot open", "refused", "encrypted"}

\* Mutant: a refused buffer is taken for an encrypted one.
CryptoFailed_open(result) == result = "cannot open"

CryptoFailed(result) == result \in {"cannot open", "refused"}

Encrypt ==
  /\ At("encrypt")
  /\ IF job.unencrypted THEN GoTo("write") /\ UNCHANGED encrypted
     ELSE \E result \in write_sys :
            /\ encrypted' = (result = "encrypted")
            /\ GoTo(IF CryptoFailed(result) THEN "outfile_out" ELSE "write")
  /\ UNCHANGED <<rpos, rsize, live, freed_twice, parsed, code, buf, file, res>>

\* build_outfile_name, write_outfile and the release of the name.  What
\* fwrite returns is not looked at.
WriteOutfile ==
  /\ At("write")
  /\ \/ ~job.has_o /\ UNCHANGED <<file, res>>     \* no memory for the name
     \/ UNCHANGED <<file, res>>                   \* fopen fails
     \/ file' = (IF encrypted THEN "cipher" ELSE "plain") /\ res' = 0
  /\ GoTo("outfile_out")
  /\ UNCHANGED <<rpos, rsize, live, freed_twice, parsed, code, buf, encrypted>>

\* The labels at the end of main: what each frees, and the label below it.
Free(label) ==
  CASE label = "outfile_out" -> {"buf"}
    [] label = "buf_build_out" -> {"code"}
    [] label = "generator_out" -> {"ast"}
    [] label = "parser_out" -> {"tokens"}
Below(label) ==
  CASE label = "outfile_out" -> "buf_build_out"
    [] label = "buf_build_out" -> "generator_out"
    [] label = "generator_out" -> "parser_out"
    [] label = "parser_out" -> "out"

\* cleanup_symbols frees the tables, if there are any.
Cleanup(label) ==
  /\ At(label)
  /\ freed_twice' = (freed_twice \/ ~(Free(label) \subseteq live))
  /\ live' = live \ (Free(label) \cup (IF label = "parser_out" THEN {"symbols"} ELSE {}))
  /\ GoTo(Below(label))
  /\ UNCHANGED <<rpos, rsize, parsed, code, buf, encrypted, file, res>>

\* The output file is given to the interpreter.
StartOutput ==
  /\ At("out")
  /\ file # "none"
  /\ GoTo("run")
  /\ UNCHANGED <<rpos, rsize, live, freed_twice, parsed, code, buf, encrypted, file, res>>

Compile ==
  \/ ParseOptions \/ OpenInfile \/ ReadChar \/ ReadEnd \/ Tokenize \/ Parse
  \/ Generate \/ Build \/ Encrypt \/ WriteOutfile
  \/ \E label \in {"outfile_out", "buf_build_out", "generator_out", "parser_out"} :
       Cleanup(label)

DriverSpec == DriverInit /\ [][Compile \/ StartOutput]_compvars

-----------------------------------------------------------------------------
(* Properties.                                                             *)

(***************************************************************************)
(* The buffers fit: read_file keeps within its own, the terminator behind  *)
(* the last character included, and build_codebuf writes exactly the words *)
(* it allocated: whole lines, with a FINISH behind the last instruction.   *)
(***************************************************************************)
BuffersFit ==
  /\ phase \in {"read", "tokenize"} => rpos < rsize
  /\ phase = "encrypt" => Len(buf.words) = buf.room /\ buf.room % 4 = 0

(***************************************************************************)
(* Whatever fails and wherever, main frees everything it allocated and     *)
(* nothing else.                                                           *)
(***************************************************************************)
CleanupExact == phase = "out" => live = {} /\ ~freed_twice

(***************************************************************************)
(* Unless the user asks for it, no output file has readable code.          *)
(***************************************************************************)
NoPlaintextFile == file = "plain" => job.unencrypted
=============================================================================
