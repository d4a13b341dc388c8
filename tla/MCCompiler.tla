------------------------------ MODULE MCCompiler ------------------------------
(***************************************************************************)
(* Source programs for model checking Compiler.  A program is written as a *)
(* sequence of lexemes.                                                    *)
(***************************************************************************)
EXTENDS Compiler

Names == "main" :> <<"m", "a", "i", "n">> @@ "f" :> <<"f">> @@ "g" :> <<"g">>
         @@ "a" :> <<"a">> @@ "b" :> <<"b">>
Numbers == "0" :> <<"0">> @@ "1" :> <<"1">> @@ "2" :> <<"2">> @@ "3" :> <<"3">>
           @@ "017" :> <<"0", "1", "7">> @@ "0xa" :> <<"0", "x", "a">>
           @@ "999" :> <<"9", "9", "9">> @@ "LAST" :> <<"3", "5">>
Signs ==
  "void" :> "TOK_VOID" @@ "int" :> "TOK_INT" @@ "if" :> "TOK_IF" @@
  "else" :> "TOK_ELSE" @@ "while" :> "TOK_WHILE" @@ "for" :> "TOK_FOR" @@
  "do" :> "TOK_DO" @@ "return" :> "TOK_RETURN" @@ "print" :> "TOK_PRINT" @@
  "==" :> "TOK_EQEQ" @@ "!=" :> "TOK_NEQ" @@ "<" :> "TOK_LT" @@
  "<=" :> "TOK_LE" @@ ">" :> "TOK_GT" @@ ">=" :> "TOK_GE" @@ "=" :> "TOK_EQ" @@
  "/" :> "TOK_SLASH" @@ singles

Lex(s) == IF s \in DOMAIN Names THEN Tok("TOK_IDENTIFIER", Names[s])
          ELSE IF s \in DOMAIN Numbers THEN Tok("TOK_INTLITERAL", Numbers[s])
          ELSE Tok(Signs[s], NoText)
Source(lexemes) ==
  Append([k \in DOMAIN lexemes |-> Lex(lexemes[k])], Tok("TOK_EOF", NoText))

\* A compilation of a program to an unencrypted file, and its run.
Job(lexemes, args) ==
  [usage |-> FALSE, show |-> FALSE, unencrypted |-> TRUE, has_o |-> TRUE,
   chars |-> 0, toks |-> Source(lexemes), argv |-> args]

-----------------------------------------------------------------------------
(* Short words in the place of a statement, an expression or an argument   *)
(* list: most of them are no programs.                                     *)

Probe(alphabet, n) == UNION {[1 .. k -> alphabet] : k \in 0 .. n}

Callee == <<"int", "f", "(", "int", "a", ")", "{", "return", "a", "+", "1", ";", "}">>
MainHead == <<"void", "main", "(", "void", ")", "{">>

StatementProbes ==
  { MainHead \o <<"int", "a", ";">> \o p \o <<"}">> :
      p \in Probe({"int", "a", "=", "1", ";", "print", "return"}, 4) }
ExprProbes ==
  { Callee \o MainHead \o <<"print">> \o p \o <<";", "}">> :
      p \in Probe({"f", "(", ")", "2", "-", ","}, 4) }
HeadProbes ==
  { <<"int", "f", "(">> \o p \o MainHead \o <<"}">> :
      p \in Probe({"(", ")", "void", "int", "a", ",", ";"}, 4) }

-----------------------------------------------------------------------------
(* Programs that run.                                                      *)

\* Two functions in front of main: one with two arguments and a local, one
\* that is recursive and calls the first with nested calls as arguments.
Two == <<"int", "f", "(", "int", "a", ",", "int", "b", ")", "{",
           "int", "g", "=", "a", "*", "3", ";", "return", "g", "-", "b", ";", "}">>
Rec == <<"int", "g", "(", "int", "a", ")", ";">>
       \o <<"int", "g", "(", "int", "a", ")", "{",
              "if", "(", "a", "<=", "0", ")", "{", "return", "1", ";", "}",
              "print", "a", ";",
              "return", "f", "(", "g", "(", "a", "-", "1", ")", ",", "a", ")", ";", "}">>

Args == {<<"1">>, <<"-", "2">>, <<"a">>, <<"f", "(", "a", ",", "2", ")">>,
         <<"(", "3", "-", "a", ")", "-", "1">>, <<"0xa", "%", "a">>}
CallBodies ==
  { <<"print", "f", "(">> \o x \o <<",">> \o y \o <<")", ";">> : x, y \in Args }
  \cup { <<"int", "b", "=">> \o x \o <<";", "print", "b", "-", "g", "(", "2", ")", ";">> :
           x \in Args }
  \cup { <<"int", "b", "=", "2", ";", "print", "f", "(", "1", ",", "a", ")", "-", "b", ";",
           "print", "g", "(", "1", ")", ";">> }
CallPrograms ==
  { Two \o Rec \o <<"int", "main", "(", "int", "a", ")", "{">> \o b
        \o <<"return", "a", ";", "}">> : b \in CallBodies }

Cond == { <<"a", op, y>> : op \in {"==", "!=", "<", "<=", ">", ">="},
                           y \in {"b", "0", "2"} }
Step == <<"a", "=", "a", "-", "1">>
Show(x) == <<"print", x, ";">>
LoopBodies(c) ==
  { <<"if", "(">> \o c \o <<")", "{">> \o Show("a") \o <<"}", "else", "{">> \o Show("b")
      \o <<"}">> \o Show("3"),
    <<"if", "(">> \o c \o <<")", "{">> \o Show("a") \o <<"}">> \o Show("2"),
    <<"while", "(">> \o c \o <<")", "{">> \o Show("a") \o Step \o <<";", "}">>,
    <<"for", "(", "a", "=", "2", ";">> \o c \o <<";">> \o Step \o <<")", "{">> \o Show("a")
      \o <<"}">>,
    <<"do", "{">> \o Show("a") \o Step \o <<";", "}", "while", "(">> \o c \o <<")", ";">> }
LoopPrograms ==
  { <<"void", "main", "(", "int", "a", ",", "int", "b", ")", "{">> \o l \o <<"}">> :
      l \in UNION {LoopBodies(c) : c \in Cond} }

\* Functions that end in a branch with a return.
Open(tail) ==
  <<"void", "f", "(", "int", "a", ")", "{", "if", "(", "a", "==", "1", ")", "{",
    "return", ";", "}">> \o tail \o <<"}">>
OpenPrograms ==
  { Open(t) \o <<"void", "g", "(", "void", ")", "{">> \o Show("3") \o <<"}">>
      \o <<"void", "main", "(", "int", "a", ")", "{", "f", "(", "a", ")", ";">>
      \o Show("2") \o <<"}">> : t \in {<< >>, Show("1")} }

\* The same with a local: the RET of g takes it for a return address, here the
\* last word of the code, which is random.
WildPrograms ==
  { <<"void", "f", "(", "int", "a", ")", "{", "int", "b", "=", "LAST", ";",
      "if", "(", "a", "==", "2", ")", "{", "return", ";", "}", "}",
      "void", "g", "(", "void", ")", "{", "print", "3", ";", "}">>
      \o MainHead \o <<"f", "(", "1", ")", ";", "}">> }

\* Errors, early ends, unresolved calls, and calls, argument lists and loops
\* as grammar.txt has them.
OddPrograms ==
  { <<"print", "1", ";">>,
    <<"int", "f", "(", "int", ")", ";">>,
    <<"int", "f", "(", "a", ",", "int", "b", ")", ";">>,
    Callee \o MainHead \o <<"print", "f", "(", "1", ",", ")", ";", "}">>,
    MainHead \o <<"for", "(", "int", "a", "=", "1", "a", "<", "2", "a", "=", "1", ")",
                  "{", "print", "a", ";", "}", "}">>,
    <<"int", "f", "(", "int", "a", ")", "{", "}">>,
    MainHead \o <<"print", "999", ";", "}">>,
    MainHead \o <<"print", "f", "(", ")", ";", "}">>,
    MainHead \o <<"print", "a", ";", "}">>,
    MainHead \o <<"return", "1", ";", "}">>,
    MainHead \o <<"print", "1", "/", "0", ";", "}">>,
    Callee \o Callee,
    Callee \o MainHead \o <<"f", "(", "1", ")", ";", "print", "017", ";", "}">>,
    <<"int", "f", "(", "int", "a", ")", ";">> \o MainHead
      \o <<"print", "f", "(", "1", ")", ";", "}">> \o Callee,
    <<"int", "f", "(", "int", "b", ")", ";">> \o Callee,
    <<"int", "f", "(", "int", "a", ",", "int", "a", ")", "{", "}">> }

ProbeJobs == { Job(p, << >>) : p \in StatementProbes \cup ExprProbes \cup HeadProbes }
RunJobs ==
  { Job(p, <<3>>) : p \in CallPrograms } \cup { Job(p, <<2, 1>>) : p \in LoopPrograms }
  \cup { Job(p, <<1>>) : p \in OddPrograms \cup OpenPrograms \cup WildPrograms }
OptionJobs ==
  { [usage |-> u, show |-> s, unencrypted |-> e, has_o |-> o, chars |-> n,
     toks |-> Source(p), argv |-> << >>] :
      u, s, e, o \in BOOLEAN, n \in 0 .. 5, p \in {MainHead \o <<"}">>, Callee} }

AllJobs == ProbeJobs \cup RunJobs \cup OptionJobs
OpenJobs == { Job(p, <<x>>) : p \in OpenPrograms, x \in {1, 2} }
=============================================================================
