-------------------------- MODULE DocumentedGrammar ---------------------------
(***************************************************************************)
(* The grammar of compiler/grammar.txt, "the grammar the compiler accepts" *)
(* (README.md of the repository), rule by rule, and the corrections        *)
(* without which the compiler does not accept it.  It is a reference for   *)
(* the parser and shares nothing with the parser's table of productions.   *)
(*                                                                         *)
(* A rule is the set of its alternatives, and an alternative a sequence of *)
(* token types and names of rules.                                         *)
(***************************************************************************)
EXTENDS Sequences, Integers

\* "A, B" and "[A]" of the notation; "A | B" is the union.
A ** B == {a \o b : a \in A, b \in B}
Opt(A) == A \cup {<< >>}

Parens(rule) == {<<"TOK_OPENPA", rule, "TOK_CLOSEPA">>}
Braces(rule) == {<<"TOK_OPENBR", rule, "TOK_CLOSEBR">>}
OneOf(symbols) == {<<s>> : s \in symbols}

Documented ==
  [type |-> OneOf({"TOK_VOID", "TOK_INT"}),
   num_op |-> OneOf({"TOK_PLUS", "TOK_MINUS", "TOK_STAR", "TOK_SLASH", "TOK_PERCENT"}),
   bool_op |-> OneOf({"TOK_EQEQ", "TOK_NEQ", "TOK_GT", "TOK_LT", "TOK_LE", "TOK_GE"}),
   fcall_arglist |-> Opt({<<"expression", "TOK_COMMA">>} ** Opt({<<"fcall_arglist">>})),
   fcall |-> {<<"TOK_IDENTIFIER">>} ** Parens("fcall_arglist"),
   expression |-> (OneOf({"fcall", "TOK_IDENTIFIER"})
                     \cup (Opt({<<"TOK_MINUS">>}) ** {<<"TOK_INTLITERAL">>})
                     \cup Parens("expression"))
                  ** Opt({<<"num_op", "expression">>}),
   var_def |-> {<<"type", "TOK_IDENTIFIER">>} ** Opt({<<"TOK_EQ", "expression">>}),
   var_assign |-> {<<"TOK_IDENTIFIER", "TOK_EQ", "expression">>},
   print |-> {<<"TOK_PRINT", "expression">>},
   return |-> {<<"TOK_RETURN">>} ** Opt({<<"expression">>}),
   cond |-> {<<"expression", "bool_op", "expression">>},
   branch |-> {<<"TOK_IF">>} ** Parens("cond") ** Braces("sequence")
                ** Opt({<<"TOK_ELSE">>} ** Braces("sequence")),
   loop_head |-> OneOf({"var_def", "var_assign"}) ** {<<"cond", "var_assign">>},
   loop |-> ({<<"TOK_WHILE">>} ** Parens("cond") ** Braces("sequence"))
              \cup ({<<"TOK_FOR">>} ** Parens("loop_head") ** Braces("sequence"))
              \cup ({<<"TOK_DO">>} ** Braces("sequence") ** {<<"TOK_WHILE">>}
                      ** Parens("cond") ** {<<"TOK_SEMICL">>}),
   statement |-> OneOf({"var_def", "var_assign", "fcall", "print", "return"})
                   ** {<<"TOK_SEMICL">>},
   sequence |-> OneOf({"statement", "branch", "loop"}) ** Opt({<<"sequence">>}),
   argdef |-> OneOf({"type", "TOK_IDENTIFIER"}),
   arglist |-> ({<<"argdef">>} ** Opt({<<"TOK_COMMA", "arglist">>}))
                 \cup {<<"TOK_VOID">>},
   func |-> {<<"type", "TOK_IDENTIFIER">>} ** Parens("arglist")
              ** (Braces("sequence") \cup {<<"TOK_SEMICL">>}),
   program |-> Opt({<<"func", "program">>})]

(***************************************************************************)
(* What the compiler accepts differs from the text in four rules:          *)
(*   line  6: no comma is needed behind the last argument of a call;       *)
(*   line 19: the parts of the head of a for loop end in semicolons;       *)
(*   line 24: a sequence may be empty;                                     *)
(*   line 25: an argument has a type and a name.                           *)
(***************************************************************************)
Corrected ==
  [Documented EXCEPT
     !.fcall_arglist = @ \cup {<<"expression">>},
     !.loop_head = OneOf({"var_def", "var_assign"})
                     ** {<<"TOK_SEMICL", "cond", "TOK_SEMICL", "var_assign">>},
     !.sequence = Opt(@),
     !.argdef = {<<"type", "TOK_IDENTIFIER">>}]

\* The positions in toks behind the words of an alternative, or of a rule or
\* a token type, that begin at a position in from.
RECURSIVE Behind(_, _, _, _), BehindSymbol(_, _, _, _)
Behind(grammar, toks, alternative, from) ==
  IF alternative = << >> THEN from
  ELSE Behind(grammar, toks, Tail(alternative),
              BehindSymbol(grammar, toks, Head(alternative), from))
BehindSymbol(grammar, toks, symbol, from) ==
  IF symbol \in DOMAIN grammar
  THEN UNION {Behind(grammar, toks, a, {i}) : a \in grammar[symbol], i \in from}
  ELSE {i + 1 : i \in {j \in from : j <= Len(toks) /\ toks[j].type = symbol}}

\* The tokens are a program of the grammar.
ProgramOf(grammar, toks) ==
  Len(toks) + 1 \in Behind(grammar, toks, <<"program", "TOK_EOF">>, {1})
=============================================================================
