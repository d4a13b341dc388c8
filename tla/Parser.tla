------------------------------- MODULE Parser -------------------------------
(***************************************************************************)
(* The parser of the compiler, with the syntax tree and the symbol tables  *)
(* it fills: parse_tokenlist as a function of the list of tokens.          *)
(*                                                                         *)
(* The check_ functions of parser.c are all alike and are represented by a *)
(* table of productions.  A production is tried by match_prod, which calls *)
(* create_node when all its symbols are there; the productions of a        *)
(* nonterminal are tried in their order and the first one that matches is  *)
(* taken for good.  The state that survives a production that does not     *)
(* match is part of the model: the symbol tables, max_arg_count and the    *)
(* error messages are not restored, only the token is.                     *)
(*                                                                         *)
(* A pointer to a function or a variable is the name under which it is     *)
(* found in its table.  Nodes that register_loc_vars restructures keep     *)
(* their original children.                                                *)
(***************************************************************************)
EXTENDS Tokens, Bytecode

-----------------------------------------------------------------------------
(* Syntax trees.                                                           *)

Nil == [type |-> "NULL"]
Node(type, val, left, middle, right) ==
  [type |-> type, val |-> val, left |-> left, middle |-> middle, right |-> right]
create_empty == Node("AST_EMPTY", NoText, Nil, Nil, Nil)

-----------------------------------------------------------------------------
(* The grammar.  T is a terminal, L a terminal that becomes a leaf of the  *)
(* given type, N a nonterminal; P is a production and the type of its node. *)

T(tok) == [kind |-> "T", sym |-> tok, leaf |-> "none"]
L(tok, leaf) == [kind |-> "T", sym |-> tok, leaf |-> leaf]
N(nt) == [kind |-> "N", sym |-> nt, leaf |-> "none"]
P(type, syms) == [type |-> type, syms |-> syms]

Id == L("TOK_IDENTIFIER", "AST_IDENTIFIER")

AssignGrammar ==
  [type |-> <<P("AST_TYPE", <<L("TOK_VOID", "AST_TYPELEAF")>>),
              P("AST_TYPE", <<L("TOK_INT", "AST_TYPELEAF")>>)>>,
   var_def |-> <<P("AST_VAR_DEF", <<N("type"), Id, T("TOK_EQ"), N("expr")>>),
                 P("AST_VAR_DEF", <<N("type"), Id>>)>>,
   var_assign |-> <<P("AST_VAR_ASSIGN", <<Id, T("TOK_EQ"), N("expr")>>)>>,
   print |-> <<P("AST_PRINT", <<T("TOK_PRINT"), N("expr")>>)>>,
   return |-> <<P("AST_RETURN", <<T("TOK_RETURN"), N("expr")>>),
                P("AST_RETURN", <<T("TOK_RETURN")>>)>>]

Operators(type, leaf, toks) ==
  [k \in DOMAIN toks |-> P(type, <<L(toks[k], leaf)>>)]

ExprGrammar ==
  [expr |-> <<P("AST_EXPRESSION", <<N("expr1"), N("numop"), N("expr")>>),
              P("AST_EXPRESSION", <<N("expr1")>>)>>,
   expr1 |-> <<P("AST_EXPRESSION1", <<N("ret_fcall")>>),
               P("AST_EXPRESSION1", <<Id>>),
               P("AST_EXPRESSION1", <<L("TOK_INTLITERAL", "AST_INTLITERAL")>>),
               P("AST_EXPRESSION1",
                 <<T("TOK_MINUS"), L("TOK_INTLITERAL", "AST_NEG_INTLITERAL")>>),
               P("AST_EXPRESSION1",
                 <<T("TOK_OPENPA"), N("expr"), T("TOK_CLOSEPA")>>)>>,
   cond |-> <<P("AST_CONDITION", <<N("expr"), N("boolop"), N("expr")>>)>>,
   numop |-> Operators("AST_NUMOP", "AST_NUMOP_LEAF",
               <<"TOK_PLUS", "TOK_MINUS", "TOK_STAR", "TOK_SLASH", "TOK_PERCENT">>),
   boolop |-> Operators("AST_BOOLOP", "AST_BOOLOP_LEAF",
               <<"TOK_EQEQ", "TOK_NEQ", "TOK_GT", "TOK_LT", "TOK_GE", "TOK_LE">>)]

Closed(nt) == P("AST_STATEMENT", <<N(nt), T("TOK_SEMICL")>>)

StatementGrammar ==
  [statement |-> <<Closed("var_def"), Closed("var_assign"), Closed("fcall"),
                   Closed("print"), Closed("return")>>,
   sequence |-> <<P("AST_SEQUENCE", <<N("statement"), N("sequence")>>),
                  P("AST_SEQUENCE", <<N("branch"), N("sequence")>>),
                  P("AST_SEQUENCE", <<N("loop"), N("sequence")>>)>>]

InParens(nt) == <<T("TOK_OPENPA"), N(nt), T("TOK_CLOSEPA")>>
Block == <<T("TOK_OPENBR"), N("sequence"), T("TOK_CLOSEBR")>>
ForHead(first) == P("AST_FOR_LOOP_HEAD",
  <<N(first), T("TOK_SEMICL"), N("cond"), T("TOK_SEMICL"), N("var_assign")>>)

BlockGrammar ==
  [branch |-> <<P("AST_BRANCH", <<T("TOK_IF")>> \o InParens("cond") \o Block
                                \o <<T("TOK_ELSE")>> \o Block),
                P("AST_BRANCH", <<T("TOK_IF")>> \o InParens("cond") \o Block)>>,
   for_loop_head |-> <<ForHead("var_def"), ForHead("var_assign")>>,
   loop |-> <<P("AST_LOOP", <<T("TOK_WHILE")>> \o InParens("cond") \o Block),
              P("AST_LOOP", <<T("TOK_FOR")>> \o InParens("for_loop_head") \o Block),
              P("AST_LOOP", <<T("TOK_DO")>> \o Block \o <<T("TOK_WHILE")>>
                            \o InParens("cond") \o <<T("TOK_SEMICL")>>)>>]

CallGrammar ==
  [fcall_arglist |-> <<P("AST_FCALL_ARGLIST",
                         <<N("expr"), T("TOK_COMMA"), N("fcall_arglist")>>),
                       P("AST_FCALL_ARGLIST", <<N("expr")>>)>>,
   ret_fcall |-> <<P("AST_RET_FCALL", <<Id>> \o InParens("fcall_arglist"))>>,
   fcall |-> <<P("AST_FCALL", <<Id>> \o InParens("fcall_arglist"))>>]

FuncHead == <<N("type"), Id>> \o InParens("argdeflist")

FunctionGrammar ==
  [argdef |-> <<P("AST_ARGDEF", <<N("type"), Id>>)>>,
   argdeflist |-> <<P("AST_ARGDEFLIST", <<N("argdef"), T("TOK_COMMA"), N("argdeflist")>>),
                    P("AST_ARGDEFLIST", <<N("argdef")>>),
                    P("AST_ARGDEFLIST", <<T("TOK_VOID")>>)>>,
   func |-> <<P("AST_FUNCTION", FuncHead \o Block),
              P("AST_FUNCTION_PROTO", FuncHead \o <<T("TOK_SEMICL")>>)>>,
   program |-> <<P("AST_INNER", <<N("func"), N("program")>>)>>]

Grammar == AssignGrammar @@ ExprGrammar @@ StatementGrammar @@ BlockGrammar
           @@ CallGrammar @@ FunctionGrammar

\* Mutant: a call needs an argument.
Nullable_calls == {"sequence", "program"}

\* The nonterminals that also accept the empty word, if nothing else matches.
Nullable == {"sequence", "fcall_arglist", "program"}

Start == P("AST_HEAD", <<N("program"), T("TOK_EOF")>>)

-----------------------------------------------------------------------------
(* The state of the parser.  stopped: the process ended within the parser, *)
(* by exit() or by a fault.                                                *)

InitParse(toks) ==
  [toks |-> toks, tok |-> 1, funcs |-> << >>, max_arg_count |-> 0,
   errs |-> {}, stopped |-> "no"]

Result(node, st) == [node |-> node, st |-> st]
Error(st, msg) == Result(Nil, [st EXCEPT !.errs = @ \cup {msg}])
Stop(st, how) == Result(Nil, [st EXCEPT !.stopped = how])

-----------------------------------------------------------------------------
(* Symbol tables.  add_func leaves addr as malloc returned it.             *)

tok_type_to_dtype(tok) == IF tok = "TOK_INT" THEN "DTYPE_INT" ELSE "DTYPE_VOID"

new_func(ret_type) ==
  [ret_type |-> ret_type, prototyped |-> FALSE, addr |-> Junk, arg_count |-> 0,
   var_count |-> 0, max_call_size |-> 0, vars |-> << >>]

\* The result of registering names in func one after the other; it fails at
\* the first that cannot be.
Registering(func) == [ok |-> TRUE, func |-> func]
Refused(r) == [r EXCEPT !.ok = FALSE]
add_var(r, name, pos) == [r EXCEPT !.func.vars = @ @@ (name :> pos)]

\* The arguments of an argument list, from left to right.
RECURSIVE ArgNames(_)
ArgNames(node) ==
  IF node = Nil THEN << >>
  ELSE IF node.type = "AST_ARGDEF" THEN <<node.middle.val>>
  ELSE ArgNames(node.left) \o ArgNames(node.middle)

register_args(func, arglist) ==
  LET Add(r, name) ==
        IF ~r.ok \/ name \in DOMAIN r.func.vars THEN Refused(r)
        ELSE [add_var(r, name, r.func.arg_count + 1) EXCEPT !.func.arg_count = @ + 1]
  IN FoldLeft(Add, Registering(func), ArgNames(arglist))

\* What register_loc_vars meets in a function body, in its order: a
\* variable is declared before the expression it is initialised with.
RECURSIVE Occurrences(_)
Occurrences(node) ==
  IF node = Nil THEN << >>
  ELSE CASE node.type = "AST_VAR_DEF" ->
              <<<<"def", node.middle.val>>>> \o Occurrences(node.right)
         [] node.type = "AST_VAR_ASSIGN" ->
              <<<<"use", node.left.val>>>> \o Occurrences(node.middle)
         [] node.type = "AST_IDENTIFIER" -> <<<<"use", node.val>>>>
         [] OTHER -> Occurrences(node.left) \o Occurrences(node.middle)
                       \o Occurrences(node.right)

register_loc_vars(func, body) ==
  LET Meet(r, occ) ==
        LET known == occ[2] \in DOMAIN r.func.vars
        IN IF ~r.ok \/ known = (occ[1] = "def") THEN Refused(r)
           ELSE IF occ[1] = "use" THEN r
           ELSE [add_var(r, occ[2], r.func.max_call_size + r.func.var_count)
                   EXCEPT !.func.var_count = @ + 1]
  IN FoldLeft(Meet, Registering(func), Occurrences(body))

\* get_var returns NULL for an argument that the prototype named otherwise,
\* and the code goes on with it; this is a fault.
calculate_arg_addresses(func, arglist) ==
  LET Move(r, name) ==
        IF ~r.ok \/ name \notin DOMAIN r.func.vars THEN Refused(r)
        ELSE [r EXCEPT !.func.vars[name] = @ + r.func.var_count + r.func.max_call_size]
  IN FoldLeft(Move, Registering(func), ArgNames(arglist))

RECURSIVE check_return_validity(_, _)
check_return_validity(ret_type, node) ==
  \/ node = Nil
  \/ IF node.type = "AST_RETURN"
     THEN (node.left = Nil) = (ret_type = "DTYPE_VOID")
     ELSE /\ check_return_validity(ret_type, node.left)
          /\ check_return_validity(ret_type, node.middle)
          /\ check_return_validity(ret_type, node.right)

WithFunc(st, name, func) == [st EXCEPT !.funcs = (name :> func) @@ @]

register_function_prototype(ch, st) ==
  LET name == ch[2].val
      func == [new_func(tok_type_to_dtype(ch[1].left.val)) EXCEPT !.prototyped = TRUE]
      r == register_args(func, ch[3])
  IN IF name \in DOMAIN st.funcs THEN Error(st, "duplicate function")
     ELSE IF ~r.ok THEN Error(WithFunc(st, name, r.func), "duplicate argument")
     ELSE Result(Node("AST_INNER", NoText, Nil, Nil, Nil), WithFunc(st, name, r.func))

\* A definition behind a prototype takes its arguments and its return type
\* from the prototype.  The arguments of the definition stay in the tree as
\* history for the meaning of the program; the code frees them.
register_function(ch, st) ==
  LET name == ch[2].val
      known == name \in DOMAIN st.funcs
      head == IF known
              THEN Registering([st.funcs[name] EXCEPT !.prototyped = FALSE])
              ELSE register_args(new_func(tok_type_to_dtype(ch[1].left.val)), ch[3])
      locals == register_loc_vars(
                  [head.func EXCEPT !.max_call_size = st.max_arg_count], ch[4])
      placed == calculate_arg_addresses(locals.func, ch[3])
      done == WithFunc(st, name, placed.func)
  IN CASE known /\ ~st.funcs[name].prototyped -> Error(st, "duplicate function")
       [] ~head.ok -> Error(WithFunc(st, name, head.func), "duplicate argument")
       [] head.ok /\ ~locals.ok -> Error(WithFunc(st, name, locals.func), "variable")
       [] head.ok /\ locals.ok /\ ~placed.ok -> Stop(st, "fault")
       [] OTHER -> IF check_return_validity(placed.func.ret_type, ch[4])
                   THEN Result(Node("AST_FUNCTION", name, ch[4], ch[3], Nil), done)
                   ELSE Error(done, "return")

RECURSIVE ArgCount(_)
ArgCount(node) ==
  IF node.type = "AST_FCALL_ARGLIST" THEN 1 + ArgCount(node.middle) ELSE 0

\* Mutant: only the arguments of the last call count.
create_fcall_last(type, ch, st) ==
  LET name == ch[1].val
      n == ArgCount(ch[2])
  IN IF name \notin DOMAIN st.funcs \/ n # st.funcs[name].arg_count
     THEN Error(st, "call")
     ELSE Result(Node(type, name, ch[2], Nil, Nil), [st EXCEPT !.max_arg_count = n])

create_fcall(type, ch, st) ==
  LET name == ch[1].val
      func == st.funcs[name]
      n == ArgCount(ch[2])
  IN IF name \notin DOMAIN st.funcs THEN Error(st, "undeclared function")
     ELSE IF type = "AST_RET_FCALL" /\ func.ret_type = "DTYPE_VOID"
     THEN Error(st, "void in expression")
     ELSE IF n # func.arg_count THEN Error(st, "argument count")
     ELSE Result(Node(type, name, ch[2], Nil, Nil),
                 [st EXCEPT !.max_arg_count = IF n > @ THEN n ELSE @])

create_node(type, ch, st) ==
  CASE type = "AST_FUNCTION" -> register_function(ch, st)
    [] type = "AST_FUNCTION_PROTO" -> register_function_prototype(ch, st)
    [] type \in {"AST_FCALL", "AST_RET_FCALL"} -> create_fcall(type, ch, st)
    [] OTHER -> LET Child(k) == IF k <= Len(ch) THEN ch[k] ELSE Nil
                IN Result(Node(type, NoText, Child(1), Child(2), Child(3)), st)

\* create_identifier, create_numop, create_boolop and create_type keep the
\* text or the type of the token; a literal becomes a word.
Leaf(leaf, tok) ==
  LET val == CASE leaf = "AST_IDENTIFIER" -> tok.val
               [] leaf = "AST_INTLITERAL" -> strtol(tok.val) % WordMod
               [] leaf = "AST_NEG_INTLITERAL" -> (-strtol(tok.val)) % WordMod
               [] OTHER -> tok.type
  IN Node(IF leaf = "AST_NEG_INTLITERAL" THEN "AST_INTLITERAL" ELSE leaf,
          val, Nil, Nil, Nil)

\* create_intliteral ends the program at a literal that is not a word.
Overflows(leaf, tok) ==
  leaf \in {"AST_INTLITERAL", "AST_NEG_INTLITERAL"} /\ strtol(tok.val) >= WordMod

-----------------------------------------------------------------------------
(* Matching.                                                               *)

\* Mutant: the token is not restored for the next production.
Restore_missing(st, saved) == st

\* "token = token_saved"
Restore(st, saved) == [st EXCEPT !.tok = saved]

RECURSIVE match_prod(_, _, _, _), check(_, _, _)
match_prod(p, i, ch, st) ==
  IF i > Len(p.syms) THEN create_node(p.type, ch, st)
  ELSE IF st.tok > Len(st.toks) THEN Result(Nil, st)
  ELSE LET s == p.syms[i]
           t == st.toks[st.tok]
           r == check(s.sym, 1, st)
           rest == [st EXCEPT !.tok = @ + 1]
       IN IF s.kind = "N"
          THEN IF r.node = Nil THEN r ELSE match_prod(p, i + 1, Append(ch, r.node), r.st)
          ELSE IF t.type # s.sym THEN Result(Nil, rest)
          ELSE IF s.leaf = "none" THEN match_prod(p, i + 1, ch, rest)
          ELSE IF Overflows(s.leaf, t) THEN Stop(st, "exit")
          ELSE match_prod(p, i + 1, Append(ch, Leaf(s.leaf, t)), rest)

\* The check_ function of nonterminal nt, from its k-th production on.
\* check_func resets max_arg_count first.
check(nt, k, st0) ==
  LET st == IF nt = "func" /\ k = 1 THEN [st0 EXCEPT !.max_arg_count = 0] ELSE st0
      r == match_prod(Grammar[nt][k], 1, << >>, st)
  IN IF k > Len(Grammar[nt])
     THEN Result(IF nt \in Nullable THEN create_empty ELSE Nil, st)
     ELSE IF r.node # Nil \/ r.st.stopped # "no" THEN r
     ELSE check(nt, k + 1, Restore(r.st, st.tok))

parse_tokenlist(toks) == match_prod(Start, 1, << >>, InitParse(toks))

=============================================================================
