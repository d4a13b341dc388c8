------------------------------- MODULE Meaning -------------------------------
(***************************************************************************)
(* What a source program prints, defined on its syntax tree without any    *)
(* notion of code, addresses or frames: the reference for the compiler.    *)
(* Arithmetic and comparisons are those of the bytecode, expressions are   *)
(* nested to the right as the grammar says, operands are computed from     *)
(* left to right, variables belong to their function and have no value     *)
(* before the first assignment.                                            *)
(***************************************************************************)
EXTENDS Parser

CONSTANT Fuel        \* loop turns and calls after which a program is "long"

\* flow: "on", "return", "undefined" (a value was used that nothing
\* defines), "div_zero" or "long".  val: the value computed last; out: what
\* was printed.
Begin(env) == [flow |-> "on", env |-> env, val |-> Junk, out |-> << >>, fuel |-> Fuel]

\* The function definitions of a program, in their order.
RECURSIVE Functions(_)
Functions(node) ==
  CASE node = Nil -> << >>
    [] node # Nil /\ node.type = "AST_FUNCTION" -> <<node>>
    [] OTHER -> Functions(node.left) \o Functions(node.middle)

Function(prog, name) ==
  LET fs == Functions(prog) IN fs[CHOOSE k \in DOMAIN fs : fs[k].val = name]

Value(s, v) ==
  IF v = Junk THEN [s EXCEPT !.flow = "undefined"] ELSE [s EXCEPT !.val = v]

Apply(s, tok, l, r) ==
  IF tok \in {"TOK_SLASH", "TOK_PERCENT"} /\ r = 0
  THEN [s EXCEPT !.flow = "div_zero"]
  ELSE Value(s, CASE tok = "TOK_PLUS" -> Arith(INSTR_ADD, l, r)
                  [] tok = "TOK_MINUS" -> Arith(INSTR_SUB, l, r)
                  [] tok = "TOK_STAR" -> Arith(INSTR_MUL, l, r)
                  [] tok = "TOK_SLASH" -> Arith(INSTR_DIV, l, r)
                  [] tok = "TOK_PERCENT" -> Arith(INSTR_MOD, l, r))

Holds(tok, l, r) ==
  CASE tok = "TOK_EQEQ" -> l = r
    [] tok = "TOK_NEQ" -> l # r
    [] tok = "TOK_GT" -> Signed(l) > Signed(r)
    [] tok = "TOK_LT" -> Signed(l) < Signed(r)
    [] tok = "TOK_GE" -> Signed(l) >= Signed(r)
    [] tok = "TOK_LE" -> Signed(l) <= Signed(r)

RECURSIVE Exec(_, _, _), Loop(_, _, _, _, _), Given(_, _, _, _)

\* The values of a list of arguments.
Given(prog, node, s, vals) ==
  LET e == Exec(prog, node.left, s)
  IN IF node.type # "AST_FCALL_ARGLIST" THEN [s |-> s, vals |-> vals]
     ELSE Given(prog, node.middle, e, Append(vals, e.val))

Invoke(prog, name, args, s) ==
  LET f == Function(prog, name)
      names == ArgNames(f.middle)
      e == Exec(prog, f.left,
                [s EXCEPT !.env = [n \in Range(names) |->
                                     args[CHOOSE k \in DOMAIN names : names[k] = n]],
                          !.val = Junk, !.fuel = @ - 1])
  IN IF s.flow # "on" THEN s
     ELSE IF s.fuel = 0 THEN [s EXCEPT !.flow = "long"]
     ELSE [e EXCEPT !.env = s.env,
                    !.val = IF e.flow = "return" THEN @ ELSE Junk,
                    !.flow = IF @ = "return" THEN "on" ELSE @]

Assign(s, e, name) ==
  IF e.flow # "on" THEN e ELSE [e EXCEPT !.env = (name :> e.val) @@ @]

Test(prog, cond, s) ==
  LET l == Exec(prog, cond.left, s)
      r == Exec(prog, cond.right, l)
  IN [s |-> r, holds |-> r.flow = "on" /\ Holds(cond.middle.left.val, l.val, r.val)]

Loop(prog, cond, body, step, s) ==
  LET t == Test(prog, cond, s)
      turn == Exec(prog, step, Exec(prog, body, t.s))
  IN IF s.flow # "on" \/ ~t.holds THEN t.s
     ELSE IF s.fuel = 0 THEN [s EXCEPT !.flow = "long"]
     ELSE Loop(prog, cond, body, step, [turn EXCEPT !.fuel = @ - 1])

Exec(prog, n, s) ==
  IF n = Nil \/ s.flow # "on" THEN s
  ELSE LET left == Exec(prog, n.left, s)
           right == Exec(prog, n.right, left)
           assigned(e, name) == Assign(s, e, name)
       IN CASE n.type = "AST_INTLITERAL" -> Value(s, n.val)
            [] n.type = "AST_IDENTIFIER" ->
                 Value(s, IF n.val \in DOMAIN s.env THEN s.env[n.val] ELSE Junk)
            [] n.type = "AST_EXPRESSION" /\ n.middle # Nil ->
                 IF right.flow # "on" THEN right
                 ELSE Apply(right, n.middle.left.val, left.val, right.val)
            [] n.type = "AST_VAR_DEF" ->
                 IF n.right = Nil THEN s
                 ELSE assigned(Exec(prog, n.right, s), n.middle.val)
            [] n.type = "AST_VAR_ASSIGN" ->
                 assigned(Exec(prog, n.middle, s), n.left.val)
            [] n.type = "AST_PRINT" ->
                 IF left.flow # "on" THEN left
                 ELSE [left EXCEPT !.out = Append(@, left.val)]
            [] n.type = "AST_RETURN" ->
                 IF left.flow # "on" THEN left
                 ELSE [left EXCEPT !.flow = "return",
                                   !.val = IF n.left = Nil THEN Junk ELSE @]
            [] n.type = "AST_BRANCH" ->
                 LET t == Test(prog, n.left, s)
                 IN Exec(prog, IF t.holds THEN n.middle ELSE n.right, t.s)
            [] n.type = "AST_LOOP" ->
                 CASE n.left.type = "AST_CONDITION" ->
                        Loop(prog, n.left, n.middle, Nil, s)
                   [] n.left.type = "AST_FOR_LOOP_HEAD" ->
                        Loop(prog, n.left.middle, n.middle, n.left.right,
                             Exec(prog, n.left.left, s))
                   [] OTHER -> Loop(prog, n.middle, n.left, Nil, left)
            [] n.type \in {"AST_FCALL", "AST_RET_FCALL"} ->
                 LET g == Given(prog, n.left, s, << >>)
                     e == Invoke(prog, n.val, g.vals, g.s)
                 IN IF n.type = "AST_RET_FCALL" /\ e.flow = "on" THEN Value(e, e.val) ELSE e
            [] OTHER -> Exec(prog, n.right, Exec(prog, n.middle, left))

\* The run of a program on its arguments; a missing one is undefined.
Run(prog, argv) ==
  LET main == Function(prog, <<"m", "a", "i", "n">>)
  IN IF Len(argv) < Len(ArgNames(main.middle))
     THEN [Begin(<< >>) EXCEPT !.flow = "undefined"]
     ELSE Invoke(prog, main.val, argv, Begin(<< >>))

-----------------------------------------------------------------------------
(* Limits of the compiler, as conditions on the source.                    *)

\* The last statement of a sequence that has code of its own, or Nil.
RECURSIVE LastStatement(_)
LastStatement(node) ==
  CASE node.type = "AST_SEQUENCE" ->
         LET last == LastStatement(node.middle)
         IN IF last = Nil THEN LastStatement(node.left) ELSE last
    [] node.type = "AST_STATEMENT" -> LastStatement(node.left)
    [] node.type = "AST_EMPTY" -> Nil
    [] node.type = "AST_VAR_DEF" -> IF node.right = Nil THEN Nil ELSE node
    [] OTHER -> node

RECURSIVE EndsInReturn(_)
EndsInReturn(seq) ==
  LET last == LastStatement(seq)
  IN \/ last.type = "AST_RETURN"
     \/ /\ last.type = "AST_BRANCH"
        /\ EndsInReturn(IF last.right # Nil THEN last.right ELSE last.middle)

\* The last instruction in front of the end of the function is a RET, but
\* not one that every run of its body meets: the body is empty, or ends in
\* a branch that ends in a return.
OpenEnd(body) ==
  \/ body.type = "AST_EMPTY"
  \/ LastStatement(body).type = "AST_BRANCH" /\ EndsInReturn(body)

\* A function of the program has such an end.
HasOpenEnd(prog) ==
  LET fs == Functions(prog) IN \E k \in DOMAIN fs : OpenEnd(fs[k].left)

\* The value of an int function is thrown away in the program: it stays on
\* the operand stack.
RECURSIVE Discards(_, _)
Discards(node, funcs) ==
  /\ node # Nil
  /\ \/ node.type = "AST_FCALL" /\ funcs[node.val].ret_type = "DTYPE_INT"
     \/ \E child \in {"left", "middle", "right"} : Discards(node[child], funcs)
=============================================================================
