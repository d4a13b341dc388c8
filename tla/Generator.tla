------------------------------ MODULE Generator ------------------------------
(***************************************************************************)
(* The code generator: generate_code turns the syntax tree and the symbol  *)
(* tables into a list of instructions; Words is what build_codebuf writes  *)
(* for such a list.  A generator state has the list, its size in words,    *)
(* the functions with the addresses known so far and the current function. *)
(***************************************************************************)
EXTENDS Parser

has_arg == {INSTR_PUSH, INSTR_LOAD, INSTR_STORE, INSTR_JMP, INSTR_JEQ,
            INSTR_JNE, INSTR_JL, INSTR_JLE, INSTR_JG, INSTR_JGE, INSTR_CALL,
            INSTR_PROLOG, INSTR_EPILOG, INSTR_ARGLOAD}

boolop_to_jmp_instr ==
  "TOK_EQEQ" :> INSTR_JEQ @@ "TOK_NEQ" :> INSTR_JNE @@ "TOK_GT" :> INSTR_JG @@
  "TOK_LT" :> INSTR_JL @@ "TOK_GE" :> INSTR_JGE @@ "TOK_LE" :> INSTR_JLE

neg_jmp_instr ==
  INSTR_JEQ :> INSTR_JNE @@ INSTR_JNE :> INSTR_JEQ @@ INSTR_JG :> INSTR_JLE @@
  INSTR_JL :> INSTR_JGE @@ INSTR_JGE :> INSTR_JL @@ INSTR_JLE :> INSTR_JG

numop_to_instr ==
  "TOK_PLUS" :> INSTR_ADD @@ "TOK_MINUS" :> INSTR_SUB @@
  "TOK_STAR" :> INSTR_MUL @@ "TOK_SLASH" :> INSTR_DIV @@
  "TOK_PERCENT" :> INSTR_MOD

-----------------------------------------------------------------------------
InitGenerate(funcs) ==
  [code |-> << >>, size |-> 0, funcs |-> funcs, current_func |-> NoText,
   error |-> FALSE]

\* Mutant: the argument of an instruction does not count.
push_elem_short(g, instr, arg) ==
  [g EXCEPT !.code = Append(@, [instr |-> instr, arg |-> arg]), !.size = @ + 1]

push_elem(g, instr, arg) ==
  [g EXCEPT !.code = Append(@, [instr |-> instr, arg |-> arg]),
            !.size = @ + IF instr \in has_arg THEN 2 ELSE 1]

\* Change the instruction or the argument of an element that was pushed.
SetInstr(g, k, instr) == [g EXCEPT !.code[k].instr = instr]
SetArg(g, k, arg) == [g EXCEPT !.code[k].arg = arg]

FrameSize(func) == func.var_count + func.max_call_size
push_func_prolog(g, func) ==
  IF FrameSize(func) > 0 THEN push_elem(g, INSTR_PROLOG, FrameSize(func)) ELSE g
push_func_epilog(g, func) ==
  IF FrameSize(func) > 0 THEN push_elem(g, INSTR_EPILOG, FrameSize(func)) ELSE g

RECURSIVE generate_helper(_, _)

\* The code of three nodes in their order.
InOrder(a, b, c, g) == generate_helper(c, generate_helper(b, generate_helper(a, g)))

PushAll(g, instr, args) == FoldLeft(LAMBDA h, a : push_elem(h, instr, a), g, args)

VarPos(g, name) == g.funcs[g.current_func].vars[name]

\* The value is node.right of a definition and node.middle of an assignment.
AssignCode(name, value, g) ==
  IF value = Nil THEN g
  ELSE push_elem(generate_helper(value, g), INSTR_STORE, VarPos(g, name))

\* The condition jumps if it is not met; its target is set when it is known.
BranchCode(node, g) ==
  LET cond == generate_helper(node.left, g)
      cmp == Len(cond.code)
      neg == SetInstr(cond, cmp, neg_jmp_instr[cond.code[cmp].instr])
      then == generate_helper(node.middle, neg)
      jmp == push_elem(then, INSTR_JMP, 0)
      else == generate_helper(node.right, SetArg(jmp, cmp, jmp.size))
  IN IF node.right = Nil THEN SetArg(then, cmp, then.size)
     ELSE SetArg(else, Len(jmp.code), else.size)

\* The body comes first, the condition behind it jumps back; while and for
\* enter at the condition, for runs its last assignment before it.
LoopCode(node, g) ==
  LET for == node.left.type = "AST_FOR_LOOP_HEAD"
      do == ~for /\ node.left.type # "AST_CONDITION"
      condition == IF for THEN node.left.middle ELSE IF do THEN node.middle ELSE node.left
      body == IF do THEN node.left ELSE node.middle
      entered == IF for THEN generate_helper(node.left.left, g) ELSE g
      jumped == IF do THEN entered ELSE push_elem(entered, INSTR_JMP, 0)
      looped == generate_helper(body, jumped)
      stepped == IF for THEN generate_helper(node.left.right, looped) ELSE looped
      aimed == IF do THEN stepped ELSE SetArg(stepped, Len(jumped.code), stepped.size)
      tested == generate_helper(condition, aimed)
  IN SetArg(tested, Len(tested.code), jumped.size)

\* All arguments are computed before the first is stored, the last one on
\* the stack first.  The address is whatever the function has at this time.
CallCode(node, g) ==
  LET func == g.funcs[node.val]
      given == generate_helper(node.left, g)
      stored == PushAll(given, INSTR_STORE,
                        [k \in 1 .. func.arg_count |-> func.arg_count - k])
  IN push_elem(stored, INSTR_CALL, func.addr)

FunctionCode(node, g) ==
  LET func == g.funcs[node.val]
      begun == [g EXCEPT !.funcs[node.val].addr = g.size, !.current_func = node.val]
      body == generate_helper(node.left, push_func_prolog(begun, func))
  IN IF Last(body.code).instr # INSTR_RET
     THEN push_elem(push_func_epilog(body, func), INSTR_RET, 0)
     ELSE body

\* Mutant: the frame of the entry code is one word too large.
HeadCode_wide(node, g) ==
  LET main == <<"m", "a", "i", "n">>
      argc == g.funcs[main].arg_count
      framed == push_elem(g, INSTR_PROLOG, argc + 1)
      loaded == PushAll(framed, INSTR_ARGLOAD, [k \in 1 .. argc |-> k - 1])
      called == push_elem(loaded, INSTR_CALL, 0)
      program == generate_helper(node.left, push_elem(called, INSTR_FINISH, 0))
  IN IF main \notin DOMAIN g.funcs THEN [g EXCEPT !.error = TRUE]
     ELSE SetArg(program, Len(called.code), program.funcs[main].addr)

\* The entry code: a frame for the arguments of the program, main, FINISH.
HeadCode(node, g) ==
  LET main == <<"m", "a", "i", "n">>
      argc == g.funcs[main].arg_count
      framed == IF argc > 0 THEN push_elem(g, INSTR_PROLOG, argc) ELSE g
      loaded == PushAll(framed, INSTR_ARGLOAD, [k \in 1 .. argc |-> k - 1])
      called == push_elem(loaded, INSTR_CALL, 0)
      program == generate_helper(node.left, push_elem(called, INSTR_FINISH, 0))
  IN IF main \notin DOMAIN g.funcs THEN [g EXCEPT !.error = TRUE]
     ELSE SetArg(program, Len(called.code), program.funcs[main].addr)

\* Operands first, then the operator, which for a condition is a jump.
Operation(node, g) == InOrder(node.left, node.right, node.middle, g)

generate_helper(node, g) ==
  IF g.error \/ node.type \in {"NULL", "AST_EMPTY"} THEN g
  ELSE CASE node.type = "AST_IDENTIFIER" -> push_elem(g, INSTR_LOAD, VarPos(g, node.val))
         [] node.type = "AST_INTLITERAL" -> push_elem(g, INSTR_PUSH, node.val)
         [] node.type = "AST_VAR_DEF" -> AssignCode(node.middle.val, node.right, g)
         [] node.type = "AST_VAR_ASSIGN" -> AssignCode(node.left.val, node.middle, g)
         [] node.type = "AST_PRINT" ->
              push_elem(generate_helper(node.left, g), INSTR_PRINT, 0)
         [] node.type = "AST_RETURN" ->
              push_elem(push_func_epilog(generate_helper(node.left, g),
                                         g.funcs[g.current_func]), INSTR_RET, 0)
         [] node.type \in {"AST_EXPRESSION", "AST_CONDITION"} -> Operation(node, g)
         [] node.type = "AST_NUMOP_LEAF" -> push_elem(g, numop_to_instr[node.val], 0)
         [] node.type = "AST_BOOLOP_LEAF" ->
              push_elem(g, boolop_to_jmp_instr[node.val], 0)
         [] node.type = "AST_BRANCH" -> BranchCode(node, g)
         [] node.type = "AST_LOOP" -> LoopCode(node, g)
         [] node.type \in {"AST_FCALL", "AST_RET_FCALL"} -> CallCode(node, g)
         [] node.type = "AST_FUNCTION" -> FunctionCode(node, g)
         [] node.type = "AST_HEAD" -> HeadCode(node, g)
         [] OTHER -> InOrder(node.left, node.middle, node.right, g)

\* The empty list is NULL.
generate_code(head, funcs) ==
  LET g == generate_helper(head, InitGenerate(funcs))
  IN IF g.error THEN << >> ELSE g.code

-----------------------------------------------------------------------------
(* The words build_codebuf writes for the instructions.                    *)

Elem(e) == IF e.instr \in has_arg THEN <<e.instr, e.arg>> ELSE <<e.instr>>

\* The words of a list of instructions (by halves, for a shallow recursion).
RECURSIVE Words(_)
Words(code) ==
  LET n == Len(code)
  IN CASE n = 0 -> << >>
       [] n = 1 -> Elem(code[1])
       [] OTHER -> Words(SubSeq(code, 1, n \div 2)) \o Words(SubSeq(code, n \div 2 + 1, n))
=============================================================================
