----------------------------- MODULE RuntimeCtx ------------------------------
(***************************************************************************)
(* The runtime context of an execution: init_interpreter copies code and   *)
(* arguments from user space and allocates the segments, start_interpreter *)
(* publishes their sizes in static variables, cleanup_runtime_ctx frees    *)
(* everything.  Executions follow one another (interpreter_lock is held    *)
(* throughout), so the only state that survives one is the heap and the    *)
(* static sizes.  The build is the one with ENCRYPTION: the first line of  *)
(* the code, stack and call segments is their init vector, and the         *)
(* pointers to them are moved behind it.                                   *)
(*                                                                         *)
(* Sizes are in bytes and wrap around at SizeMod, pointers are in words    *)
(* from the start of their block.  vmalloc and copy_from_user are the      *)
(* kernel's; both may fail.  A buffer whose copy failed can never be       *)
(* freed: it leaves the heap for lost.                                     *)
(***************************************************************************)
EXTENDS Integers

CONSTANTS
  Requests,    \* what can be passed in an invoke_ctx, see Request
  SizeMod,     \* 2^64: a size_t is 0 .. SizeMod-1
  NULL,
  Free         \* heap[b] of a block that is not allocated

DEFAULT_STACK_SIZE == 20
DEFAULT_CALL_SIZE == 20
DEFAULT_PRINT_SIZE == 20

SizeT == 0 .. SizeMod - 1

\* stack_size and call_size are in lines; 0 asks for the default.
Request == [code : SizeT, args : SizeT, stack : Nat, call : Nat, out : SizeT]

\* invoke_interpreter tests code and out; args are words in the frontend.
\* The code may be empty, as an empty program file is.
ASSUME CtxAssumption ==
  /\ SizeMod \in Nat /\ SizeMod > DEFAULT_PRINT_SIZE
  /\ Requests \subseteq Request
  /\ \A r \in Requests : r.code % 16 = 0 /\ r.args % 4 = 0 /\ r.out % 4 = 0
  /\ NULL \notin Int
  /\ Free \notin Int

Segment == {"code", "args", "stack", "call", "print"}
Sized == {"code", "stack", "call", "print"}
Shadowed == {"code", "stack", "call"}
Allocated == {"stack", "call", "print"}

VARIABLES
  pc,       \* the next step of the execution, "out" between two of them
  req,      \* the invoke_ctx of the execution
  heap,     \* what amalloc was asked for, by segment, and the context
  lost,     \* history: buffers given up when copy_from_user failed
  ptr,      \* the pointers in the runtime context
  size,     \* the sizes in the runtime context
  static,   \* bispe_stack_seg_size, bispe_call_seg_size, bispe_print_seg_size
  badfree   \* history: vfree was given something that is no block

vars == <<pc, req, heap, lost, ptr, size, static, badfree>>

Pc == {"out", "code", "args", "context", "stack", "call", "print", "shadow",
       "ready", "running", "cleanup", "oops"}

TypeOK ==
  /\ pc \in Pc
  /\ req \in Requests
  /\ heap \in [Segment \cup {"context"} -> SizeT \cup {Free}]
  /\ lost \subseteq {"code", "args"}
  /\ ptr \in [Segment -> {NULL, 0, 4}]
  /\ size \in [Sized -> SizeT]
  /\ static \in [Allocated -> SizeT]
  /\ badfree \in BOOLEAN

Init ==
  /\ pc = "out"
  /\ req \in Requests
  /\ heap = [b \in Segment \cup {"context"} |-> Free]
  /\ lost = {}
  /\ ptr = [b \in Segment |-> NULL]
  /\ size = [b \in Sized |-> 0]
  /\ static = [b \in Allocated |-> 0]
  /\ badfree = FALSE

GoTo(l) == pc' = l

-----------------------------------------------------------------------------
(* init_interpreter.                                                       *)

\* invoke_interpreter has got the lock.
Invoke ==
  /\ pc = "out"
  /\ req' \in Requests
  /\ GoTo("code")
  /\ UNCHANGED <<heap, lost, ptr, size, static, badfree>>

\* get_buf_from_user: memory and copy, no memory, or memory but no copy;
\* then nobody has a pointer to the block any more.
CodeFromUser ==
  /\ pc = "code"
  /\ \/ /\ heap' = [heap EXCEPT !["code"] = req.code]
        /\ GoTo("args")
        /\ UNCHANGED lost
     \/ GoTo("out") /\ UNCHANGED <<heap, lost>>
     \/ lost' = lost \cup {"code"} /\ GoTo("out") /\ UNCHANGED heap
  /\ UNCHANGED <<req, ptr, size, static, badfree>>

\* Mutant: the error path does not free the code buffer.
ArgsFromUser_keep_code ==
  /\ pc = "args"
  /\ \/ req.args = 0 /\ GoTo("context") /\ UNCHANGED heap
     \/ /\ req.args > 0
        /\ \/ heap' = [heap EXCEPT !["args"] = req.args] /\ GoTo("context")
           \/ GoTo("out") /\ UNCHANGED heap
  /\ UNCHANGED <<req, lost, ptr, size, static, badfree>>

\* If there are no arguments their buffer stays NULL.
ArgsFromUser ==
  /\ pc = "args"
  /\ \/ req.args = 0 /\ GoTo("context") /\ UNCHANGED <<heap, lost>>
     \/ /\ req.args > 0
        /\ heap' = [heap EXCEPT !["args"] = req.args]
        /\ GoTo("context")
        /\ UNCHANGED lost
     \/ /\ req.args > 0
        /\ heap' = [heap EXCEPT !["code"] = Free]
        /\ lost' \in {lost, lost \cup {"args"}}
        /\ GoTo("out")
  /\ UNCHANGED <<req, ptr, size, static, badfree>>

Lines(n, default) == (16 * (IF n > 0 THEN n ELSE default) + 16) % SizeMod

\* The sizes with room for the init vectors.
SegmentSize ==
  [b \in Sized |->
     CASE b = "code" -> req.code
       [] b = "stack" -> Lines(req.stack, DEFAULT_STACK_SIZE)
       [] b = "call" -> Lines(req.call, DEFAULT_CALL_SIZE)
       [] b = "print" -> IF req.out > 0 THEN req.out ELSE DEFAULT_PRINT_SIZE]

\* create_runtime_ctx: without memory for the context, the error path
\* follows a null pointer.
CreateContext ==
  /\ pc = "context"
  /\ \/ /\ heap' = [heap EXCEPT !["context"] = 8]
        /\ ptr' = [b \in Segment |->
                     IF b = "code" \/ (b = "args" /\ req.args \div 4 > 0)
                     THEN 0 ELSE NULL]
        /\ size' = SegmentSize
        /\ GoTo("stack")
     \/ GoTo("oops") /\ UNCHANGED <<heap, ptr, size>>
  /\ UNCHANGED <<req, lost, static, badfree>>

\* free_segments with pointers p, and vfree of the context
FreeSegments(p) ==
  LET freed == {b \in Segment : p[b] # NULL}
  IN /\ heap' = [b \in DOMAIN heap |->
                   IF b = "context" \/ (b \in freed /\ p[b] = 0)
                   THEN Free ELSE heap[b]]
     /\ ptr' = [b \in Segment |-> NULL]
     /\ badfree' = (badfree \/ \E b \in freed : p[b] # 0 \/ heap[b] = Free)

\* The blocks get the size of the static variables, not of the context.
AllocSegment(b, next) ==
  /\ pc = b
  /\ \/ /\ heap' = [heap EXCEPT ![b] = static[b]]
        /\ ptr' = [ptr EXCEPT ![b] = 0]
        /\ GoTo(next)
        /\ UNCHANGED badfree
     \/ FreeSegments(ptr) /\ GoTo("out")
  /\ UNCHANGED <<req, lost, size, static>>

\* n -= k of a size_t
Less(n, k) == (n - k) % SizeMod

\* Mutant: the size of the code keeps the line of the init vector.
ShadowInitVectors_code_size ==
  /\ pc = "shadow"
  /\ ptr' = [b \in Segment |-> IF b \in Shadowed THEN ptr[b] + 4 ELSE ptr[b]]
  /\ size' = [b \in Sized |->
                IF b \in Shadowed \ {"code"} THEN Less(size[b], 16) ELSE size[b]]
  /\ GoTo("ready")
  /\ UNCHANGED <<req, lost, heap, static, badfree>>

\* Mutant: the pointers, which are to words, are moved by 16.
ShadowInitVectors_bytes ==
  /\ pc = "shadow"
  /\ ptr' = [b \in Segment |-> IF b \in Shadowed THEN ptr[b] + 16 ELSE ptr[b]]
  /\ size' = [b \in Sized |-> IF b \in Shadowed THEN Less(size[b], 16) ELSE size[b]]
  /\ GoTo("ready")
  /\ UNCHANGED <<req, lost, heap, static, badfree>>

ShadowInitVectors ==
  /\ pc = "shadow"
  /\ ptr' = [b \in Segment |-> IF b \in Shadowed THEN ptr[b] + 4 ELSE ptr[b]]
  /\ size' = [b \in Sized |-> IF b \in Shadowed THEN Less(size[b], 16) ELSE size[b]]
  /\ GoTo("ready")
  /\ UNCHANGED <<req, lost, heap, static, badfree>>

-----------------------------------------------------------------------------
(* The execution and its end.                                              *)

\* start_interpreter, unless there is no thread or it is stopped before.
StartInterpreter ==
  /\ pc = "ready"
  /\ \/ /\ static' = [b \in Allocated |-> size[b]]
        /\ GoTo("running")
     \/ GoTo("cleanup") /\ UNCHANGED static
  /\ UNCHANGED <<req, lost, heap, ptr, size, badfree>>

InterpreterReturns ==
  /\ pc = "running"
  /\ GoTo("cleanup")
  /\ UNCHANGED <<req, lost, heap, ptr, size, static, badfree>>

\* Mutant: the pointers are not moved back.
cleanup_runtime_ctx_shadowed ==
  /\ pc = "cleanup"
  /\ FreeSegments(ptr)
  /\ GoTo("out")
  /\ UNCHANGED <<req, lost, size, static>>

cleanup_runtime_ctx ==
  /\ pc = "cleanup"
  /\ FreeSegments([b \in Segment |-> IF b \in Shadowed THEN ptr[b] - 4 ELSE ptr[b]])
  /\ GoTo("out")
  /\ UNCHANGED <<req, lost, size, static>>

Next ==
  \/ Invoke \/ CodeFromUser \/ ArgsFromUser \/ CreateContext
  \/ AllocSegment("stack", "call") \/ AllocSegment("call", "print")
  \/ AllocSegment("print", "shadow") \/ ShadowInitVectors
  \/ StartInterpreter \/ InterpreterReturns \/ cleanup_runtime_ctx

Spec == Init /\ [][Next]_vars

-----------------------------------------------------------------------------
(* Properties.                                                             *)

(***************************************************************************)
(* Whatever fails, and in whichever step, vfree is only given pointers to  *)
(* blocks that are allocated, and exactly to their start: the pointers are *)
(* moved behind the init vectors after the last step that can fail, and    *)
(* back before cleanup_runtime_ctx frees them.                             *)
(***************************************************************************)
FreesAreExact == ~badfree

(***************************************************************************)
(* "Frees all memory allocated for an interpreter execution": between two  *)
(* executions nothing is allocated, however far the last one got, but for  *)
(* the buffers of get_buf_from_user whose copy failed.                     *)
(***************************************************************************)
NoLeak == pc = "out" => \A b \in DOMAIN heap : heap[b] = Free

(***************************************************************************)
(* The size of the code against which JMP, CALL and RET check their target *)
(* is what the code block holds behind its init vector, if and only if     *)
(* there is code.  An empty program file also passes the tests of          *)
(* invoke_interpreter; it has no init vector to take off, and              *)
(* "code_seg_size -= 16" wraps around.                                     *)
(***************************************************************************)
CodeFits ==
  pc = "running" =>
    (heap["code"] = 4 * ptr["code"] + size["code"]) = (req.code > 0)

(***************************************************************************)
(* "call and stack segment sizes are given in 16 bytes, so they must be    *)
(* changed to bytes before allocation": a running program's segments are   *)
(* at least as large as the sizes its overflow checks use.                 *)
(***************************************************************************)
SegmentsFit ==
  pc = "running" => \A b \in Allocated : heap[b] >= 4 * ptr[b] + static[b]
=============================================================================
