-------------------------- MODULE RuntimeCtxProofs --------------------------
(***************************************************************************)
(* Proofs about RuntimeCtx for every request, that of an empty program     *)
(* included: whatever step fails, memory is freed exactly once, at its     *)
(* start, and none is left.                                                *)
(***************************************************************************)
EXTENDS RuntimeCtx, TLAPS

Live(b) == heap[b] # Free

Building == {"stack", "call", "print", "shadow"}
Built == {"ready", "running", "cleanup"}

\* Before there is a context nothing points anywhere; while it is built the
\* pointers are the starts of their blocks; afterwards three of them are
\* behind their init vector.
PointersOK ==
  /\ pc \notin Building \cup Built => \A b \in Segment : ptr[b] = NULL
  /\ pc \in Building => \A b \in Segment : ptr[b] \in {NULL, 0}
  /\ pc \in Building => ptr["code"] = 0
  /\ pc \in {"call", "print", "shadow"} => ptr["stack"] = 0
  /\ pc \in {"print", "shadow"} => ptr["call"] = 0
  /\ pc \in Built => \A b \in Segment : IF b \in Shadowed THEN ptr[b] = 4
                                        ELSE ptr[b] \in {NULL, 0}

\* What a pointer points to is allocated.
BlocksOK ==
  /\ pc \in {"args", "context"} => Live("code")
  /\ pc = "context" /\ req.args > 0 => Live("args")
  /\ \A b \in Segment : ptr[b] # NULL => Live(b)

\* What is allocated will be freed: a pointer leads to it, or one of the
\* local variables of init_interpreter.
OwnedOK ==
  pc # "oops" =>
    /\ \A b \in Segment : Live(b) => \/ ptr[b] # NULL
                                     \/ b = "code" /\ pc \in {"args", "context"}
                                     \/ b = "args" /\ pc = "context" /\ req.args > 0
    /\ Live("context") => pc \in Building \cup Built

\* The size of the code and of its block: the init vector is taken off
\* where there is one.
CodeOK ==
  /\ pc \in {"args", "context"} \cup Building \cup Built => heap["code"] = req.code
  /\ pc \in Building => size["code"] = req.code
  /\ pc \in Built /\ req.code > 0 => size["code"] = req.code - 16

IndInv == TypeOK /\ PointersOK /\ BlocksOK /\ OwnedOK /\ CodeOK /\ ~badfree

\* What is left of a size after the wrap is a size.
LEMMA Wrapped ==
  ASSUME NEW n \in Int
  PROVE  /\ n % SizeMod \in SizeT
         /\ n \in SizeT => n % SizeMod = n
<1>1. \A m \in Nat \ {0} : /\ n % m \in 0 .. m - 1
                           /\ n \in 0 .. m - 1 => n % m = n
  OBVIOUS
<1>2. SizeMod \in Nat \ {0}
  BY CtxAssumption DEF DEFAULT_PRINT_SIZE
<1> QED
  BY <1>1, <1>2 DEF SizeT

\* Small numbers are sizes; sizes are numbers.
LEMMA SmallSize == 0 .. 20 \subseteq SizeT /\ SizeT \subseteq Nat /\ Free \notin SizeT
  BY CtxAssumption DEF SizeT, DEFAULT_PRINT_SIZE

\* The requests are well formed; code that is not empty has an init vector.
LEMMA RequestOK ==
  ASSUME TypeOK
  PROVE  /\ req.code \in SizeT /\ (req.code > 0 => req.code >= 16)
         /\ req.args \in SizeT /\ (req.args > 0 <=> req.args \div 4 > 0)
         /\ req.stack \in Nat /\ req.call \in Nat /\ req.out \in SizeT
         /\ SizeT \subseteq Nat
<1>1. req \in Request /\ req.code % 16 = 0 /\ req.args % 4 = 0
  BY CtxAssumption DEF TypeOK
<1>2. req.code \in SizeT /\ req.args \in SizeT /\ req.stack \in Nat
      /\ req.call \in Nat /\ req.out \in SizeT
  BY <1>1 DEF Request
<1>3. SizeT \subseteq Nat
  BY SmallSize
<1>4. \A n \in Nat : n % 4 = 0 => (n > 0 <=> n \div 4 > 0)
  OBVIOUS
<1>5. \A n \in Nat : n % 16 = 0 /\ n > 0 => n >= 16
  OBVIOUS
<1> QED
  BY <1>1, <1>2, <1>3, <1>4, <1>5

\* The sizes create_runtime_ctx computes.
LEMMA SegmentSizeType ==
  ASSUME TypeOK
  PROVE  SegmentSize \in [Sized -> SizeT] /\ SegmentSize["code"] = req.code
<1>1. ASSUME NEW n \in Nat, NEW d \in Nat PROVE Lines(n, d) \in SizeT
  <2>1. 16 * (IF n > 0 THEN n ELSE d) + 16 \in Int
    OBVIOUS
  <2> QED
    BY <2>1, Wrapped DEF Lines
<1>2. req.out \in SizeT /\ 20 \in SizeT
  BY SmallSize, RequestOK
<1>3. /\ Lines(req.stack, DEFAULT_STACK_SIZE) \in SizeT
      /\ Lines(req.call, DEFAULT_CALL_SIZE) \in SizeT
  BY <1>1, RequestOK DEF DEFAULT_STACK_SIZE, DEFAULT_CALL_SIZE
<1>4. \A b \in Sized : SegmentSize[b] \in SizeT
  BY <1>2, <1>3, RequestOK DEF SegmentSize, Sized, DEFAULT_PRINT_SIZE
<1> QED
  BY <1>4 DEF SegmentSize, Sized

\* free_segments is given the starts of live blocks and leaves nothing.
LEMMA FreeSegmentsOK ==
  ASSUME IndInv, pc \in Building \cup Built,
         NEW p, \A b \in Segment : p[b] \in {NULL, 0},
         \A b \in Segment : p[b] = NULL <=> ptr[b] = NULL,
         FreeSegments(p), pc' = "out", UNCHANGED <<req, lost, size, static>>
  PROVE  IndInv'
<1>1. TypeOK'
  BY DEF IndInv, TypeOK, FreeSegments, Pc
<1>2. PointersOK'
  BY DEF FreeSegments, PointersOK, Building, Built
<1>3. badfree' = FALSE
  <2>1. \A b \in Segment : p[b] # NULL => p[b] = 0 /\ heap[b] # Free
    BY DEF IndInv, BlocksOK, Live
  <2> QED
    BY <2>1 DEF IndInv, FreeSegments
<1>4. BlocksOK'
  BY DEF FreeSegments, BlocksOK
<1>5. OwnedOK'
  <2> SUFFICES \A b \in Segment \cup {"context"} : heap'[b] = Free
    BY DEF OwnedOK, Live, Segment
  <2>1. \A b \in Segment : heap[b] # Free => p[b] # NULL
    BY DEF IndInv, OwnedOK, Live, Building, Built
  <2>2. ASSUME NEW b \in Segment \cup {"context"} PROVE heap'[b] = Free
    <3>1. b \in DOMAIN heap
      BY <2>2 DEF IndInv, TypeOK
    <3>2. CASE b = "context"
      BY <3>1, <3>2 DEF FreeSegments
    <3>3. CASE b \in Segment /\ heap[b] # Free
      BY <2>1, <3>1, <3>3 DEF FreeSegments
    <3>4. CASE b \in Segment /\ heap[b] = Free
      BY <3>1, <3>4 DEF FreeSegments
    <3> QED
      BY <2>2, <3>2, <3>3, <3>4
  <2> QED
    BY <2>2
<1>6. CodeOK'
  BY DEF CodeOK, Building, Built
<1> QED
  BY <1>1, <1>2, <1>3, <1>4, <1>5, <1>6 DEF IndInv

\* The steps of init_interpreter before there is a context.
LEMMA BuffersInd ==
  ASSUME IndInv, Invoke \/ CodeFromUser \/ ArgsFromUser PROVE IndInv'
<1>1. ptr' = ptr /\ badfree' = badfree /\ size' = size /\ static' = static
  BY DEF Invoke, CodeFromUser, ArgsFromUser
<1>2. TypeOK'
  BY RequestOK DEF IndInv, TypeOK, Pc, GoTo, Segment, Invoke, CodeFromUser,
                   ArgsFromUser
<1>3. PointersOK'
  BY <1>1 DEF IndInv, PointersOK, Building, Built, GoTo, Invoke, CodeFromUser,
              ArgsFromUser
<1>4. pc \in {"out", "code", "args"} /\ \A b \in Segment : ptr[b] = NULL
  BY DEF IndInv, PointersOK, Building, Built, Invoke, CodeFromUser, ArgsFromUser
<1>5. req.code \in SizeT /\ req.args \in SizeT /\ SizeT \subseteq Nat /\ Free \notin SizeT
  BY RequestOK, SmallSize DEF IndInv
<1>6. BlocksOK'
  BY <1>1, <1>4, <1>5 DEF IndInv, TypeOK, BlocksOK, Live, Segment, GoTo, Invoke,
     CodeFromUser, ArgsFromUser
<1>7. OwnedOK'
  BY <1>1, <1>4, <1>5 DEF IndInv, TypeOK, OwnedOK, Live, Segment, Building, Built,
     GoTo, Invoke, CodeFromUser, ArgsFromUser
<1>8. CodeOK'
  BY <1>1 DEF IndInv, TypeOK, CodeOK, Segment, Building, Built, GoTo, Invoke,
     CodeFromUser, ArgsFromUser
<1> QED
  BY <1>1, <1>2, <1>3, <1>6, <1>7, <1>8 DEF IndInv

\* create_runtime_ctx takes the buffers over.
LEMMA CreateInd == ASSUME IndInv, CreateContext PROVE IndInv'
<1>1. CASE pc' = "oops"
  <2>1. UNCHANGED <<req, lost, heap, ptr, size, static, badfree>>
    BY <1>1 DEF CreateContext, GoTo
  <2>2. TypeOK'
    BY <1>1, <2>1 DEF IndInv, TypeOK, Pc
  <2>3. PointersOK'
    BY <1>1, <2>1 DEF CreateContext, IndInv, PointersOK, Building, Built
  <2>4. BlocksOK'
    BY <1>1, <2>1 DEF IndInv, BlocksOK, Live
  <2>5. OwnedOK'
    BY <1>1 DEF OwnedOK
  <2>6. CodeOK'
    BY <1>1 DEF CodeOK, Building, Built
  <2> QED
    BY <2>1, <2>2, <2>3, <2>4, <2>5, <2>6 DEF IndInv
<1>2. CASE pc' = "stack"
  <2>1. /\ heap' = [heap EXCEPT !["context"] = 8]
        /\ ptr' = [b \in Segment |->
                     IF b = "code" \/ (b = "args" /\ req.args \div 4 > 0)
                     THEN 0 ELSE NULL]
        /\ size' = SegmentSize
        /\ UNCHANGED <<req, lost, static, badfree>>
        /\ pc = "context"
    BY <1>2 DEF CreateContext, GoTo
  <2>2. TypeOK'
    BY <1>2, <2>1, SegmentSizeType, SmallSize DEF IndInv, TypeOK, Pc
  <2>3. PointersOK'
    BY <1>2, <2>1 DEF PointersOK, Building, Built, Segment
  <2>4. \A b \in Segment : heap'[b] = heap[b]
    BY <2>1 DEF IndInv, TypeOK, Segment
  <2>5. req.args > 0 <=> req.args \div 4 > 0
    BY RequestOK DEF IndInv
  <2>6. BlocksOK'
    BY <1>2, <2>1, <2>4, <2>5 DEF IndInv, BlocksOK, Live
  <2>7. OwnedOK'
    BY <1>2, <2>1, <2>4, <2>5, CtxAssumption
       DEF IndInv, PointersOK, OwnedOK, Live, Building, Built
  <2>8. CodeOK'
    BY <1>2, <2>1, <2>4, SegmentSizeType
       DEF IndInv, CodeOK, Building, Built, Segment
  <2> QED
    BY <2>1, <2>2, <2>3, <2>6, <2>7, <2>8 DEF IndInv
<1> QED
  BY <1>1, <1>2 DEF CreateContext, GoTo

\* A segment is allocated, or everything allocated so far is freed.
LEMMA AllocInd ==
  ASSUME IndInv,
         NEW b \in Allocated, NEW next \in Building,
         <<b, next>> \in {<<"stack", "call">>, <<"call", "print">>,
                          <<"print", "shadow">>},
         AllocSegment(b, next)
  PROVE  IndInv'
<1>1. pc = b /\ pc \in Building
  BY DEF AllocSegment, Allocated, Building
<1>2. CASE FreeSegments(ptr) /\ pc' = "out"
  <2>1. \A s \in Segment : ptr[s] \in {NULL, 0}
    BY <1>1 DEF IndInv, PointersOK
  <2> QED
    BY <1>1, <1>2, <2>1, FreeSegmentsOK DEF AllocSegment
<1>3. CASE /\ heap' = [heap EXCEPT ![b] = static[b]]
           /\ ptr' = [ptr EXCEPT ![b] = 0]
           /\ pc' = next
           /\ UNCHANGED badfree
  <2>1. UNCHANGED <<req, lost, size, static>>
    BY DEF AllocSegment
  <2>2. b \in Segment /\ b # "code" /\ b # "args" /\ b # "context"
    BY DEF Allocated, Segment
  <2>3. static[b] \in SizeT /\ static[b] # Free
    BY CtxAssumption DEF IndInv, TypeOK, SizeT
  <2>4. /\ \A s \in Segment \cup {"context"} :
             heap'[s] = IF s = b THEN static[b] ELSE heap[s]
        /\ \A s \in Segment : ptr'[s] = IF s = b THEN 0 ELSE ptr[s]
    BY <1>3 DEF IndInv, TypeOK
  <2>5. TypeOK'
    BY <1>3, <2>1, <2>2, <2>3 DEF IndInv, TypeOK, Building, Pc
  <2>6. PointersOK'
    BY <1>1, <1>3, <2>2, <2>4 DEF IndInv, PointersOK, Building, Built, Segment,
       Allocated
  <2>7. BlocksOK'
    BY <1>3, <2>3, <2>4 DEF IndInv, BlocksOK, Live, Building
  <2>8. OwnedOK'
    BY <1>1, <1>3, <2>1, <2>2, <2>4, CtxAssumption
       DEF IndInv, OwnedOK, Live, Building, Built
  <2>9. CodeOK'
    BY <1>1, <1>3, <2>1, <2>2, <2>4 DEF IndInv, CodeOK, Building, Built, Segment
  <2> QED
    BY <1>3, <2>5, <2>6, <2>7, <2>8, <2>9 DEF IndInv
<1> QED
  BY <1>2, <1>3 DEF AllocSegment, GoTo

\* The init vectors are hidden once nothing can fail any more.
LEMMA ShadowInd == ASSUME IndInv, ShadowInitVectors PROVE IndInv'
<1>1. /\ pc = "shadow" /\ pc' = "ready" /\ UNCHANGED <<req, lost, heap, static, badfree>>
      /\ \A b \in Segment : ptr'[b] = IF b \in Shadowed THEN ptr[b] + 4 ELSE ptr[b]
      /\ \A b \in Sized : size'[b] = IF b \in Shadowed THEN Less(size[b], 16) ELSE size[b]
  BY DEF ShadowInitVectors, GoTo
<1>2. \A b \in Segment : IF b \in Shadowed THEN ptr[b] = 0 ELSE ptr[b] \in {NULL, 0}
  BY <1>1 DEF IndInv, PointersOK, Building, Shadowed, Segment
<1>3. \A b \in Segment : IF b \in Shadowed THEN ptr'[b] = 4 ELSE ptr'[b] = ptr[b]
  BY <1>1, <1>2
<1>4. \A b \in Segment : ptr'[b] = NULL <=> ptr[b] = NULL
  BY <1>2, <1>3, CtxAssumption
<1>5. \A b \in Sized : size'[b] \in SizeT
  <2>1. ASSUME NEW b \in Sized PROVE size[b] \in SizeT /\ Less(size[b], 16) \in SizeT
    <3>1. size[b] \in SizeT /\ SizeT \subseteq Int
      BY RequestOK DEF IndInv, TypeOK
    <3>2. size[b] - 16 \in Int
      <4>1. size[b] \in Int
        BY <3>1
      <4> QED
        BY <4>1
    <3>3. (size[b] - 16) % SizeMod \in SizeT
      BY <3>2, Wrapped
    <3> QED
      BY <3>1, <3>3 DEF Less
  <2> QED
    BY <1>1, <2>1
<1>6. TypeOK'
  <2>1. ptr' \in [Segment -> {NULL, 0, 4}]
    BY <1>2, <1>3 DEF ShadowInitVectors
  <2>2. size' \in [Sized -> SizeT]
    BY <1>5 DEF ShadowInitVectors
  <2> QED
    BY <1>1, <2>1, <2>2 DEF IndInv, TypeOK, Pc
<1>7. PointersOK'
  BY <1>1, <1>2, <1>3 DEF PointersOK, Building, Built
<1>8. BlocksOK'
  BY <1>1, <1>4 DEF IndInv, BlocksOK, Live
<1>9. OwnedOK'
  BY <1>1, <1>4 DEF IndInv, OwnedOK, Live, Building, Built
<1>10. CodeOK'
  <2>1. heap["code"] = req.code /\ size["code"] = req.code
    BY <1>1 DEF IndInv, CodeOK, Building
  <2>2. size'["code"] = Less(req.code, 16)
    BY <1>1, <2>1 DEF Sized, Shadowed
  <2>3. req.code > 0 => Less(req.code, 16) = req.code - 16
    <3>1. req.code > 0 => req.code - 16 \in SizeT
      BY RequestOK, CtxAssumption DEF IndInv, SizeT
    <3> QED
      BY <3>1, Wrapped, RequestOK DEF IndInv, Less
  <2> QED
    BY <1>1, <2>1, <2>2, <2>3 DEF CodeOK, Building, Built
<1> QED
  BY <1>1, <1>6, <1>7, <1>8, <1>9, <1>10 DEF IndInv

\* The execution itself only publishes the sizes.
LEMMA RunInd ==
  ASSUME IndInv, StartInterpreter \/ InterpreterReturns PROVE IndInv'
<1>1. /\ UNCHANGED <<req, lost, heap, ptr, size, badfree>>
      /\ pc \in Built /\ pc' \in Built
  BY DEF StartInterpreter, InterpreterReturns, GoTo, Built
<1>2. TypeOK'
  BY <1>1 DEF IndInv, TypeOK, Built, Pc, StartInterpreter, InterpreterReturns,
     Allocated, Sized
<1> QED
  BY <1>1, <1>2 DEF IndInv, PointersOK, BlocksOK, OwnedOK, CodeOK, Live,
     Building, Built

\* cleanup_runtime_ctx moves the pointers back first.
LEMMA CleanupInd == ASSUME IndInv, cleanup_runtime_ctx PROVE IndInv'
<1> DEFINE p == [b \in Segment |-> IF b \in Shadowed THEN ptr[b] - 4 ELSE ptr[b]]
<1>1. pc \in Built /\ FreeSegments(p) /\ pc' = "out" /\ UNCHANGED <<req, lost, size, static>>
  BY DEF cleanup_runtime_ctx, GoTo, Built
<1>2. \A b \in Segment : IF b \in Shadowed THEN ptr[b] = 4 ELSE ptr[b] \in {NULL, 0}
  BY <1>1 DEF IndInv, PointersOK
<1>3. \A b \in Segment : p[b] = IF b \in Shadowed THEN 0 ELSE ptr[b]
  BY <1>2
<1>4. /\ \A b \in Segment : p[b] \in {NULL, 0}
      /\ \A b \in Segment : p[b] = NULL <=> ptr[b] = NULL
  BY <1>2, <1>3, CtxAssumption
<1> HIDE DEF p
<1> QED
  BY <1>1, <1>4, FreeSegmentsOK

\* Every step keeps the invariant.
LEMMA NextInd == IndInv /\ [Next]_vars => IndInv'
<1> SUFFICES ASSUME IndInv, [Next]_vars PROVE IndInv'
  OBVIOUS
<1>1. CASE UNCHANGED vars
  BY <1>1 DEF vars, IndInv, TypeOK, PointersOK, BlocksOK, OwnedOK, CodeOK, Live
<1>2. CASE \/ AllocSegment("stack", "call") \/ AllocSegment("call", "print")
           \/ AllocSegment("print", "shadow")
  BY <1>2, AllocInd DEF Allocated, Building
<1> QED
  BY <1>1, <1>2, BuffersInd, CreateInd, ShadowInd, RunInd, CleanupInd DEF Next

\* The invariant holds throughout.
THEOREM Inductive == Spec => []IndInv
<1>1. Init => IndInv
  <2> SUFFICES ASSUME Init PROVE IndInv
    OBVIOUS
  <2>1. TypeOK
    <3>1. 0 \in SizeT
      BY SmallSize
    <3> QED
      BY <3>1 DEF Init, TypeOK, Pc
  <2>2. PointersOK /\ BlocksOK /\ OwnedOK /\ CodeOK
    BY DEF Init, PointersOK, BlocksOK, OwnedOK, CodeOK, Live, Building, Built, Segment
  <2> QED
    BY <2>1, <2>2 DEF Init, IndInv
<1> QED
  BY <1>1, NextInd, PTL DEF Spec

\* For every request, an empty program included, pointers stay at or one
\* line behind the start of their blocks, and sizes are those of a size_t:
\* they may have wrapped around, see CodeBound.
THEOREM TypeCorrect == Spec => []TypeOK
<1>1. IndInv => TypeOK
  BY DEF IndInv
<1> QED
  BY <1>1, Inductive, PTL

\* Whatever fails, vfree is only given the starts of allocated blocks.
THEOREM ExactFrees == Spec => []FreesAreExact
<1>1. IndInv => FreesAreExact
  BY DEF IndInv, FreesAreExact
<1> QED
  BY <1>1, Inductive, PTL

\* Nothing that can still be freed stays allocated after an execution.
THEOREM NothingLeaks == Spec => []NoLeak
<1>1. IndInv => NoLeak
  BY DEF IndInv, TypeOK, PointersOK, OwnedOK, NoLeak, Live, Building, Built
<1> QED
  BY <1>1, Inductive, PTL

\* The bound of the jump checks is the end of the code block for every
\* program that is not empty, and for an empty one it is not.
THEOREM CodeBound == Spec => []CodeFits
<1>1. IndInv => CodeFits
  <2> SUFFICES ASSUME IndInv, pc = "running"
               PROVE  (heap["code"] = 4 * ptr["code"] + size["code"]) = (req.code > 0)
    BY DEF CodeFits
  <2>1. ptr["code"] = 4 /\ heap["code"] = req.code
        /\ (req.code > 0 => size["code"] = req.code - 16)
    BY DEF IndInv, PointersOK, CodeOK, Built, Shadowed, Segment
  <2>2. req.code \in Nat /\ size["code"] \in Nat
    BY RequestOK DEF IndInv, TypeOK, Sized
  <2> QED
    BY <2>1, <2>2
<1> QED
  BY <1>1, Inductive, PTL
=============================================================================
