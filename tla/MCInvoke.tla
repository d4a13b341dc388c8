------------------------------ MODULE MCInvoke ------------------------------
(***************************************************************************)
(* Instances of Invoke for model checking.  A token is added only by an    *)
(* execution and left behind only by one of a killed process, so the count *)
(* of the semaphore is bounded without a bound in the model.               *)
(***************************************************************************)
EXTENDS Invoke

CONSTANTS a, b, c

One == {a}
Two == {a, b}
Three == {a, b, c}
=============================================================================
