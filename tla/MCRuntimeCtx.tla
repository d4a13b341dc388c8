---------------------------- MODULE MCRuntimeCtx -----------------------------
(***************************************************************************)
(* Requests for model checking RuntimeCtx: default and given sizes, no     *)
(* code at all, an init vector alone and several lines, with and without   *)
(* arguments.                                                              *)
(***************************************************************************)
EXTENDS RuntimeCtx

SomeRequests ==
  [code : {0, 16, 48}, args : {0, 8}, stack : {0, 3}, call : {0, 50}, out : {0, 40}]
=============================================================================
