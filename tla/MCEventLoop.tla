----------------------------- MODULE MCEventLoop -----------------------------
(***************************************************************************)
(* Model-checking instance of EventLoop: the three descriptors of the      *)
(* program.                                                                *)
(***************************************************************************)
EXTENDS EventLoop
=============================================================================
