---------------------------- MODULE MCThreadPool ----------------------------
(***************************************************************************)
(* A bounded instance of ThreadPool for its safety and its liveness.  The  *)
(* packages are few because the safety properties are proved for any       *)
(* number of them (ThreadPoolProofs); with temporal properties no symmetry *)
(* is sound.                                                               *)
(***************************************************************************)
EXTENDS ThreadPool

=============================================================================
