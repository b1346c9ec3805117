------------------------------ MODULE RunClaims ------------------------------
(***************************************************************************)
(* What the documents and comments say of a run and the code does not do;  *)
(* each claim is refuted by a run of its own.                              *)
(***************************************************************************)
EXTENDS SingleRun

(***************************************************************************)
(* run_request.rs: events before time_start are used for warmup, so no     *)
(* order is decided on one.  Without a warmup_start the clock starts at    *)
(* time_start, the gate is open at once, and the strategy trades on them.  *)
(***************************************************************************)
NoDecisionBeforeStart == queue # <<>> => stream[pos - 1].ts >= TimeStart
=============================================================================
