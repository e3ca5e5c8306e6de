----------------------------- MODULE MCLiveRun -----------------------------
(***************************************************************************)
(* A small instance of LiveRun for TLC: three cases of at most two calls   *)
(* over the metered transport of MCMetering, so that a cap, a bad reply or *)
(* a dear one may stop the run in, before or after any case.               *)
(***************************************************************************)
EXTENDS MCMetering, LiveRun
=============================================================================
