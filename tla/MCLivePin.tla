----------------------------- MODULE MCLivePin -----------------------------
(***************************************************************************)
(* A small instance of LivePin for TLC: two revisions that differ in every *)
(* module, and a third that lacks one and holds another protocol.          *)
(***************************************************************************)
EXTENDS LivePin, TLC

Tree(main, runtime, protocol) ==
  ("evals" :> main) @@ ("live" :> main) @@ ("metering" :> runtime)
  @@ ("protocol" :> protocol)

Blobs ==
  ("r1" :> Tree("a", "a", "a")) @@ ("r2" :> Tree("b", "b", "a"))
  @@ ("r3" :> Tree("a", Absent, "b"))
=============================================================================
