--------------------------- MODULE MCReleaseGuard ---------------------------
(***************************************************************************)
(* A small instance of ReleaseGuard for TLC: two runs, two commits, and a  *)
(* build for each way the files can be wrong.                              *)
(***************************************************************************)
EXTENDS ReleaseGuard, TLC

File(name, kind, version) ==
  [name |-> name, kind |-> kind, version |-> version, digest |-> "d"]

Wheel   == File("w", "wheel", "v1")
Sdist   == File("s", "sdist", "v1")
Summary == File("r", "summary", "v1")

Good == [files |-> {Wheel, Sdist, Summary},
         manifest |-> ("w" :> "d") @@ ("s" :> "d") @@ ("r" :> "d")]

SomeDists ==
  { Good,
    [Good EXCEPT !.files = @ \ {Sdist}],
    [Good EXCEPT !.files = (@ \ {Wheel}) \cup {File("w", "wheel", "v0")}],
    [Good EXCEPT !.manifest = ("w" :> "d") @@ ("s" :> "d")],
    [Good EXCEPT !.manifest = @ @@ ("x" :> "d")],
    [Good EXCEPT !.manifest["s"] = "other"],
    [Good EXCEPT !.manifest = None] }
=============================================================================
