------------------------------ MODULE MCReplay ------------------------------
(***************************************************************************)
(* Several submissions of one key, driven by the replay adapters.          *)
(***************************************************************************)
EXTENDS MCInvestigator, ReplayModel, Cli

\* The same key, but an event that changed, and another provider.
ChangedEvent    == Config([Event EXCEPT !.change_id = "c2"], Policy, "p1", Tools)
ChangedProvider == Config(Event, Policy, "p2", Tools)

Colliding == {Trusted, ChangedEvent}
Changed   == {Trusted, ChangedProvider}

\* Every read has its entry, or the approval record is missing.
MCFixtures == {Required, Required \ {Read("get_approval_record", "c1")}}
Complete   == {Required}

MCRequests == Required \cup {Read("get_approval_record", "c2")}

Symmetry == Permutations(Submissions)
=============================================================================
