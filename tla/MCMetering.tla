----------------------------- MODULE MCMetering -----------------------------
(***************************************************************************)
(* A small instance of Metering for TLC.  Caching is dearer than input, as *)
(* in the smoke protocol, and the smaller request costs 8 at most, the     *)
(* larger 10: three worst cases fit the cost cap, four do not, and four    *)
(* cheap calls reach the cap on calls.                                     *)
(***************************************************************************)
EXTENDS MeteringProperties, TLC

Prices == ("input_tokens" :> 1) @@ ("output_tokens" :> 2)
          @@ ("cache_creation_input_tokens" :> 2) @@ ("cache_read_input_tokens" :> 0)

SomeRequests ==
  {[size |-> 1, matches |-> TRUE], [size |-> 2, matches |-> TRUE],
   [size |-> 1, matches |-> FALSE]}

Usage(input, output, write, read) ==
  ("input_tokens" :> input) @@ ("output_tokens" :> output)
  @@ ("cache_creation_input_tokens" :> write) @@ ("cache_read_input_tokens" :> read)

Small    == Usage(1, 1, None, None)
Cached   == Usage(0, 1, 0, 2)
Dearest  == Usage(0, 2, 2, None)
Wordy    == Usage(1, 3, None, None)
Verbose  == Usage(0, 6, 0, 0)
Unbounded == Usage(0, 0, 10, 0)
Greatest == Usage(MAX_USAGE_COUNT, 0, 0, 0)

Invalid == {None, Usage(None, 1, 0, 0), Usage(1, -1, 0, 0),
            Usage(MAX_USAGE_COUNT + 1, 0, 0, 0)}

Good(usage) == [status |-> "2xx", large |-> FALSE, usage |-> usage,
                served |-> TRUE, rebuilt |-> TRUE]

SomeReplies ==
  {Good(usage) : usage \in {Small, Cached, Dearest, Wordy, Verbose,
                            Unbounded, Greatest} \cup Invalid}
  \cup {[Good(Small) EXCEPT !.status = status] : status \in {"other", "invalid", "unreadable"}}
  \cup {[Good(usage) EXCEPT !.served = FALSE] : usage \in {Small, Unbounded}}
  \cup {[Good(Small) EXCEPT !.large = TRUE], [Good(Dearest) EXCEPT !.rebuilt = FALSE]}
=============================================================================
