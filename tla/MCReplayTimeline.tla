------------------------- MODULE MCReplayTimeline -------------------------
(* Three requests, iterations that take two units of prefill and may load  *)
(* KV and wait in a queue or not, and arrivals in the middle of one.       *)
EXTENDS ReplayTimeline, TLC

CONSTANTS r1, r2, r3

MCRequests == {r1, r2, r3}
MCTwo == {r1, r2}

MCArrivals == {0, 2}
MCPrefill == {2}
MCKv == {0, 2}
MCQueue == {0, 1}

\* A coarse clock, three time units between two numbers, and a duration that
\* is not one of them: 10.2 ms at an epoch time, where the spacing of doubles
\* is 2^-12 ms.
MCCoarseArrivals == {0, 3}
MCCoarsePrefill == {10}
MCNone == {0}

Symmetric == Permutations(MCRequests)

=========================================================================
