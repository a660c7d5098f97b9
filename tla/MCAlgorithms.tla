--------------------------- MODULE MCAlgorithms ---------------------------
(* Every list of three requests for the infinite-HBM replay, with both      *)
(* scopes and a TTFT of zero or not, and an empty list for the lookups.     *)
EXTENDS Algorithms

\* Prompts that part within a block, at its end, or not at all.
Prompts == {<<>>, <<1, 1, 1, 2>>, <<1, 1, 1, 2, 2, 2, 2>>, <<1, 1, 1, 1, 1, 1, 1>>,
            <<2, 2, 2, 1, 1, 1, 1>>}

Requests == [time : 0..1, instance : {1}, model : {"m"}, tenant : {"s", "t"}, tokens : Prompts]
             \cup [time : {0}, instance : {2}, model : {"m"}, tenant : {"s"}, tokens : Prompts]
             \cup [time : {1}, instance : {1}, model : {"n"}, tenant : {"s"}, tokens : Prompts]

MCTraces ==
    {[requests |-> rs, scope |-> scope, ttft |-> ttft] :
        rs \in [1..3 -> Requests], scope \in {Isolated, Shared}, ttft \in 0..1}
      \cup {[requests |-> <<>>, scope |-> Isolated, ttft |-> 0]}
=========================================================================
