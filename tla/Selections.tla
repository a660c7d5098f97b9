---------------------------- MODULE Selections ----------------------------
(***************************************************************************)
(* The list comprehensions that filter the list of running requests        *)
(* (replay/event_loop.py, streaming/replay.py), written with a recursive   *)
(* function.                                                               *)
(***************************************************************************)
EXTENDS Integers, Sequences

\* [x for x in q if x in S]
Keep(q, S) ==
    LET keep[n \in 0..Len(q)] ==
            IF n = 0 THEN <<>>
            ELSE IF q[n] \in S THEN Append(keep[n - 1], q[n]) ELSE keep[n - 1]
    IN  keep[Len(q)]

=========================================================================
