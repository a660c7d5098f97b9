------------------------- MODULE MCStreamingSweep -------------------------
(* Every trace of two records of two instances and two ids, at one time or *)
(* one after the other; unsorted ones; and longer ones of one instance: a  *)
(* queue that is compacted and popped in the middle, an id used again.     *)
EXTENDS StreamingSweep

Rec(t, i, r, o) == [time |-> t, instance |-> i, id |-> r, outcome |-> o]

At0 == {Rec(0, i, r, o) : i \in 1..2, r \in 1..2, o \in {"ok", "long"}}
At1 == {[a EXCEPT !.time = 1] : a \in At0}

MCTraces ==
    {<<a, b>> : a \in At0, b \in At0 \cup At1} \cup
    {<<b, a>> : a \in At0, b \in At1} \cup
    {<<Rec(0, 1, 1, "ok"), Rec(0, 2, 1, "long"), Rec(1, 1, 1, "ok")>>,
     <<Rec(0, 1, 2, "ok"), Rec(1, 1, 1, "ok"), Rec(2, 2, 3, "ok")>>,
     <<Rec(0, 1, 1, "ok"), Rec(0, 1, 2, "ok"), Rec(0, 1, 3, "ok")>>,
     <<Rec(0, 1, 1, "ok"), Rec(0, 1, 2, "bad")>>}

MCInstances == {1, 2}
MCDurations == {1}
MCCapacities == <<1, 2>>

=========================================================================
