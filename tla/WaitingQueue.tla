--------------------------- MODULE WaitingQueue ---------------------------
(***************************************************************************)
(* scheduler/queue.py: the FIFO of waiting requests.  The items before     *)
(* head have been popped; they are dropped when there are CompactThreshold *)
(* of them (64 in the code) and they are at least half of the list.        *)
(* Indices start at 1.                                                     *)
(***************************************************************************)
EXTENDS Naturals, Sequences, SequencesExt

CONSTANT CompactThreshold       \* _COMPACT_HEAD_THRESHOLD

ASSUME CompactAssumption == CompactThreshold \in Nat \ {0}

EmptyQueue == [items |-> <<>>, head |-> 0]

\* __iter__, and what __len__, __bool__ and __getitem__ are about
Contents(q) == SubSeq(q.items, q.head + 1, Len(q.items))

QueueLen(q) == Len(q.items) - q.head

At(q, i) == q.items[q.head + i]

Compacted(q) ==
    IF q.head < CompactThreshold \/ q.head * 2 < Len(q.items)
    THEN q
    ELSE [items |-> Contents(q), head |-> 0]

Enqueue(q, x) == [q EXCEPT !.items = Append(@, x)]

PopLeft(q) == Compacted([q EXCEPT !.head = @ + 1])

\* Mutation: the logical index is used as a physical one.
PopPhysical(q, i) ==
    IF i = 1 THEN PopLeft(q)
             ELSE Compacted([q EXCEPT !.items = RemoveAt(@, i)])

\* pop(index): an item in the middle leaves the list, the head stays.
PopAt(q, i) ==
    IF i = 1 THEN PopLeft(q)
             ELSE Compacted([q EXCEPT !.items = RemoveAt(@, q.head + i)])
=========================================================================
