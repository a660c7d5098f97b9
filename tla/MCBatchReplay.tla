-------------------------- MODULE MCBatchReplay --------------------------
(* Blocks of two tokens.  Prompts of five and four tokens share their      *)
(* first block; the fifth token of the longer is a partial block.  A       *)
(* prompt may be empty.                                                    *)
EXTENDS BatchReplay

CONSTANTS a1, a2, a3, b2

Long   == [tokens |-> 5, blocks |-> <<a1, a2, a3>>]
Forked == [tokens |-> 4, blocks |-> <<a1, b2>>]
Empty  == [tokens |-> 0, blocks |-> <<>>]

MCPrompts == {Long, Forked, Empty}
MCLongPrompts == {Long}
MCDurations == {1, 2}
MCUnit == {1}

=========================================================================
