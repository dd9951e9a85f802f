------------------------------ MODULE MCBuddy ------------------------------
(* Constant values for the runs of Buddy.                                  *)
EXTENDS Buddy

(* 1ULL << order                                                           *)
ShiftTable == [o \in 0..MAX_ORDER |-> 2^o]
=============================================================================
