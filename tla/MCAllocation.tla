---------------------------- MODULE MCAllocation ----------------------------
(* Instances of Allocation for TLC. *)
EXTENDS AllocationProperties, TLC

CONSTANTS w1, w2, cleaner, t1, t2

TwoAllocs == {1, 2}
ThreeAllocs == {1, 2, 3}

\* Both need the same target.
OneTarget == 1 :> <<{t1}>> @@ 2 :> <<{t1}>>
\* One needs one target, the other two.
OneOfTwo == 1 :> <<{t1}>> @@ 2 :> <<{t1, t2}>>
\* The first is content with either target.
AltGroups == 1 :> <<{t1}, {t2}>> @@ 2 :> <<{t1, t2}>>

SamePrio == 1 :> 1000 @@ 2 :> 1000
\* Everybody alike.
AllOneTarget == [a \in Allocs |-> <<{t1}>>]
AllSamePrio == [a \in Allocs |-> 1000]
FirstUrgent == 1 :> 0 @@ 2 :> 1000

Nobody == [a \in Allocs |-> FALSE]
Everybody == [a \in Allocs |-> TRUE]
OnlyFirst == 1 :> TRUE @@ 2 :> FALSE

Symmetric == Permutations({w1, w2})
=============================================================================
