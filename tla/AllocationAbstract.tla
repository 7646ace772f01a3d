------------------------- MODULE AllocationAbstract -------------------------
(***************************************************************************)
(* What the users of the allocator are promised, with nothing of how it is *)
(* done: no queues, no locks, no processes.  An allocation waits, is       *)
(* active once it holds a whole group, and ends; a target has one holder,  *)
(* and changes holder by being given while free, by preemption or by being *)
(* taken back from an allocation that does not use it any more.            *)
(* AllocationProperties maps Allocation to this specification.             *)
(***************************************************************************)
EXTENDS Integers, Sequences

CONSTANTS Targets, Allocs, Groups, Prio, NoAlloc

VARIABLES
    phase,     \* of each allocation
    using,     \* the group an active allocation was told it may use
    holder     \* of each target

avars == <<phase, using, holder>>

Phases == {"none", "waiting", "active", "preempted", "ending", "gone"}
AsksFor(a, t) == \E i \in DOMAIN Groups[a] : t \in Groups[a][i]

AInit ==
    /\ phase = [a \in Allocs |-> "none"]
    /\ using = [a \in Allocs |-> {}]
    /\ holder = [t \in Targets |-> NoAlloc]

Ask(a) ==
    /\ phase[a] = "none"
    /\ phase' = [phase EXCEPT ![a] = "waiting"]
    /\ UNCHANGED <<using, holder>>

\* A free target goes to one that asked for it and still waits; the one chosen
\* may be ending by the time it gets it.
Give(t, a) ==
    /\ holder[t] = NoAlloc
    /\ phase[a] # "none" /\ AsksFor(a, t)
    /\ holder' = [holder EXCEPT ![t] = a]
    /\ UNCHANGED <<phase, using>>

\* A more urgent one takes the target, and the loser is told.
TakeOver(t, a, loser) ==
    /\ holder[t] = loser
    /\ phase[a] # "none" /\ AsksFor(a, t)
    /\ Prio[a] < Prio[loser]
    /\ holder' = [holder EXCEPT ![t] = a]
    /\ phase' = [phase EXCEPT ![loser] = IF @ = "ending" THEN @ ELSE "preempted"]
    /\ using' = [using EXCEPT ![loser] = {}]

\* All the targets of the group are held at that very moment.
Activate(a) ==
    /\ phase[a] \in {"waiting", "preempted", "active"}
    /\ \E i \in DOMAIN Groups[a] :
        /\ \A t \in Groups[a][i] : holder[t] = a
        /\ using' = [using EXCEPT ![a] = Groups[a][i]]
    /\ phase' = [phase EXCEPT ![a] = "active"]
    /\ UNCHANGED holder

\* What an active allocation holds beyond its group is given back.
GiveBack(t, a) ==
    /\ holder[t] = a
    /\ phase[a] = "active" /\ t \notin using[a]
    /\ holder' = [holder EXCEPT ![t] = NoAlloc]
    /\ UNCHANGED <<phase, using>>

End(a) ==
    /\ phase[a] \in {"waiting", "active", "preempted"}
    /\ phase' = [phase EXCEPT ![a] = "ending"]
    /\ using' = [using EXCEPT ![a] = {}]
    /\ UNCHANGED holder

Forget(a) ==
    /\ phase[a] = "ending"
    /\ phase' = [phase EXCEPT ![a] = "gone"]
    /\ UNCHANGED <<using, holder>>

\* The targets of one that ended become free.
Reclaim(t, a) ==
    /\ holder[t] = a
    /\ phase[a] \in {"ending", "gone"}
    /\ holder' = [holder EXCEPT ![t] = NoAlloc]
    /\ UNCHANGED <<phase, using>>

ANext ==
    \/ \E a \in Allocs : Ask(a) \/ Activate(a) \/ End(a) \/ Forget(a)
    \/ \E t \in Targets, a \in Allocs :
        \/ Give(t, a) \/ GiveBack(t, a) \/ Reclaim(t, a)
        \/ \E loser \in Allocs : TakeOver(t, a, loser)

Promise == AInit /\ [][ANext]_avars

=============================================================================
