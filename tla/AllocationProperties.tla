------------------------ MODULE AllocationProperties ------------------------
(* What the allocator promises: properties of the behaviours of Allocation.  *)
EXTENDS Allocation

TypeOK ==
    /\ state \in [Allocs -> States]
    /\ stamp \in [Allocs -> Nat]
    /\ group \in [Allocs -> SUBSET Targets]
    /\ owner \in [Targets -> Allocs \cup {NoAlloc}]
    /\ oprio \in [Targets -> Nat \cup {-1}]
    /\ queue \in [Targets -> SUBSET Allocs]
    /\ alock \in [Allocs -> Procs \cup {NoProc}]
    /\ tlock \in [Targets -> Procs \cup {NoProc}]
    /\ job \in [Procs -> Job]
    /\ stale \in [Procs -> SUBSET Allocs]
    /\ clock \in 0 .. MaxClock
    /\ crashes \in 0 .. MaxCrashes

\* The allocation whose lock p needs where it is, and the target.
Locks(p) ==
    CASE job[p].pc \in {"calc_read", "calc_write"} -> {job[p].got}
      [] job[p].pc \in {"del_check", "del_id", "del_meta"} -> {job[p].cur}
      [] OTHER -> {}

\* Two processes never compute or delete one allocation at a time, nor assign
\* one target at a time ("lock so we don't have two processes doing the same
\* processing"), whatever times out or dies.
ExclusiveSections ==
    \A p, q \in Procs : p # q =>
        /\ Locks(p) \cap Locks(q) = {}
        /\ At(p, "grant") /\ At(q, "grant") => job[p].tgt # job[q].tgt

Deleting(a) ==
    \E p \in Procs : /\ job[p].cur = a
                     /\ job[p].pc \in {"del_check", "del_id", "del_meta", "del_rm"}

\* "active: all the targets in a group have been succesfully allocated": the
\* targets of the group an active allocation uses are all its own.
ActiveOwnsGroup ==
    \A a \in Allocs : state[a] = "active" /\ ~Deleting(a) =>
        \A t \in group[a] : owner[t] = a

\* While an allocation waits it keeps its place on every target it asked for:
\* it is in the queue, or has the target, or request() is about to queue it.
Enqueuing(a, t) == \E p \in Procs : At(p, "enqueue") /\ job[p].cur = a /\ t \in job[p].todo

PlaceKept ==
    \A a \in Allocs : state[a] = "queued" =>
        \A t \in TargetsOf(a) : a \in queue[t] \/ owner[t] = a \/ Enqueuing(a, t)

\* An allocation that holds a whole group is activated, unless some process is
\* still to compute it or has it cached without its groups.
Held(a) == {t \in Targets : owner[t] = a}

NoMissedActivation ==
    \A a \in Allocs :
        /\ state[a] = "queued"
        /\ \E i \in DOMAIN Groups[a] : Complete(a, i, Held(a))
        /\ \A p \in Procs : job[p].got # a
        => \E p \in Procs : a \in stale[p]

\* Of two that wait for a target with one priority, the one that asked first gets
\* it ("first-come-first-serve sort two allocations with the same priority").
FirstComeFirstServed ==
    [][\A t \in Targets, a, b \in Allocs :
         /\ a \in queue[t] /\ Live(a)
         /\ Prio[a] = Prio[b] /\ stamp[a] < stamp[b]
         => ~(owner'[t] = b /\ owner[t] # b)]_vars

\* A live owner only loses a target to another allocation that is more urgent,
\* or when no priority was recorded for it and 500 was assumed.
Evicted(t, a, b) ==
    /\ owner[t] = a /\ owner'[t] = b
    /\ a # NoAlloc /\ b \notin {a, NoAlloc}
    /\ Live(a)

EvictsLessUrgent ==
    [][\A t \in Targets, a, b \in Allocs :
         Evicted(t, a, b) => Prio[b] < Prio[a] \/ (oprio[t] = -1 /\ Prio[b] < 500)]_vars

\* Deleting an allocation never takes a target from another one.
DeleteKeepsNewOwner ==
    [][\A p \in Procs : DelWipeId(p) => owner[job[p].tgt] \in {job[p].cur, NoAlloc}]_vars

\* The allocator as its users see it.  An allocation is ending from the moment
\* delete() starts to wipe its targets.
Phase(a) ==
    CASE state[a] = "none" -> "none"
      [] state[a] = "gone" -> "gone"
      [] Live(a) /\ Deleting(a) -> "ending"
      [] state[a] \in {"new", "stamped", "queued"} /\ ~Deleting(a) -> "waiting"
      [] state[a] = "active" /\ ~Deleting(a) -> "active"
      [] OTHER -> "preempted"

User == INSTANCE AllocationAbstract WITH
    phase <- [a \in Allocs |-> Phase(a)],
    using <- [a \in Allocs |-> IF Phase(a) = "active" THEN group[a] ELSE {}],
    holder <- owner

\* Whatever queues, locks and unlocked reads do, users see the abstract allocator.
Implements == User!Promise

\* The group of an allocation its user was told about may change as other targets
\* free up, but only to one that comes first.
InUse(a) == state[a] = "active" /\ \A p \in Procs : job[p].cur # a

FirstGroupKept ==
    [][\A a \in Allocs : InUse(a) /\ InUse(a)' /\ group'[a] # group[a] =>
         \E i, j \in DOMAIN Groups[a] :
            i < j /\ Groups[a][i] = group'[a] /\ Groups[a][j] = group[a]]_vars

\* A target whose owner was removed is eventually taken from it: "the next _run()
\* call will clean them", at the latest that of the next maintenance.
OrphansFreed ==
    \A t \in Targets, a \in Allocs :
        owner[t] = a /\ state[a] = "gone" ~> owner[t] # a

\* A free target somebody waits for is eventually given to somebody.
FreeTargetsServed ==
    \A t \in Targets :
        owner[t] = NoAlloc /\ (\E a \in queue[t] : Live(a))
        ~> owner[t] # NoAlloc \/ ~(\E a \in queue[t] : Live(a))

=============================================================================
