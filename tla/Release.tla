------------------------------ MODULE Release ------------------------------
(***************************************************************************)
(* What happens to a target between two owners: test_target._state_cleanup *)
(* (ttbd/ttbl/__init__.py) and its callers there and in allocation.py.     *)
(*                                                                         *)
(* Every interface of a target has a release hook that resets what its     *)
(* user left: captures, tunnels, things plugged, certificates...  The      *)
(* hooks run in the order of a set, that is, in any; one that raises ends  *)
(* the cleanup.  Who cleans first and drops the owner later can be done    *)
(* again by the next who finds the record of the owner gone; who drops the *)
(* owner first cannot.  Targets an allocation has beyond the group it uses *)
(* are given back with no cleanup at all.  One action is one hook, or one  *)
(* field written; a user's operation is its check of the owner and, later, *)
(* what it does.                                                           *)
(***************************************************************************)
EXTENDS Naturals, Sequences, FiniteSets

CONSTANTS
    Procs,        \* server processes
    Removers,     \* those of them that remove allocations
    Targets, Allocs,
    Groups,       \* Groups[a]: the groups of targets a asks for, in order
    Urgent,       \* allocations that may preempt the others
    Releases,     \* TRUE: owners give single targets back
    Hooks,        \* the interfaces of a target
    Properties,   \* the user properties, cleared after the hooks
    MaxFaults,    \* bound on the hooks that raise and the processes that die
    MaxUses,      \* bound on the operations of users
    NoAlloc, NoProc

Parts == Hooks \cup {Properties}

TargetsOf(a) == UNION {Groups[a][n] : n \in DOMAIN Groups[a]}

ASSUME PartsAssumption == Properties \notin Hooks
ASSUME NamesAssumption ==
    /\ Removers \subseteq Procs /\ NoProc \notin Procs
    /\ NoAlloc \notin Allocs /\ Urgent \subseteq Allocs
    /\ Groups \in [Allocs -> Seq(SUBSET Targets)]
ASSUME BoundsAssumption ==
    Releases \in BOOLEAN /\ {MaxFaults, MaxUses} \subseteq Nat

VARIABLES
    state,      \* of the allocations
    group,      \* group_allocated: the group each uses, once it is active
    owner,      \* field _alloc.id of the targets
    queue,      \* queue[t]: the allocations that wait for t
    left,       \* left[t][c]: who changed part c of t since it was last reset
    alock,      \* lock files of the allocations and the targets
    tlock,
    using,      \* operations under way: of which owner on which target
    job,        \* what each process runs, and where it is
    spoiled,    \* (history) targets whose cleanup was cut short or disturbed
    soiled,     \* (history) targets that got dirty with no cleanup to come
    uses, faults

vars == <<state, group, owner, queue, left, alock, tlock, using, job, spoiled, soiled, uses,
  faults>>

Live(a) == state[a] # "gone"

PCs == {"idle", "run", "clean", "wipe", "restart", "grant", "calculate", "extras", "delete",
        "remove"}

Job == [pc   : PCs,
        path : {"none", "orphan", "release", "preempt", "delete"},
        cur  : Allocs \cup {NoAlloc},   \* the allocation removed or preempted
        tgts : SUBSET Targets,          \* targets to run the scheduler on, or to clean
        tgt  : SUBSET Targets,          \* the target at hand, or the extras to give back
        todo : SUBSET Parts,            \* its parts that are still to reset
        got  : Allocs \cup {NoAlloc}]   \* the waiter it is for

Idle == [pc |-> "idle", path |-> "none", cur |-> NoAlloc, tgts |-> {}, tgt |-> {},
         todo |-> {}, got |-> NoAlloc]

At(p, loc) == job[p].pc = loc
Goto(p, j) == job' = [job EXCEPT ![p] = j]

Init ==
    /\ state = [a \in Allocs |-> "queued"]
    /\ owner = [t \in Targets |-> NoAlloc]
    /\ group = [a \in Allocs |-> {}]
    /\ queue = [t \in Targets |-> {a \in Allocs : t \in TargetsOf(a)}]
    /\ left = [t \in Targets |-> [c \in Parts |-> NoAlloc]]
    /\ alock = [a \in Allocs |-> NoProc]
    /\ tlock = [t \in Targets |-> NoProc]
    /\ job = [p \in Procs |-> Idle]
    /\ using = {} /\ spoiled = {} /\ soiled = {}
    /\ uses = 0 /\ faults = 0

Fault == faults < MaxFaults /\ faults' = faults + 1

\* Exceptions and deaths drop the locks.
DropLocks(p) ==
    /\ alock' = [a \in Allocs |-> IF alock[a] = p THEN NoProc ELSE alock[a]]
    /\ tlock' = [t \in Targets |-> IF tlock[t] = p THEN NoProc ELSE tlock[t]]

\* (mutant) it is enough to see that nobody has the lock
LooksOnly(p, t) == tlock[t] = NoProc /\ UNCHANGED tlock

Lock(p, t) ==
    /\ tlock[t] = NoProc
    /\ tlock' = [tlock EXCEPT ![t] = p]

\* _deallocate() drops the owner and then cleans; _allocdb_get() and delete()
\* clean and then drop the owner.
WipesFirst(path) == path \in {"release", "preempt"}

\* (mutant) the properties are not cleared
CleanHooks(p, path, a, t, for) ==
    /\ Goto(p, [job[p] EXCEPT !.pc = "clean", !.path = path, !.cur = a, !.tgt = {t},
                 !.todo = Hooks, !.got = for])
    /\ owner' = IF WipesFirst(path) THEN [owner EXCEPT ![t] = NoAlloc] ELSE owner

Clean(p, path, a, t, for) ==
    /\ Goto(p, [job[p] EXCEPT !.pc = "clean", !.path = path, !.cur = a, !.tgt = {t},
                 !.todo = Parts, !.got = for])
    /\ owner' = IF WipesFirst(path) THEN [owner EXCEPT ![t] = NoAlloc] ELSE owner

\* No owner is left to show that the target is not clean.
CutShort(p) ==
    spoiled' = spoiled \cup IF At(p, "clean") /\ WipesFirst(job[p].path) THEN job[p].tgt ELSE {}

\* A removal that cleans the target, without its lock, does not notice a new owner.
Removing(t) == \E q \in Procs : job[q].path = "delete" /\ t \in job[q].tgt

Disturb(t) == spoiled' = spoiled \cup IF Removing(t) THEN {t} ELSE {}

-----------------------------------------------------------------------------
(* Owners: an active allocation uses its targets. *)

Ending(a) == \E p \in Procs : job[p].cur = a

\* target_owned_and_locked() looks whose the target is and drops its lock; whatever
\* the operation does to the target, it does later.
UseBegins(t) ==
    /\ owner[t] # NoAlloc
    /\ state[owner[t]] = "active"
    /\ uses < MaxUses
    /\ uses' = uses + 1
    /\ using' = using \cup {<<t, owner[t]>>}
    /\ UNCHANGED <<state, group, owner, queue, left, alock, tlock, job, spoiled, soiled, faults>>

\* Part c of t is to be reset by who dropped the owner, or it was reset and the target
\* is not yet another's.
Resets(p, t, c) ==
    /\ At(p, "clean") /\ WipesFirst(job[p].path)
    /\ t \in job[p].tgt /\ c \in job[p].todo

Passed(t, c) ==
    \E p \in Procs :
        job[p].pc \in {"clean", "wipe"} /\ t \in job[p].tgt /\ c \notin job[p].todo

\* What an operation does when its allocation lost the target, or was reset already.
TooLate(t, c, a) ==
    /\ owner[t] # a \/ Passed(t, c)
    /\ \A p \in Procs : ~Resets(p, t, c)

UseEnds(t, a, c) ==
    /\ <<t, a>> \in using
    /\ using' = using \ {<<t, a>>}
    /\ left' = [left EXCEPT ![t][c] = a]
    /\ soiled' = soiled \cup IF TooLate(t, c, a) THEN {t} ELSE {}
    /\ UNCHANGED <<state, group, owner, queue, alock, tlock, job, spoiled, uses, faults>>

\* release(): the owner gives one target back.
GiveBack(p, t) ==
    /\ Releases
    /\ At(p, "idle")
    /\ owner[t] # NoAlloc
    /\ Live(owner[t])
    /\ Lock(p, t)
    /\ Clean(p, "release", owner[t], t, NoAlloc)
    /\ Disturb(t)
    /\ UNCHANGED <<state, group, queue, left, alock, using, soiled, uses, faults>>

-----------------------------------------------------------------------------
(* The scheduler, _run() and _run_target(), as far as targets change hands. *)

Maintain(p) ==
    /\ At(p, "idle")
    /\ Goto(p, [Idle EXCEPT !.pc = "run", !.tgts = Targets])
    /\ UNCHANGED <<state, group, owner, queue, left, alock, tlock, using, spoiled, soiled,
         uses, faults>>

Waits(a, t) == a \in queue[t] /\ Live(a)

Preempts(a, t) ==
    /\ Waits(a, t)
    /\ a \in Urgent
    /\ owner[t] \in Allocs \ Urgent

\* The target is taken up under its lock: nothing to do, or it is granted to a
\* waiter, which may take it from its owner.
Skip(p, t) ==
    /\ At(p, "run")
    /\ t \in job[p].tgts
    /\ tlock[t] = NoProc
    /\ owner[t] # NoAlloc => Live(owner[t])
    /\ \A a \in Allocs : ~Preempts(a, t) /\ ~(owner[t] = NoAlloc /\ Waits(a, t))
    /\ Goto(p, [job[p] EXCEPT !.tgts = @ \ {t}])
    /\ UNCHANGED <<state, group, owner, queue, left, alock, tlock, using, spoiled, soiled,
         uses, faults>>

Take(p, t) ==
    /\ At(p, "run")
    /\ t \in job[p].tgts
    /\ owner[t] = NoAlloc
    /\ Lock(p, t)
    /\ \E a \in Allocs :
        /\ Waits(a, t)
        /\ Goto(p, [job[p] EXCEPT !.pc = "grant", !.tgt = {t}, !.got = a])
    /\ UNCHANGED <<state, group, owner, queue, left, alock, using, spoiled, soiled, uses, faults>>

TakeFromOwner(p, t) ==
    /\ At(p, "run")
    /\ t \in job[p].tgts
    /\ owner[t] # NoAlloc /\ Live(owner[t])
    /\ Lock(p, t)
    /\ \E a \in Allocs :
        /\ Preempts(a, t)
        /\ Clean(p, "preempt", owner[t], t, a)
    /\ Disturb(t)
    /\ UNCHANGED <<state, group, queue, left, alock, using, soiled, uses, faults>>

\* _allocdb_get(): the record of the owner is gone.
TakeFromRemoved(p, t) ==
    /\ At(p, "run")
    /\ t \in job[p].tgts
    /\ owner[t] # NoAlloc /\ ~Live(owner[t])
    /\ Lock(p, t)
    /\ Clean(p, "orphan", NoAlloc, t, NoAlloc)
    /\ UNCHANGED <<state, group, queue, left, alock, using, spoiled, soiled, uses, faults>>

RunDone(p) ==
    /\ At(p, "run")
    /\ job[p].tgts = {}
    /\ Goto(p, Idle)
    /\ UNCHANGED <<state, group, owner, queue, left, alock, tlock, using, spoiled, soiled,
         uses, faults>>

Grant(p) ==
    /\ At(p, "grant")
    /\ \E t \in job[p].tgt :
        /\ owner' = [owner EXCEPT ![t] = job[p].got]
        /\ queue' = [queue EXCEPT ![t] = @ \ {job[p].got}]
        /\ tlock' = [tlock EXCEPT ![t] = NoProc]
        /\ Goto(p, [Idle EXCEPT !.pc = "calculate", !.tgts = job[p].tgts \ {t},
                     !.got = job[p].got])
    /\ UNCHANGED <<state, group, left, alock, using, spoiled, soiled, uses, faults>>

\* calculate_stuff(): the allocation uses the first group it has all of, be it that it
\* was active or that it was preempted, and what else it has is to be given back.
Has(a) == {t \in TargetsOf(a) : owner[t] = a}
Complete(a, n) == n \in DOMAIN Groups[a] /\ Groups[a][n] \subseteq Has(a)
FirstComplete(a, n) == Complete(a, n) /\ \A m \in 1 .. n - 1 : ~Complete(a, m)

Calculate(p) ==
    /\ At(p, "calculate")
    /\ Live(job[p].got) /\ alock[job[p].got] = NoProc
    /\ LET a == job[p].got IN
       \/ \E n \in DOMAIN Groups[a] :
            /\ FirstComplete(a, n)
            /\ state' = [state EXCEPT ![a] = "active"]
            /\ group' = [group EXCEPT ![a] = Groups[a][n]]
            /\ Goto(p, [job[p] EXCEPT !.pc = "extras", !.tgt = Has(a) \ Groups[a][n]])
       \/ /\ \A n \in DOMAIN Groups[a] : ~Complete(a, n)
          /\ Goto(p, [job[p] EXCEPT !.pc = "extras"])
          /\ UNCHANGED <<state, group>>
    /\ UNCHANGED <<owner, queue, left, alock, tlock, using, spoiled, soiled, uses, faults>>

\* The record was removed meanwhile: its lock cannot be taken.
CalculateFails(p) ==
    /\ At(p, "calculate")
    /\ ~Live(job[p].got)
    /\ Goto(p, Idle)
    /\ UNCHANGED <<state, group, owner, queue, left, alock, tlock, using, spoiled, soiled,
         uses, faults>>

\* _deallocate_simple(): "there is no need for state clean up", used or not.
Used(t) == \E c \in Parts : left[t][c] # NoAlloc

ReleaseExtra(p, t) ==
    /\ At(p, "extras")
    /\ t \in job[p].tgt
    /\ tlock[t] = NoProc
    /\ IF owner[t] = job[p].got
       THEN /\ owner' = [owner EXCEPT ![t] = NoAlloc]
            /\ soiled' = soiled \cup IF Used(t) THEN {t} ELSE {}
            /\ Disturb(t)
       ELSE UNCHANGED <<owner, spoiled, soiled>>
    /\ Goto(p, [job[p] EXCEPT !.tgt = @ \ {t}])
    /\ UNCHANGED <<state, group, queue, left, alock, tlock, using, uses, faults>>

ExtrasDone(p) ==
    /\ At(p, "extras")
    /\ job[p].tgt = {}
    /\ Goto(p, [Idle EXCEPT !.pc = "run", !.tgts = job[p].tgts])
    /\ UNCHANGED <<state, group, owner, queue, left, alock, tlock, using, spoiled, soiled,
         uses, faults>>

-----------------------------------------------------------------------------
(* _state_cleanup() *)

\* The hooks in any order, the properties at last.
NextPart(p, c) == c \in job[p].todo /\ (c = Properties => job[p].todo = {Properties})

Reset(p) ==
    /\ At(p, "clean")
    /\ \E t \in job[p].tgt, c \in Parts :
        /\ NextPart(p, c)
        /\ left' = [left EXCEPT ![t][c] = NoAlloc]
        /\ Goto(p, [job[p] EXCEPT !.todo = @ \ {c}])
    /\ UNCHANGED <<state, group, owner, queue, alock, tlock, using, spoiled, soiled, uses, faults>>

\* A hook raises: delete() still removes the record, as it does "finally".
Raises(p) ==
    /\ At(p, "clean")
    /\ job[p].todo \cap Hooks # {}
    /\ Fault
    /\ CutShort(p)
    /\ Goto(p, IF job[p].path = "delete" THEN [Idle EXCEPT !.pc = "remove", !.cur = job[p].cur]
               ELSE Idle)
    /\ DropLocks(p)
    /\ UNCHANGED <<state, group, owner, queue, left, using, soiled, uses>>

\* What follows the cleanup is up to who asked for it.
Cleaned(p) ==
    /\ At(p, "clean")
    /\ job[p].todo = {}
    /\ CASE job[p].path = "release" -> /\ Goto(p, Idle)
                                       /\ DropLocks(p)
         [] job[p].path = "preempt" -> /\ Goto(p, [job[p] EXCEPT !.pc = "restart"])
                                       /\ UNCHANGED <<alock, tlock>>
         [] job[p].path \in {"orphan", "delete"} ->
                                       /\ Goto(p, [job[p] EXCEPT !.pc = "wipe"])
                                       /\ UNCHANGED <<alock, tlock>>
    /\ spoiled' = {t \in spoiled : t \in job[p].tgt => Removing(t)}
    /\ soiled' = {t \in soiled : t \in job[p].tgt => Used(t)}
    /\ UNCHANGED <<state, group, owner, queue, left, using, uses, faults>>

Wipe(p) ==
    /\ At(p, "wipe")
    /\ \E t \in job[p].tgt :
        /\ owner' = [owner EXCEPT ![t] = NoAlloc]
        /\ IF job[p].path = "orphan"
           THEN /\ tlock' = [tlock EXCEPT ![t] = NoProc]
                /\ Goto(p, [Idle EXCEPT !.pc = "run", !.tgts = job[p].tgts])
           ELSE /\ UNCHANGED tlock
                /\ Goto(p, [job[p] EXCEPT !.pc = "delete", !.tgt = {}])
    /\ UNCHANGED <<state, group, queue, left, alock, using, spoiled, soiled, uses, faults>>

\* The owner preempted is told to start again, unless it was removed.
Restart(p) ==
    /\ At(p, "restart")
    /\ IF Live(job[p].cur)
       THEN /\ state' = [state EXCEPT ![job[p].cur] = "restart-needed"]
            /\ Goto(p, [job[p] EXCEPT !.pc = "grant", !.cur = NoAlloc])
            /\ UNCHANGED tlock
       ELSE /\ Goto(p, Idle)
            /\ tlock' = [t \in Targets |-> IF tlock[t] = p THEN NoProc ELSE tlock[t]]
            /\ UNCHANGED state
    /\ UNCHANGED <<group, owner, queue, left, alock, using, spoiled, soiled, uses, faults>>

-----------------------------------------------------------------------------
(* allocation_c.delete() *)

Delete(p, a) ==
    /\ p \in Removers
    /\ At(p, "idle")
    /\ Live(a)
    /\ alock[a] = NoProc
    /\ IF state[a] = "active"
       THEN /\ alock' = [alock EXCEPT ![a] = p]
            /\ Goto(p, [Idle EXCEPT !.pc = "delete", !.path = "delete", !.cur = a,
                         !.tgts = group[a]])
       ELSE /\ Goto(p, [Idle EXCEPT !.pc = "remove", !.cur = a, !.tgts = TargetsOf(a)])
            /\ UNCHANGED alock
    /\ UNCHANGED <<state, group, owner, queue, left, tlock, using, spoiled, soiled, uses, faults>>

\* Each target of the group it uses that is still its own is cleaned.
DeleteTarget(p) ==
    /\ At(p, "delete")
    /\ \E t \in job[p].tgts :
        IF owner[t] = job[p].cur
        THEN Goto(p, [job[p] EXCEPT !.pc = "clean", !.tgts = @ \ {t}, !.tgt = {t},
                       !.todo = Parts])
        ELSE Goto(p, [job[p] EXCEPT !.tgts = @ \ {t}])
    /\ UNCHANGED <<state, group, owner, queue, left, alock, tlock, using, spoiled, soiled,
         uses, faults>>

DeleteDone(p) ==
    /\ At(p, "delete")
    /\ job[p].tgts = {}
    /\ alock' = [alock EXCEPT ![job[p].cur] = NoProc]
    /\ Goto(p, [Idle EXCEPT !.pc = "remove", !.cur = job[p].cur, !.tgts = group[job[p].cur]])
    /\ UNCHANGED <<state, group, owner, queue, left, tlock, using, spoiled, soiled, uses, faults>>

\* The record goes; after an exception the scheduler is not run.
Remove(p) ==
    /\ At(p, "remove")
    /\ state' = [state EXCEPT ![job[p].cur] = "gone"]
    /\ Goto(p, [Idle EXCEPT !.pc = "run", !.tgts = job[p].tgts])
    /\ UNCHANGED <<group, owner, queue, left, alock, tlock, using, spoiled, soiled, uses, faults>>

-----------------------------------------------------------------------------
Crash(p) ==
    /\ ~At(p, "idle")
    /\ Fault
    /\ CutShort(p)
    /\ Goto(p, Idle)
    /\ DropLocks(p)
    /\ UNCHANGED <<state, group, owner, queue, left, using, soiled, uses>>

Continue(p) ==
    \/ RunDone(p) \/ Grant(p) \/ Calculate(p) \/ CalculateFails(p) \/ ExtrasDone(p)
    \/ Reset(p) \/ Raises(p) \/ Cleaned(p) \/ Wipe(p)
    \/ Restart(p) \/ DeleteTarget(p) \/ DeleteDone(p) \/ Remove(p)
    \/ \E t \in Targets :
        \/ Skip(p, t) \/ Take(p, t) \/ TakeFromOwner(p, t) \/ TakeFromRemoved(p, t)
        \/ ReleaseExtra(p, t)

Next ==
    \/ \E p \in Procs : Continue(p) \/ Maintain(p) \/ Crash(p)
    \/ \E p \in Procs, t \in Targets : GiveBack(p, t)
    \/ \E p \in Procs, a \in Allocs : Delete(p, a)
    \/ \E t \in Targets : UseBegins(t) \/ \E a \in Allocs, c \in Parts : UseEnds(t, a, c)

Spec == Init /\ [][Next]_vars
=============================================================================
