------------------------------- MODULE Holder -------------------------------
(***************************************************************************)
(* Who holds a target, and the request it is served: the frame in which    *)
(* the interfaces of a target run.  A request checks that it comes from    *)
(* the owner, test_target.target_owned_and_locked(), and then runs with no *)
(* lock.  One request is served at a time here, though the target may go   *)
(* to another meanwhile, as the extra of an allocation.                    *)
(***************************************************************************)
EXTENDS Naturals

CONSTANTS
    Allocs,     \* allocations that get the target, one after another
    NoAlloc

ASSUME AllocsAssumption == NoAlloc \notin Allocs

VARIABLES
    owner,      \* the allocation that has the target
    past,       \* those that had it
    handed,     \* (history) those that gave it back with no hook run since
    job         \* the request that is served, and where it is

holding == <<owner, past, handed>>

None == 0

Idle == [pc |-> "idle", op |-> "none", who |-> NoAlloc, hooks |-> {}, pid |-> None,
         name |-> {}]

At(loc) == job.pc = loc
Flow(loc) == job' = [job EXCEPT !.pc = loc]
Finish == job' = Idle

HolderInit ==
    /\ owner = NoAlloc
    /\ past = {}
    /\ handed = {}
    /\ job = Idle

Acquire(a) ==
    /\ job.op # "release"
    /\ owner = NoAlloc
    /\ a \notin past
    /\ owner' = a
    /\ past' = past \cup {a}
    /\ UNCHANGED <<handed, job>>

\* _deallocate_simple(): an allocation that uses another group gives the target back,
\* which runs no hook, be the target in use or not.
ReleaseExtra ==
    /\ job.op # "release"
    /\ owner # NoAlloc
    /\ owner' = NoAlloc
    /\ handed' = handed \cup {owner}
    /\ UNCHANGED <<past, job>>

\* The owner asks for an operation on name, if it has one.
Begin(op, first, name) ==
    /\ At("idle")
    /\ owner # NoAlloc
    /\ job' = [Idle EXCEPT !.pc = first, !.op = op, !.who = owner, !.name = name]
    /\ UNCHANGED holding

\* What follows a release hook: the next one.
HookDone == [job EXCEPT !.pc = "hooks", !.pid = None]
=============================================================================
