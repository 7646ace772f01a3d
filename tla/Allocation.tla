----------------------------- MODULE Allocation -----------------------------
(***************************************************************************)
(* The target allocator of the ttbd server: ttbd/ttbl/allocation.py and    *)
(* the ownership half of ttbl.test_target (ttbd/ttbl/__init__.py).         *)
(*                                                                         *)
(* A request names groups of targets; the allocator puts one entry per     *)
(* target in that target's priority queue, hands targets to the first      *)
(* waiter of each queue, and activates the allocation when it holds every  *)
(* target of one of its groups.  All state is files shared by the server's *)
(* processes (single threaded workers plus the cleanup process); a target  *)
(* and an allocation each have a lock file, and much of the code runs      *)
(* outside of both.  One action is one stretch of a handler between two    *)
(* points where another process can be seen.                               *)
(***************************************************************************)
EXTENDS Integers, Sequences, FiniteSets

CONSTANTS
    Workers,      \* processes that serve HTTP requests
    Cleaner,      \* the process that runs maintenance()
    Targets,      \* the targets of this server
    Allocs,       \* allocation ids mkdtemp() will hand out; ordered as names are
    Groups,       \* Groups[a]: the groups a asks for, sorted by group name
    Prio,         \* Prio[a]: priority times 1000, 0 is the most urgent
    Preempt,      \* Preempt[a]: the request enables preemption
    Queue,        \* Queue[a]: the request may wait; else it is now or never
    Removers,     \* processes that remove allocations: asked to, or found idle
    Releases,     \* TRUE: owners give single targets back (test_target.release)
    Timeouts,     \* TRUE: waiting for a lock file may give up
    MaxCrashes,   \* bound on the processes that die
    MaxClock,     \* bound on the seconds that pass between requests
    NoAlloc, NoTarget, NoProc

Procs == Workers \cup {Cleaner}
TargetsOf(a) == UNION {Groups[a][i] : i \in DOMAIN Groups[a]}

ASSUME ProcsAssumption == Cleaner \notin Workers /\ NoProc \notin Procs
ASSUME NamesAssumption ==
    /\ Allocs \subseteq Nat
    /\ NoAlloc \notin Allocs
    /\ NoTarget \notin Targets
ASSUME RequestsAssumption ==
    /\ Groups \in [Allocs -> Seq(SUBSET Targets)]
    /\ \A a \in Allocs : \A i \in DOMAIN Groups[a] : Groups[a][i] # {}
    /\ Prio \in [Allocs -> Nat]
    /\ Preempt \in [Allocs -> BOOLEAN]
    /\ Queue \in [Allocs -> BOOLEAN]
ASSUME BoundsAssumption ==
    /\ Removers \subseteq Procs
    /\ Releases \in BOOLEAN /\ Timeouts \in BOOLEAN
    /\ MaxCrashes \in Nat /\ MaxClock \in Nat

VARIABLES
    \* the allocation records, one directory each
    state,        \* "none" before mkdtemp(), "gone" after rmtree()
    stamp,        \* the second the request was stamped, part of its queue entries
    group,        \* field group_allocated
    \* the target records
    owner,        \* field _alloc.id
    oprio,        \* field _alloc.priority; -1: not recorded
    queue,        \* fields _alloc.queue.*: the allocations waiting
    \* lock files
    alock,        \* the process holding an allocation's lock
    tlock,        \* the process holding a target's lock
    \* the processes
    job,          \* the handler each is running, and where it is
    stale,        \* allocations a process cached before their groups were written
    \* bounds
    clock,        \* the current second
    crashes       \* processes that died so far

records == <<state, stamp, group>>
ownership == <<owner, oprio, queue>>
locks == <<alock, tlock>>
vars == <<state, stamp, group, owner, oprio, queue, alock, tlock, job, stale,
          clock, crashes>>

(***************************************************************************)
(* The record of an allocation: its directory exists from mkdtemp() to     *)
(* rmtree(); until the timestamp, then the groups, are written it is "new" *)
(* and "stamped".                                                          *)
(***************************************************************************)
States == {"none", "new", "stamped", "queued", "active", "restart-needed", "gone"}
Live(a) == state[a] \in States \ {"none", "gone"}
Published(a) == state[a] \in {"queued", "active", "restart-needed"}

PCs == {"idle", "stamp", "publish", "enqueue", "result", "run", "run_lock",
        "grant", "calc_lock", "calc_read", "calc_write", "extras", "del_lock",
        "del_check", "del_id", "del_meta", "del_rm", "scan"}

Job == [pc   : PCs,
        cur  : Allocs \cup {NoAlloc},    \* the allocation requested or deleted
        cont : {"idle", "result", "scan"},  \* what follows the scheduler run
        scan : SUBSET Allocs,            \* maintenance: records still to visit
        todo : SUBSET Targets,           \* targets the scheduler is to run on
        tgt  : Targets \cup {NoTarget},  \* the target at hand
        wq   : SUBSET Allocs,            \* its queue, as loaded
        prev : Allocs \cup {NoAlloc},    \* its owner, as read
        got  : Allocs \cup {NoAlloc},    \* the waiter it is given to
        held : SUBSET Targets,           \* the targets found owned by got
        left : SUBSET Targets]           \* targets to count, give back or wipe

Idle == [pc |-> "idle", cur |-> NoAlloc, cont |-> "idle", scan |-> {},
         todo |-> {}, tgt |-> NoTarget, wq |-> {}, prev |-> NoAlloc,
         got |-> NoAlloc, held |-> {}, left |-> {}]

At(p, loc) == job[p].pc = loc
Goto(p, j) == job' = [job EXCEPT ![p] = j]

Init ==
    /\ state = [a \in Allocs |-> "none"]
    /\ stamp = [a \in Allocs |-> 0]
    /\ group = [a \in Allocs |-> {}]
    /\ owner = [t \in Targets |-> NoAlloc]
    /\ oprio = [t \in Targets |-> -1]
    /\ queue = [t \in Targets |-> {}]
    /\ alock = [a \in Allocs |-> NoProc]
    /\ tlock = [t \in Targets |-> NoProc]
    /\ job = [p \in Procs |-> Idle]
    /\ stale = [p \in Procs |-> {}]
    /\ clock = 0
    /\ crashes = 0

\* (mutant) any target of a group will do
CompleteSome(a, i, held) == Groups[a][i] \cap held # {}

\* Group i of a is complete when all its targets are held.
Complete(a, i, held) == Groups[a][i] \subseteq held

\* (mutant) the last complete group is picked
LastComplete(a, i, held) ==
    Complete(a, i, held) /\ \A j \in DOMAIN Groups[a] : j > i => ~Complete(a, j, held)

FirstComplete(a, i, held) ==
    Complete(a, i, held) /\ \A j \in DOMAIN Groups[a] : j < i => ~Complete(a, j, held)

-----------------------------------------------------------------------------
(* Exceptions unwind to the HTTP layer or to the cleanup loop: the locks    *)
(* taken with "with" are dropped and the process is idle again.             *)

DropLocks(p) ==
    /\ alock' = [a \in Allocs |-> IF alock[a] = p THEN NoProc ELSE alock[a]]
    /\ tlock' = [t \in Targets |-> IF tlock[t] = p THEN NoProc ELSE tlock[t]]

Unwind(p) ==
    /\ Goto(p, Idle)
    /\ DropLocks(p)

\* The fields of an allocation whose directory is gone cannot be written, nor
\* its lock file opened: the handler fails, leaving what it did so far.
RecordGone(p) ==
    /\ \/ job[p].pc \in {"stamp", "publish", "result", "del_lock"}
          /\ ~Live(job[p].cur)
       \/ At(p, "calc_lock") /\ ~Live(job[p].got)
       \/ /\ At(p, "calc_write")
          /\ ~Live(job[p].got)
          /\ \E i \in DOMAIN Groups[job[p].got] : Complete(job[p].got, i, job[p].held)
    /\ Unwind(p)
    /\ UNCHANGED <<records, ownership, stale, clock, crashes>>

-----------------------------------------------------------------------------
(* request() *)

\* mkdtemp() creates the record; the creator caches it with no groups yet.
Request(p, a) ==
    /\ At(p, "idle")
    /\ state[a] = "none"
    /\ state' = [state EXCEPT ![a] = "new"]
    /\ stale' = [stale EXCEPT ![p] = @ \cup {a}]
    /\ Goto(p, [job[p] EXCEPT !.pc = "stamp", !.cur = a])
    /\ UNCHANGED <<stamp, group, ownership, locks, clock, crashes>>

\* The timestamp, in whole seconds: two requests may share one.
ReqStamp(p) ==
    LET a == job[p].cur IN
    /\ At(p, "stamp")
    /\ Live(a)
    /\ \E now \in clock .. MaxClock :
        /\ now <= clock + 1
        /\ clock' = now
        /\ stamp' = [stamp EXCEPT ![a] = now]
    /\ state' = [state EXCEPT ![a] = "stamped"]
    /\ Goto(p, [job[p] EXCEPT !.pc = "publish"])
    /\ UNCHANGED <<group, ownership, locks, stale, crashes>>

\* State and groups are written and the creator reloads its cached object.
ReqPublish(p) ==
    LET a == job[p].cur IN
    /\ At(p, "publish")
    /\ Live(a)
    /\ state' = [state EXCEPT ![a] = "queued"]
    /\ stale' = [stale EXCEPT ![p] = @ \ {a}]
    /\ Goto(p, [job[p] EXCEPT !.pc = "enqueue", !.todo = TargetsOf(a)])
    /\ UNCHANGED <<stamp, group, ownership, locks, clock, crashes>>

\* One queue entry per target, without the target's lock.
ReqEnqueue(p) ==
    LET a == job[p].cur IN
    /\ At(p, "enqueue")
    /\ \E t \in job[p].todo :
        /\ queue' = [queue EXCEPT ![t] = @ \cup {a}]
        /\ Goto(p, [job[p] EXCEPT !.todo = @ \ {t}])
    /\ UNCHANGED <<records, owner, oprio, locks, stale, clock, crashes>>

ReqRun(p) ==
    /\ At(p, "enqueue")
    /\ job[p].todo = {}
    /\ Goto(p, [job[p] EXCEPT !.pc = "run", !.cont = "result",
                 !.todo = TargetsOf(job[p].cur)])
    /\ UNCHANGED <<records, ownership, locks, stale, clock, crashes>>

\* A request that may not wait is deleted unless it is active by now.
ReqResult(p) ==
    LET a == job[p].cur IN
    /\ At(p, "result")
    /\ Live(a)
    /\ IF Queue[a] \/ state[a] = "active"
       THEN Goto(p, Idle)
       ELSE Goto(p, [job[p] EXCEPT !.pc = "del_lock", !.cont = "idle"])
    /\ UNCHANGED <<records, ownership, locks, stale, clock, crashes>>

-----------------------------------------------------------------------------
(* _run() and _run_target(): the scheduler *)

NextTarget(p) ==
    [job[p] EXCEPT !.pc = "run", !.todo = @ \ {job[p].tgt}, !.tgt = NoTarget,
                   !.wq = {}, !.prev = NoAlloc, !.got = NoAlloc, !.held = {},
                   !.left = {}]

\* _target_queue_load() is called before the target's lock is taken.
RunLoad(p) ==
    /\ At(p, "run")
    /\ \E t \in job[p].todo :
        Goto(p, [job[p] EXCEPT !.pc = "run_lock", !.tgt = t, !.wq = queue[t]])
    /\ UNCHANGED <<records, ownership, locks, stale, clock, crashes>>

RunDone(p) ==
    /\ At(p, "run")
    /\ job[p].todo = {}
    /\ Goto(p, CASE job[p].cont = "result" -> [job[p] EXCEPT !.pc = "result"]
                   [] job[p].cont = "scan" -> [job[p] EXCEPT !.pc = "scan", !.cur = NoAlloc,
                                                        !.cont = "idle"]
                   [] job[p].cont = "idle" -> Idle)
    /\ UNCHANGED <<records, ownership, locks, stale, clock, crashes>>

\* (mutant) the time of the request is not part of the order
PrecedesAnyTime(a, b) ==
    \/ Prio[a] < Prio[b]
    \/ Prio[a] = Prio[b] /\ a < b

\* Queue entries sort by priority, timestamp, flag (N before P) and id.
Precedes(a, b) ==
    \/ Prio[a] < Prio[b]
    \/ Prio[a] = Prio[b] /\ stamp[a] < stamp[b]
    \/ Prio[a] = Prio[b] /\ stamp[a] = stamp[b] /\ ~Preempt[a] /\ Preempt[b]
    \/ /\ Prio[a] = Prio[b] /\ stamp[a] = stamp[b] /\ Preempt[a] = Preempt[b]
       /\ a < b

ValidWaiters(p) == {a \in job[p].wq : Live(a)}

FirstWaiter(p, w) ==
    /\ w \in ValidWaiters(p)
    /\ \A a \in ValidWaiters(p) \ {w} : Precedes(w, a)

\* (mutant) the queue is emptied once looked at
DeadWaitersAll(p) == job[p].wq

\* Entries of removed allocations are dropped up to the first valid one.
DeadWaiters(p) ==
    {a \in job[p].wq \ ValidWaiters(p) :
        \A w \in ValidWaiters(p) : Precedes(a, w)}

\* (mutant) an owner is never validated
AnyOwner(t) == owner[t]

\* _allocdb_get(): the owner if its record exists; else the target is wiped.
ValidOwner(t) ==
    IF owner[t] # NoAlloc /\ Live(owner[t]) THEN owner[t] ELSE NoAlloc

WipeOrphan(t) ==
    /\ owner' = [owner EXCEPT ![t] = ValidOwner(t)]
    /\ oprio' = [oprio EXCEPT ![t] = IF owner[t] # ValidOwner(t) THEN -1 ELSE @]

\* A target with no priority recorded counts as 500, as the code forges it.
PriorityOf(t) == IF oprio[t] = -1 THEN 500 ELSE oprio[t]

\* (mutant) the owner is not looked at
MayTakeAlways(p, w) == w \in job[p].wq

\* The waiter gets the target when it is free, or when the owner's priority is
\* worse and any waiter of the queue enables preemption.
MayTake(p, w) ==
    LET t == job[p].tgt IN
    \/ ValidOwner(t) = NoAlloc
    \/ PriorityOf(t) > Prio[w] /\ \E a \in job[p].wq : Preempt[a]

\* The target is busy, or nobody waits: the run ends here for this target.
RunSkip(p) ==
    LET t == job[p].tgt IN
    /\ At(p, "run_lock")
    /\ tlock[t] = NoProc
    /\ \A w \in ValidWaiters(p) : FirstWaiter(p, w) => ~MayTake(p, w)
    /\ WipeOrphan(t)
    /\ queue' = [queue EXCEPT ![t] = @ \ DeadWaiters(p)]
    /\ Goto(p, NextTarget(p))
    /\ UNCHANGED <<records, locks, stale, clock, crashes>>

\* The first valid waiter may have the target; the lock stays taken.
RunTake(p) ==
    LET t == job[p].tgt IN
    /\ At(p, "run_lock")
    /\ tlock[t] = NoProc
    /\ \E w \in ValidWaiters(p) :
        /\ FirstWaiter(p, w)
        /\ MayTake(p, w)
        /\ Goto(p, [job[p] EXCEPT !.pc = "grant", !.got = w,
                     !.prev = ValidOwner(t)])
    /\ WipeOrphan(t)
    /\ queue' = [queue EXCEPT ![t] = @ \ DeadWaiters(p)]
    /\ tlock' = [tlock EXCEPT ![t] = p]
    /\ UNCHANGED <<records, alock, stale, clock, crashes>>

\* _deallocate(): the owner read before still has the target and loses it.
Evicts(p) == job[p].prev # NoAlloc /\ owner[job[p].tgt] = job[p].prev

\* (mutant) boosted on the way, below zero
Boosted(w) == Prio[w] - 1000

\* The priority recorded on the target is that of the waiter's queue entry.
Recorded(w) == Prio[w]

Grant(p) ==
    LET t == job[p].tgt
        w == job[p].got
    IN
    /\ At(p, "grant")
    /\ Evicts(p) => Live(job[p].prev)
    /\ state' = IF Evicts(p) THEN [state EXCEPT ![job[p].prev] = "restart-needed"]
                             ELSE state
    /\ owner' = [owner EXCEPT ![t] = w]
    /\ oprio' = [oprio EXCEPT ![t] = Recorded(w)]
    /\ queue' = [queue EXCEPT ![t] = @ \ {w}]
    /\ tlock' = [tlock EXCEPT ![t] = NoProc]
    /\ Goto(p, [job[p] EXCEPT !.pc = "calc_lock"])
    /\ UNCHANGED <<stamp, group, alock, stale, clock, crashes>>

\* The evicted allocation was removed meanwhile: its state cannot be written,
\* so the target is left free and the waiter still waiting.
GrantFails(p) ==
    LET t == job[p].tgt IN
    /\ At(p, "grant")
    /\ Evicts(p) /\ ~Live(job[p].prev)
    /\ owner' = [owner EXCEPT ![t] = NoAlloc]
    /\ oprio' = [oprio EXCEPT ![t] = -1]
    /\ Unwind(p)
    /\ UNCHANGED <<records, queue, stale, clock, crashes>>

-----------------------------------------------------------------------------
(* calculate_stuff(), under the allocation's lock *)

\* (mutant) the lock is not taken
Unlocked(a) == a \in Allocs

CanLock(a) == alock[a] = NoProc

\* (mutant) only the target just taken is counted
CountedTaken(p) == {job[p].tgt}

\* The targets counted are those of the cached object: none if it was loaded
\* before the groups were written.
Counted(p) == IF job[p].got \in stale[p] THEN {} ELSE TargetsOf(job[p].got)

\* A lock file opened in time can be taken even if the record goes away.
CalcLock(p) ==
    LET a == job[p].got IN
    /\ At(p, "calc_lock")
    /\ CanLock(a)
    /\ alock' = [alock EXCEPT ![a] = p]
    /\ Goto(p, [job[p] EXCEPT !.pc = "calc_read", !.left = Counted(p)])
    /\ UNCHANGED <<records, ownership, tlock, stale, clock, crashes>>

\* Owners are read one by one, without the targets' locks.
CalcRead(p) ==
    LET a == job[p].got IN
    /\ At(p, "calc_read")
    /\ \E t \in job[p].left :
        Goto(p, [job[p] EXCEPT !.left = @ \ {t},
                  !.held = IF owner[t] = a THEN @ \cup {t} ELSE @])
    /\ UNCHANGED <<records, ownership, locks, stale, clock, crashes>>

CalcCounted(p) ==
    /\ At(p, "calc_read")
    /\ job[p].left = {}
    /\ Goto(p, [job[p] EXCEPT !.pc = "calc_write"])
    /\ UNCHANGED <<records, ownership, locks, stale, clock, crashes>>

\* The first complete group, by name, becomes the allocation's group.
CalcActivate(p) ==
    LET a == job[p].got IN
    /\ At(p, "calc_write")
    /\ Live(a)
    /\ \E i \in DOMAIN Groups[a] :
        /\ FirstComplete(a, i, job[p].held)
        /\ group' = [group EXCEPT ![a] = Groups[a][i]]
        /\ Goto(p, [job[p] EXCEPT !.pc = "extras", !.held = {},
                     !.left = job[p].held \ Groups[a][i]])
    /\ state' = [state EXCEPT ![a] = "active"]
    /\ alock' = [alock EXCEPT ![a] = NoProc]
    /\ UNCHANGED <<stamp, ownership, tlock, stale, clock, crashes>>

CalcWait(p) ==
    LET a == job[p].got IN
    /\ At(p, "calc_write")
    /\ \A i \in DOMAIN Groups[a] : ~Complete(a, i, job[p].held)
    /\ alock' = [alock EXCEPT ![a] = NoProc]
    /\ Goto(p, NextTarget(p))
    /\ UNCHANGED <<records, ownership, tlock, stale, clock, crashes>>

\* Targets beyond the group are given back one by one (_deallocate_simple()),
\* each under its lock; the scheduler is not run on them again.
ReleaseExtra(p) ==
    /\ At(p, "extras")
    /\ \E t \in job[p].left :
        /\ tlock[t] = NoProc
        /\ owner' = [owner EXCEPT ![t] = IF @ = job[p].got THEN NoAlloc ELSE @]
        /\ oprio' = [oprio EXCEPT ![t] = IF owner[t] = job[p].got THEN -1 ELSE @]
        /\ Goto(p, [job[p] EXCEPT !.left = @ \ {t}])
    /\ UNCHANGED <<records, queue, locks, stale, clock, crashes>>

ExtrasDone(p) ==
    /\ At(p, "extras")
    /\ job[p].left = {}
    /\ Goto(p, NextTarget(p))
    /\ UNCHANGED <<records, ownership, locks, stale, clock, crashes>>

-----------------------------------------------------------------------------
(* allocation_c.delete() *)

\* (mutant) the record is removed first, then the targets are wiped
DelActiveRecordFirst(p) ==
    LET a == job[p].cur IN
    /\ At(p, "del_lock")
    /\ state[a] = "active"
    /\ CanLock(a)
    /\ alock' = [alock EXCEPT ![a] = p]
    /\ state' = [state EXCEPT ![a] = "gone"]
    /\ Goto(p, [job[p] EXCEPT !.pc = "del_check", !.todo = group[a],
                 !.left = group[a]])
    /\ UNCHANGED <<stamp, group, ownership, tlock, stale, clock, crashes>>

\* An active allocation: its targets are wiped with its own lock held, but not
\* the targets' locks.
DelActive(p) ==
    LET a == job[p].cur IN
    /\ At(p, "del_lock")
    /\ state[a] = "active"
    /\ CanLock(a)
    /\ alock' = [alock EXCEPT ![a] = p]
    /\ Goto(p, [job[p] EXCEPT !.pc = "del_check", !.todo = group[a],
                 !.left = group[a]])
    /\ UNCHANGED <<records, ownership, tlock, stale, clock, crashes>>

\* Any other: its targets are left for the scheduler run to find orphaned.  So
\* is one removed while its lock file was open and waited for.
DelOther(p) ==
    LET a == job[p].cur IN
    /\ At(p, "del_lock")
    /\ state[a] # "active"
    /\ CanLock(a)
    /\ Goto(p, [job[p] EXCEPT !.pc = "del_rm",
                 !.todo = IF a \in stale[p] THEN {} ELSE TargetsOf(a)])
    /\ UNCHANGED <<records, ownership, locks, stale, clock, crashes>>

\* Is the target still ours?  One that moved to another allocation is skipped.
DelCheck(p) ==
    /\ At(p, "del_check")
    /\ \E t \in job[p].left :
        IF owner[t] = job[p].cur
        THEN Goto(p, [job[p] EXCEPT !.pc = "del_id", !.tgt = t])
        ELSE Goto(p, [job[p] EXCEPT !.left = @ \ {t}])
    /\ UNCHANGED <<records, ownership, locks, stale, clock, crashes>>

\* _allocid_wipe() after the release hooks ran: first the id...
DelWipeId(p) ==
    /\ At(p, "del_id")
    /\ owner' = [owner EXCEPT ![job[p].tgt] = NoAlloc]
    /\ Goto(p, [job[p] EXCEPT !.pc = "del_meta"])
    /\ UNCHANGED <<records, oprio, queue, locks, stale, clock, crashes>>

\* ...then priority and owner name.
DelWipeMeta(p) ==
    /\ At(p, "del_meta")
    /\ oprio' = [oprio EXCEPT ![job[p].tgt] = -1]
    /\ Goto(p, [job[p] EXCEPT !.pc = "del_check", !.tgt = NoTarget,
                 !.left = @ \ {job[p].tgt}])
    /\ UNCHANGED <<records, owner, queue, locks, stale, clock, crashes>>

DelUnlock(p) ==
    /\ At(p, "del_check")
    /\ job[p].left = {}
    /\ alock' = [alock EXCEPT ![job[p].cur] = NoProc]
    /\ Goto(p, [job[p] EXCEPT !.pc = "del_rm"])
    /\ UNCHANGED <<records, ownership, tlock, stale, clock, crashes>>

\* rmtree(), then the scheduler runs on the targets it had.  The cached object
\* stays: invalidate() looks for a key the cache does not use.
DelRemove(p) ==
    LET a == job[p].cur IN
    /\ At(p, "del_rm")
    /\ state' = [state EXCEPT ![a] = "gone"]
    /\ Goto(p, [job[p] EXCEPT !.pc = "run"])
    /\ UNCHANGED <<stamp, group, ownership, locks, stale, clock, crashes>>

-----------------------------------------------------------------------------
(* The other entry points *)

\* get_from_cache(): an object loaded before the groups are written has none,
\* and is never loaded again.
Loaded(p, S) == stale[p] \cup {a \in S : Live(a) /\ ~Published(a)}

\* delete(): its creator, user or an admin removes an allocation.
ClientDelete(p, a) ==
    /\ p \in Removers
    /\ At(p, "idle")
    /\ Published(a)
    /\ Goto(p, [job[p] EXCEPT !.pc = "del_lock", !.cur = a])
    /\ UNCHANGED <<records, ownership, locks, stale, clock, crashes>>

\* query(), get(), keepalive(): anybody may have a record loaded.
Query(p, a) ==
    /\ At(p, "idle")
    /\ Loaded(p, {a}) # stale[p]
    /\ stale' = [stale EXCEPT ![p] = Loaded(p, {a})]
    /\ UNCHANGED <<records, ownership, locks, job, clock, crashes>>

\* Any operation on a target validates its owner first, and wipes an orphan.
OwnerCheck(p, t) ==
    /\ At(p, "idle")
    /\ tlock[t] = NoProc
    /\ owner[t] # ValidOwner(t)
    /\ WipeOrphan(t)
    /\ UNCHANGED <<records, queue, locks, job, stale, clock, crashes>>

\* test_target.release(): one target is given back, its allocation goes on; an
\* administrator who forces it tells the owner to restart.
Release(p, t, forced) ==
    LET a == owner[t] IN
    /\ Releases
    /\ At(p, "idle")
    /\ a # NoAlloc
    /\ tlock[t] = NoProc
    /\ owner' = [owner EXCEPT ![t] = NoAlloc]
    /\ oprio' = [oprio EXCEPT ![t] = -1]
    /\ state' = IF forced /\ Live(a) THEN [state EXCEPT ![a] = "restart-needed"]
                                     ELSE state
    /\ UNCHANGED <<stamp, group, queue, locks, job, stale, clock, crashes>>

\* maintenance(): visit every record, then run the scheduler on every target.
MaintStart(p) ==
    /\ At(p, "idle")
    /\ Goto(p, [job[p] EXCEPT !.pc = "scan", !.scan = {a \in Allocs : Live(a)}])
    /\ UNCHANGED <<records, ownership, locks, stale, clock, crashes>>

\* A record is kept, or deleted as idle: one without a timestamp counts as idle
\* since the Epoch.
MaintVisit(p) ==
    /\ At(p, "scan")
    /\ \E a \in job[p].scan :
        /\ stale' = [stale EXCEPT ![p] = Loaded(p, {a})]
        /\ \/ Goto(p, [job[p] EXCEPT !.scan = @ \ {a}])
           \/ /\ Live(a)
              /\ p \in Removers
              /\ Goto(p, [job[p] EXCEPT !.scan = @ \ {a}, !.pc = "del_lock",
                           !.cur = a, !.cont = "scan"])
    /\ UNCHANGED <<records, ownership, locks, clock, crashes>>

\* (mutant) free targets are left out
MaintRunOwned(p) ==
    /\ At(p, "scan")
    /\ job[p].scan = {}
    /\ Goto(p, [job[p] EXCEPT !.pc = "run", !.todo = {t \in Targets : owner[t] # NoAlloc}])
    /\ UNCHANGED <<records, ownership, locks, stale, clock, crashes>>

MaintRun(p) ==
    /\ At(p, "scan")
    /\ job[p].scan = {}
    /\ Goto(p, [job[p] EXCEPT !.pc = "run", !.todo = Targets])
    /\ UNCHANGED <<records, ownership, locks, stale, clock, crashes>>

-----------------------------------------------------------------------------
(* Faults *)

Waiting(p) ==
    \/ At(p, "calc_lock") /\ alock[job[p].got] \notin {NoProc, p}
    \/ At(p, "run_lock") /\ tlock[job[p].tgt] \notin {NoProc, p}
    \/ At(p, "extras") /\ \E t \in job[p].left : tlock[t] \notin {NoProc, p}

\* process_posix_file_lock_c.acquire() gives up after its timeout.
LockTimeout(p) ==
    /\ Timeouts
    /\ Waiting(p)
    /\ Unwind(p)
    /\ UNCHANGED <<records, ownership, stale, clock, crashes>>

\* delete() removes the record even when it could not take its lock.
DelTimeout(p) ==
    LET a == job[p].cur IN
    /\ Timeouts
    /\ At(p, "del_lock")
    /\ Live(a)
    /\ alock[a] \notin {NoProc, p}
    /\ state' = [state EXCEPT ![a] = "gone"]
    /\ Unwind(p)
    /\ UNCHANGED <<stamp, group, ownership, stale, clock, crashes>>

\* A process dies; the kernel drops its locks and a new one starts with an
\* empty cache.
Crash(p) ==
    /\ ~At(p, "idle") \/ stale[p] # {}
    /\ crashes < MaxCrashes
    /\ crashes' = crashes + 1
    /\ stale' = [stale EXCEPT ![p] = {}]
    /\ Unwind(p)
    /\ UNCHANGED <<records, ownership, clock>>

-----------------------------------------------------------------------------
\* The steps of a handler once it has started.
Step(p) ==
    \/ ReqStamp(p) \/ ReqPublish(p) \/ ReqEnqueue(p) \/ ReqRun(p) \/ ReqResult(p)
    \/ RunLoad(p) \/ RunDone(p) \/ RunSkip(p) \/ RunTake(p)
    \/ Grant(p) \/ GrantFails(p)
    \/ CalcLock(p) \/ CalcRead(p) \/ CalcCounted(p) \/ CalcActivate(p) \/ CalcWait(p)
    \/ ReleaseExtra(p) \/ ExtrasDone(p)
    \/ DelActive(p) \/ DelOther(p) \/ DelCheck(p) \/ DelWipeId(p)
    \/ DelWipeMeta(p) \/ DelUnlock(p) \/ DelRemove(p)
    \/ MaintVisit(p) \/ MaintRun(p)
    \/ RecordGone(p) \/ LockTimeout(p) \/ DelTimeout(p)

Next ==
    \/ \E p \in Procs : Step(p) \/ Crash(p)
    \/ \E p \in Workers, a \in Allocs : Request(p, a) \/ Query(p, a) \/ ClientDelete(p, a)
    \/ \E p \in Workers, t \in Targets : OwnerCheck(p, t)
    \/ \E p \in Workers, t \in Targets, forced \in BOOLEAN : Release(p, t, forced)
    \/ MaintStart(Cleaner)

Spec == Init /\ [][Next]_vars

\* A process runs its handler to the end: a lock wait ends with the lock or with
\* a timeout.  The cleanup process loops forever.
Fairness ==
    /\ \A p \in Procs : WF_vars(Step(p))
    /\ WF_vars(MaintStart(Cleaner))

FairSpec == Spec /\ Fairness

=============================================================================
