--------------------------- MODULE ReleaseProofs ---------------------------
(* Theorems about Release for any processes, targets, groups and interfaces:  *)
(* who is given a target finds it clean, and nobody cleans what is in use.    *)
EXTENDS ReleaseProperties, TLAPS

\* A process has the lock of the target at hand, but for a removal, which takes none.
Holds(j, t) ==
    /\ t \in j.tgt
    /\ \/ j.pc \in {"restart", "grant"}
       \/ j.pc \in {"clean", "wipe"} /\ j.path # "delete"

\* Where a process can be on each path, and what it has at hand there.
JobInv(j) ==
    /\ j.pc \in {"clean", "wipe", "restart", "grant"} => \E t \in Targets : j.tgt = {t}
    /\ j.pc \in {"idle", "run", "delete", "remove"} => j.tgt = {}
    /\ j.path = "none" => j.pc \in {"idle", "run", "grant", "calculate", "extras", "remove"}
    /\ j.path = "orphan" => j.pc \in {"clean", "wipe"}
    /\ j.path = "release" => j.pc = "clean"
    /\ j.path = "preempt" => j.pc \in {"clean", "restart", "grant"} /\ j.got \in Allocs
    /\ j.path = "preempt" /\ j.pc # "grant" => j.cur \in Allocs
    /\ j.path = "delete" => j.pc \in {"delete", "clean", "wipe"}
    /\ j.pc \in {"idle", "run", "calculate", "extras"} => j.path = "none"
    /\ j.pc = "delete" => j.path = "delete"
    /\ j.pc \in {"grant", "calculate", "extras"} => j.got \in Allocs
    /\ j.pc \in {"restart", "remove"} \/ j.path = "delete" => j.cur \in Allocs
    /\ j.pc = "wipe" => j.todo = {}

\* While it has the lock the target has no owner, or one whose record is gone: what was
\* reset stays so but for an operation that was let in before.
Held(p) ==
    \A t \in Targets : Holds(job[p], t) =>
        /\ tlock[t] = p
        /\ job[p].pc \in {"restart", "grant"} \/ WipesFirst(job[p].path) => owner[t] = NoAlloc
        /\ job[p].path = "orphan" => owner[t] = NoAlloc \/ ~Live(owner[t])
        /\ job[p].pc \in {"clean", "wipe"} /\ t \notin soiled =>
            \A c \in Parts \ job[p].todo : left[t][c] = NoAlloc

\* A removal cleans targets that are still of the allocation it removes, unless another
\* process took them away: what it reset stays so, unless the owner still uses them.
Removal(p) ==
    job[p].path = "delete" =>
        /\ Live(job[p].cur)
        /\ \A t \in job[p].tgt \ spoiled :
            /\ owner[t] = job[p].cur
            /\ t \notin soiled => \A c \in Parts \ job[p].todo : left[t][c] = NoAlloc

\* What is left in a target is its owner's, or is about to be reset under the lock.
OwnLeft ==
    \A t \in Targets \ (spoiled \cup soiled), c \in Parts :
        left[t][c] \in {NoAlloc, owner[t]} \/ \E p \in Procs : Resets(p, t, c)

Base == TypeOK /\ \A p \in Procs : JobInv(job[p])
Inv == Base /\ OwnLeft /\ \A p \in Procs : Held(p) /\ Removal(p)

\* No two processes remove one allocation at a time.
Removes(p) == job[p].path = "delete" \/ At(p, "remove")
RemovedOnce ==
    \A p, q \in Procs : Removes(p) /\ Removes(q) /\ job[p].cur = job[q].cur => p = q

-----------------------------------------------------------------------------
(* Types, and the place of each process. *)

Moves(p) ==
    /\ job' = [job EXCEPT ![p] = job'[p]]
    /\ job'[p] \in Job /\ JobInv(job'[p])

\* Goto() is such a move, to a place where the process may be.
LEMMA Gone ==
    ASSUME TypeOK, NEW p \in Procs, NEW j \in Job, JobInv(j), Goto(p, j)
    PROVE  Moves(p) /\ job'[p] = j
BY DEF TypeOK, Goto, Moves

\* Idle, and what a process at rest begins, are jobs.
LEMMA IdleJob ==
    ASSUME NEW ts \in SUBSET Targets
    PROVE  /\ Idle \in Job /\ JobInv(Idle)
           /\ Idle.pc = "idle" /\ Idle.path = "none" /\ Idle.cur = NoAlloc /\ Idle.tgt = {}
           /\ LET j == [Idle EXCEPT !.pc = "run", !.tgts = ts] IN
              j \in Job /\ JobInv(j) /\ j.pc = "run"
<1>1. Idle \in Job
  BY DEF Idle, Job, PCs
<1>2. /\ Idle.pc = "idle" /\ Idle.path = "none" /\ Idle.cur = NoAlloc /\ Idle.tgt = {}
  BY DEF Idle
<1>3. JobInv(Idle)
  BY <1>2 DEF JobInv
<1> HIDE DEF Idle
<1>4. LET j == [Idle EXCEPT !.pc = "run", !.tgts = ts] IN
      j \in Job /\ JobInv(j) /\ j.pc = "run"
  BY <1>1, <1>2 DEF Job, PCs, JobInv
<1> QED
  BY <1>1, <1>2, <1>3, <1>4

\* So is that of a removal of the record,
LEMMA RemoveJob ==
    ASSUME NEW ts \in SUBSET Targets, NEW a \in Allocs
    PROVE  LET j == [Idle EXCEPT !.pc = "remove", !.cur = a, !.tgts = ts] IN
           j \in Job /\ JobInv(j) /\ j.pc = "remove"
<1>1. Idle \in Job /\ Idle.path = "none" /\ Idle.tgt = {}
  BY IdleJob
<1> HIDE DEF Idle
<1> QED
  BY <1>1 DEF Job, PCs, JobInv

\* ... of a process that sees what the waiter has,
LEMMA CalculateJob ==
    ASSUME NEW ts \in SUBSET Targets, NEW a \in Allocs
    PROVE  LET j == [Idle EXCEPT !.pc = "calculate", !.tgts = ts, !.got = a] IN
           j \in Job /\ JobInv(j) /\ j.pc = "calculate"
<1>1. Idle \in Job /\ Idle.path = "none" /\ Idle.tgt = {}
  BY IdleJob
<1> HIDE DEF Idle
<1> QED
  BY <1>1 DEF Job, PCs, JobInv

\* ... after an exception as well,
LEMMA RaisedJob ==
    ASSUME NEW a \in Allocs
    PROVE  LET j == [Idle EXCEPT !.pc = "remove", !.cur = a] IN
           j \in Job /\ JobInv(j) /\ j.pc = "remove"
<1>1. Idle \in Job /\ Idle.path = "none" /\ Idle.tgt = {}
  BY IdleJob
<1> HIDE DEF Idle
<1> QED
  BY <1>1 DEF Job, PCs, JobInv

\* Groups are of targets.
LEMMA GroupTypes ==
    ASSUME NEW a \in Allocs
    PROVE  /\ TargetsOf(a) \in SUBSET Targets
           /\ \A n \in DOMAIN Groups[a] : Groups[a][n] \in SUBSET Targets
BY NamesAssumption DEF TargetsOf

\* A cleanup begins with all there is to reset, and on two paths with no owner.
LEMMA CleanMoves ==
    ASSUME Base, NEW p \in Procs, NEW t \in Targets,
           NEW path \in {"orphan", "release", "preempt"}, NEW a \in Allocs \cup {NoAlloc},
           NEW g \in Allocs \cup {NoAlloc}, path = "preempt" => a \in Allocs /\ g \in Allocs,
           Clean(p, path, a, t, g)
    PROVE  /\ Moves(p)
           /\ job'[p].pc = "clean" /\ job'[p].path = path /\ job'[p].tgt = {t}
           /\ job'[p].todo = Parts
           /\ owner' = IF WipesFirst(path) THEN [owner EXCEPT ![t] = NoAlloc] ELSE owner
<1> DEFINE d == job[p]
           j == [d EXCEPT !.pc = "clean", !.path = path, !.cur = a, !.tgt = {t},
                  !.todo = Parts, !.got = g]
<1>1. TypeOK /\ d \in Job
  BY DEF Base, TypeOK
<1>2. Goto(p, j) /\ owner' = IF WipesFirst(path) THEN [owner EXCEPT ![t] = NoAlloc] ELSE owner
  BY DEF Clean
<1> HIDE DEF d
<1>3. j \in Job
  BY <1>1 DEF Job, PCs
<1>4. /\ j.pc = "clean" /\ j.path = path /\ j.tgt = {t} /\ j.todo = Parts /\ j.got = g
      /\ j.cur = a
  BY <1>1 DEF Job
<1>5. JobInv(j)
  BY <1>4 DEF JobInv
<1> HIDE DEF j
<1> QED
  BY <1>1, <1>2, <1>3, <1>4, <1>5, Gone

-----------------------------------------------------------------------------
(* What a step of a process does to the targets. *)

\* The variables but job, as typed.
VarsOK ==
    /\ state \in [Allocs -> {"queued", "active", "restart-needed", "gone"}]
    /\ owner \in [Targets -> Allocs \cup {NoAlloc}]
    /\ queue \in [Targets -> SUBSET Allocs]
    /\ left \in [Targets -> [Parts -> Allocs \cup {NoAlloc}]]
    /\ alock \in [Allocs -> Procs \cup {NoProc}]
    /\ tlock \in [Targets -> Procs \cup {NoProc}]
    /\ group \in [Allocs -> SUBSET Targets]
    /\ using \subseteq Targets \X Allocs
    /\ spoiled \subseteq Targets /\ soiled \subseteq Targets
    /\ uses \in 0 .. MaxUses
    /\ faults \in 0 .. MaxFaults

\* The locks of the others stay theirs.
LocksKept(p) ==
    \A t \in Targets, q \in Procs : tlock[t] = q /\ q # p => tlock'[t] = q

\* A target gets an owner under its lock.  It loses one to who cleans it next, which a
\* removal under way does not notice, or after it was cleaned, or as an extra with no
\* cleanup.
OwnersKept(p) ==
    \A t \in Targets : owner'[t] # owner[t] =>
        \/ At(p, "grant") /\ tlock[t] = p /\ owner[t] = NoAlloc
        \/ /\ owner'[t] = NoAlloc /\ (Removing(t) => t \in spoiled')
           /\ \A c \in Parts : Resets(p, t, c)'
        \/ /\ owner'[t] = NoAlloc /\ At(p, "wipe") /\ t \in job[p].tgt
           /\ UNCHANGED left
        \/ /\ owner'[t] = NoAlloc /\ tlock[t] = NoProc /\ UNCHANGED left
           /\ (Removing(t) => t \in spoiled') /\ (Used(t) => t \in soiled')

\* A part of a target changes only as it is reset.
LeftKept(p) ==
    \A t \in Targets, c \in Parts : left'[t][c] # left[t][c] =>
        left'[t][c] = NoAlloc /\ At(p, "clean") /\ t \in job[p].tgt

\* A cleanup that ends makes good for one that was cut short.
SpoiledKept(p) ==
    \A t \in spoiled \ spoiled' :
        /\ At(p, "clean") /\ t \in job[p].tgt /\ job[p].todo = {} /\ ~Removing(t)
        /\ UNCHANGED <<left, owner>>

\* So does one that finds nothing left at its end, for what a late operation did.
SoiledKept(p) ==
    \A t \in soiled \ soiled' : UNCHANGED left /\ \A c \in Parts : left[t][c] = NoAlloc

\* What is removed stays removed, and is removed by who says so.
RecordsKept(p) ==
    \A a \in Allocs :
        /\ ~Live(a) => ~Live(a)'
        /\ Live(a) /\ ~Live(a)' => At(p, "remove") /\ job[p].cur = a

\* What is about to be reset is, or is still to be, or its target is known as spoiled.
ResetsKept(p) ==
    \A t \in Targets \ spoiled', c \in Parts :
        Resets(p, t, c) => left'[t][c] = NoAlloc \/ Resets(p, t, c)'

Framed(p) ==
    /\ Moves(p) /\ VarsOK' /\ LocksKept(p) /\ OwnersKept(p) /\ LeftKept(p)
    /\ SpoiledKept(p) /\ SoiledKept(p) /\ RecordsKept(p) /\ ResetsKept(p)

\* What is not written is kept.
LEMMA Unwritten ==
    ASSUME TypeOK, NEW p \in Procs
    PROVE  /\ UNCHANGED tlock => LocksKept(p)
           /\ UNCHANGED owner => OwnersKept(p)
           /\ UNCHANGED left => LeftKept(p)
           /\ UNCHANGED spoiled => SpoiledKept(p)
           /\ UNCHANGED soiled => SoiledKept(p)
           /\ UNCHANGED state => RecordsKept(p)
           /\ ~At(p, "clean") => ResetsKept(p)
BY DEF LocksKept, OwnersKept, LeftKept, SpoiledKept, SoiledKept, RecordsKept, ResetsKept,
       Resets, Live

\* Spoiled targets only become more but where a cleanup ends.
LEMMA MoreSpoiled ==
    ASSUME TypeOK, NEW p \in Procs, JobInv(job[p])
    PROVE  /\ CutShort(p) => SpoiledKept(p) /\ spoiled' \subseteq Targets
           /\ \A t \in Targets : Disturb(t) => SpoiledKept(p) /\ spoiled' \subseteq Targets
<1>1. job[p].tgt \subseteq Targets
  BY DEF TypeOK, Job
<1> QED
  BY <1>1 DEF CutShort, Disturb, SpoiledKept, TypeOK

\* A process drops only its own locks.
LEMMA LocksDropped ==
    ASSUME TypeOK, NEW p \in Procs
    PROVE  /\ DropLocks(p) => LocksKept(p)
           /\ DropLocks(p) => alock' \in [Allocs -> Procs \cup {NoProc}]
           /\ DropLocks(p) => tlock' \in [Targets -> Procs \cup {NoProc}]
           /\ \A t \in Targets : Lock(p, t) =>
                /\ LocksKept(p) /\ tlock'[t] = p
                /\ tlock' \in [Targets -> Procs \cup {NoProc}]
BY NamesAssumption DEF TypeOK, DropLocks, Lock, LocksKept

\* A process with no target to clean or to grant at hand has no lock, and removes none.
LEMMA AtRest ==
    ASSUME NEW p \in Procs, Moves(p),
           job'[p].pc \in {"idle", "run", "remove", "calculate", "extras"}
    PROVE  Held(p)' /\ Removal(p)'
<1>1. job'[p].path = "none"
  BY DEF Moves, JobInv, Job
<1> QED
  BY <1>1 DEF Held, Removal, Holds

\* The invariant, of one process.
LEMMA InvFacts ==
    ASSUME Inv, NEW p \in Procs
    PROVE  /\ TypeOK /\ Base /\ VarsOK /\ job[p] \in Job /\ JobInv(job[p])
           /\ job \in [Procs -> Job] /\ Held(p) /\ Removal(p)
BY DEF Inv, Base, TypeOK, VarsOK

-----------------------------------------------------------------------------
(* The steps, one by one. *)

\* Maintenance starts, goes past a target and ends: nothing happens to a target.
LEMMA IdleSteps ==
    ASSUME Inv, NEW p \in Procs,
           Maintain(p) \/ RunDone(p) \/ \E t \in Targets : Skip(p, t)
    PROVE  Framed(p) /\ Held(p)' /\ Removal(p)'
<1> DEFINE d == job[p]
<1>1. /\ TypeOK /\ VarsOK /\ d \in Job /\ JobInv(d)
  BY InvFacts
<1>2. /\ UNCHANGED <<state, group, owner, queue, left, alock, tlock, using, spoiled, soiled, uses,
                     faults>>
      /\ d.pc \in {"idle", "run"}
  BY DEF Maintain, RunDone, Skip, At
<1>3. Moves(p) /\ job'[p].pc \in {"idle", "run"}
  <2>1. CASE Maintain(p) \/ RunDone(p)
    BY <1>1, <2>1, Gone, IdleJob DEF Maintain, RunDone
  <2>2. CASE \E t \in Targets : Skip(p, t)
    <3>1. PICK t \in Targets : Skip(p, t)
      BY <2>2
    <3> DEFINE j == [d EXCEPT !.tgts = @ \ {t}]
    <3>2. Goto(p, j) /\ d.pc = "run"
      BY <3>1 DEF Skip, At
    <3> HIDE DEF d
    <3>3. j \in Job /\ JobInv(j) /\ j.pc = "run"
      BY <1>1, <3>2 DEF Job, JobInv, d
    <3> HIDE DEF j
    <3> QED
      BY <1>1, <3>2, <3>3, Gone
  <2> QED
    BY <2>1, <2>2
<1>4. Held(p)' /\ Removal(p)'
  BY <1>3, AtRest
<1>5. VarsOK'
  BY <1>1, <1>2 DEF VarsOK
<1> QED
  BY <1>1, <1>2, <1>3, <1>4, <1>5, Unwritten DEF Framed, At

\* A target with no owner is taken under its lock, for a waiter.
LEMMA TakeStep ==
    ASSUME Inv, NEW p \in Procs, NEW t \in Targets, Take(p, t)
    PROVE  Framed(p) /\ Held(p)' /\ Removal(p)'
<1> DEFINE d == job[p]
           j(a) == [d EXCEPT !.pc = "grant", !.tgt = {t}, !.got = a]
<1>1. /\ TypeOK /\ VarsOK /\ d \in Job /\ JobInv(d)
  BY InvFacts
<1>2. /\ UNCHANGED <<state, group, owner, queue, left, alock, using, spoiled, soiled, uses,
                     faults>>
      /\ d.pc = "run" /\ owner[t] = NoAlloc /\ Lock(p, t)
  BY DEF Take, At
<1>3. PICK a \in Allocs : Goto(p, j(a))
  BY DEF Take
<1> HIDE DEF d
<1>4. /\ j(a) \in Job /\ j(a).pc = "grant" /\ j(a).tgt = {t} /\ j(a).got = a
      /\ j(a).path = d.path
  BY <1>1 DEF Job, PCs, JobInv
<1>5. JobInv(j(a)) /\ d.path = "none"
  BY <1>1, <1>2, <1>4 DEF JobInv
<1> DEFINE k == j(a)
<1> HIDE DEF j
<1>6. Moves(p) /\ job'[p] = k
  BY <1>1, <1>3, <1>4, <1>5, Gone
<1>7. LocksKept(p) /\ tlock'[t] = p /\ tlock' \in [Targets -> Procs \cup {NoProc}]
  BY <1>1, <1>2, LocksDropped
<1>8. Held(p)' /\ Removal(p)'
  BY <1>2, <1>4, <1>5, <1>6, <1>7 DEF Held, Removal, Holds, WipesFirst
<1>9. VarsOK'
  BY <1>1, <1>2, <1>7 DEF VarsOK
<1> QED
  BY <1>1, <1>2, <1>6, <1>7, <1>8, <1>9, Unwritten DEF Framed, At, d

\* A cleanup begins under the lock, with the owner dropped or its record gone.
LEMMA CleanStep ==
    ASSUME Inv, NEW p \in Procs, NEW t \in Targets,
           GiveBack(p, t) \/ TakeFromOwner(p, t) \/ TakeFromRemoved(p, t)
    PROVE  Framed(p) /\ Held(p)' /\ Removal(p)'
<1> DEFINE k == job'[p]
<1>1. /\ TypeOK /\ Base /\ VarsOK /\ job[p] \in Job /\ JobInv(job[p])
  BY InvFacts
<1>2. /\ Lock(p, t) /\ ~At(p, "clean") /\ owner[t] \in Allocs
      /\ UNCHANGED <<state, group, queue, left, alock, using, soiled, uses, faults>>
  BY <1>1 DEF GiveBack, TakeFromOwner, TakeFromRemoved, At, VarsOK
<1>3. PICK path \in {"orphan", "release", "preempt"} :
        /\ Moves(p) /\ k.pc = "clean" /\ k.path = path /\ k.tgt = {t} /\ k.todo = Parts
        /\ owner' = IF WipesFirst(path) THEN [owner EXCEPT ![t] = NoAlloc] ELSE owner
        /\ IF path = "orphan" THEN ~Live(owner[t]) /\ UNCHANGED spoiled ELSE Disturb(t)
  <2>1. CASE GiveBack(p, t)
    BY <1>1, <1>2, <2>1, CleanMoves DEF GiveBack
  <2>2. CASE TakeFromOwner(p, t)
    <3>1. PICK a \in Allocs : Clean(p, "preempt", owner[t], t, a)
      BY <2>2 DEF TakeFromOwner
    <3> QED
      BY <1>1, <1>2, <2>2, <3>1, CleanMoves DEF TakeFromOwner
  <2>3. CASE TakeFromRemoved(p, t)
    BY <1>1, <2>3, CleanMoves DEF TakeFromRemoved
  <2> QED
    BY <2>1, <2>2, <2>3
<1>4. LocksKept(p) /\ tlock'[t] = p /\ tlock' \in [Targets -> Procs \cup {NoProc}]
  BY <1>1, <1>2, LocksDropped
<1>5. SpoiledKept(p) /\ spoiled' \subseteq Targets
  BY <1>1, <1>3, Unwritten, MoreSpoiled DEF TypeOK
<1>6. VarsOK'
  BY <1>1, <1>2, <1>3, <1>4, <1>5 DEF VarsOK
<1>7. OwnersKept(p)
  <2> SUFFICES ASSUME NEW u \in Targets, owner'[u] # owner[u]
               PROVE  /\ owner'[u] = NoAlloc /\ (Removing(u) => u \in spoiled')
                      /\ \A c \in Parts : Resets(p, u, c)'
    BY DEF OwnersKept
  <2>1. u = t /\ WipesFirst(path) /\ owner'[u] = NoAlloc
    BY <1>1, <1>3 DEF VarsOK
  <2>2. Removing(u) => u \in spoiled'
    BY <1>3, <2>1 DEF Disturb, WipesFirst
  <2>3. \A c \in Parts : Resets(p, u, c)'
    BY <1>3, <2>1 DEF Resets, At
  <2> QED
    BY <2>1, <2>2, <2>3
<1>8. Held(p)'
  <2> SUFFICES ASSUME NEW u \in Targets, Holds(k, u)
               PROVE  /\ tlock'[u] = p
                      /\ k.pc \in {"restart", "grant"} \/ WipesFirst(k.path)
                            => owner'[u] = NoAlloc
                      /\ k.path = "orphan" => owner'[u] = NoAlloc \/ ~Live(owner[u])'
                      /\ k.pc \in {"clean", "wipe"} =>
                            \A c \in Parts \ k.todo : left'[u][c] = NoAlloc
    BY DEF Held
  <2>1. u = t
    BY <1>3 DEF Holds
  <2>2. WipesFirst(path) => owner'[t] = NoAlloc
    BY <1>1, <1>3 DEF VarsOK
  <2>3. path = "orphan" => owner'[t] = owner[t] /\ ~Live(owner[t])'
    BY <1>2, <1>3 DEF WipesFirst, Live
  <2> QED
    BY <1>3, <1>4, <2>1, <2>2, <2>3
<1>9. Removal(p)'
  BY <1>3 DEF Removal
<1> QED
  BY <1>1, <1>2, <1>3, <1>4, <1>5, <1>6, <1>7, <1>8, <1>9, Unwritten DEF Framed

\* The waiter is the owner, and the lock is dropped.
LEMMA GrantStep ==
    ASSUME Inv, NEW p \in Procs, Grant(p)
    PROVE  Framed(p) /\ Held(p)' /\ Removal(p)'
<1> DEFINE d == job[p]
<1>1. /\ TypeOK /\ VarsOK /\ d \in Job /\ JobInv(d) /\ Held(p) /\ d.pc = "grant"
      /\ UNCHANGED <<state, group, left, alock, using, spoiled, soiled, uses, faults>>
  BY InvFacts DEF Grant, At
<1>2. PICK t \in d.tgt :
        /\ owner' = [owner EXCEPT ![t] = d.got]
        /\ queue' = [queue EXCEPT ![t] = @ \ {d.got}]
        /\ tlock' = [tlock EXCEPT ![t] = NoProc]
        /\ Goto(p, [Idle EXCEPT !.pc = "calculate", !.tgts = d.tgts \ {t}, !.got = d.got])
  BY DEF Grant
<1>3. /\ t \in Targets /\ d.got \in Allocs /\ tlock[t] = p /\ owner[t] = NoAlloc
      /\ d.tgts \ {t} \in SUBSET Targets
  BY <1>1, <1>2 DEF Held, Holds, Job, JobInv
<1> DEFINE ts == d.tgts \ {t}
           k == [Idle EXCEPT !.pc = "calculate", !.tgts = ts, !.got = d.got]
<1>4. Moves(p) /\ job'[p].pc = "calculate"
  <2>1. ts \in SUBSET Targets /\ Goto(p, k)
    BY <1>2, <1>3
  <2> HIDE DEF ts
  <2>2. k \in Job /\ JobInv(k) /\ k.pc = "calculate"
    BY <1>3, <2>1, CalculateJob
  <2> HIDE DEF k
  <2> QED
    BY <1>1, <2>1, <2>2, Gone
<1>5. Held(p)' /\ Removal(p)'
  BY <1>4, AtRest
<1>6. VarsOK'
  BY <1>1, <1>2, <1>3 DEF VarsOK
<1>7. OwnersKept(p)
  BY <1>1, <1>2, <1>3 DEF OwnersKept, VarsOK, At
<1>8. LocksKept(p)
  BY <1>1, <1>2, <1>3 DEF LocksKept, VarsOK
<1> QED
  BY <1>1, <1>4, <1>5, <1>6, <1>7, <1>8, Unwritten DEF Framed, At

\* It uses a group, or waits for more; what it has beyond the group is at hand.
LEMMA CalculateMoves ==
    ASSUME TypeOK, NEW p \in Procs, JobInv(job[p]),
           Calculate(p) \/ CalculateFails(p) \/ ExtrasDone(p)
    PROVE  /\ Moves(p) /\ job'[p].pc \in {"idle", "run", "extras"}
           /\ job[p].pc \in {"calculate", "extras"}
           /\ UNCHANGED <<owner, queue, left, alock, tlock, using, spoiled, soiled, uses, faults>>
           /\ state' \in [Allocs -> {"queued", "active", "restart-needed", "gone"}]
           /\ group' \in [Allocs -> SUBSET Targets]
           /\ \A a \in Allocs : Live(a)' <=> Live(a)
<1> DEFINE d == job[p]
           j(ts) == [d EXCEPT !.pc = "extras", !.tgt = ts]
<1>1. d \in Job /\ JobInv(d) /\ d.tgts \in SUBSET Targets
  BY DEF TypeOK, Job
<1>2. CASE Calculate(p)
  <2>1. d.pc = "calculate" /\ d.got \in Allocs /\ d.path = "none"
        /\ Live(d.got) /\ d.tgt \in SUBSET Targets
    BY <1>1, <1>2 DEF Calculate, At, JobInv, Job
  <2>2. ASSUME NEW ts \in SUBSET Targets, Goto(p, j(ts))
        PROVE  Moves(p) /\ job'[p].pc = "extras"
    <3> HIDE DEF d
    <3>1. j(ts) \in Job /\ j(ts).pc = "extras" /\ j(ts).path = "none" /\ j(ts).got = d.got
      BY <1>1, <2>1 DEF Job, PCs
    <3>2. JobInv(j(ts))
      BY <2>1, <3>1 DEF JobInv
    <3> DEFINE k == j(ts)
    <3> HIDE DEF j
    <3>3. k \in Job /\ JobInv(k) /\ k.pc = "extras" /\ Goto(p, k)
      BY <2>2, <3>1, <3>2
    <3> HIDE DEF k
    <3> QED
      BY <3>3, Gone
  <2>3. CASE \E n \in DOMAIN Groups[d.got] :
               /\ state' = [state EXCEPT ![d.got] = "active"]
               /\ group' = [group EXCEPT ![d.got] = Groups[d.got][n]]
               /\ Goto(p, j(Has(d.got) \ Groups[d.got][n]))
    <3>1. PICK n \in DOMAIN Groups[d.got] :
               /\ state' = [state EXCEPT ![d.got] = "active"]
               /\ group' = [group EXCEPT ![d.got] = Groups[d.got][n]]
               /\ Goto(p, j(Has(d.got) \ Groups[d.got][n]))
      BY <2>3
    <3>2. /\ Groups[d.got][n] \in SUBSET Targets
          /\ Has(d.got) \ Groups[d.got][n] \in SUBSET Targets
      BY <2>1, GroupTypes DEF Has
    <3>3. Moves(p) /\ job'[p].pc = "extras"
      BY <2>2, <3>1, <3>2
    <3> QED
      BY <1>2, <2>1, <3>1, <3>2, <3>3 DEF TypeOK, Live, Calculate
  <2>4. CASE Goto(p, [d EXCEPT !.pc = "extras"]) /\ UNCHANGED <<state, group>>
    <3>1. Goto(p, j(d.tgt))
      <4> HIDE DEF d
      <4>1. [d EXCEPT !.pc = "extras"] = [d EXCEPT !.pc = "extras", !.tgt = d.tgt]
        BY <1>1 DEF Job
      <4> QED
        BY <2>4, <4>1
    <3>2. Moves(p) /\ job'[p].pc = "extras"
      BY <2>1, <2>2, <3>1
    <3> QED
      BY <1>2, <2>1, <2>4, <3>2 DEF TypeOK, Live, Calculate
  <2> QED
    BY <1>2, <2>3, <2>4 DEF Calculate
<1>3. CASE CalculateFails(p)
  <2>1. Moves(p) /\ job'[p].pc = "idle"
    BY <1>3, Gone, IdleJob DEF CalculateFails
  <2> QED
    BY <1>3, <2>1 DEF CalculateFails, At, TypeOK, Live
<1>4. CASE ExtrasDone(p)
  <2>1. Moves(p) /\ job'[p].pc = "run"
    BY <1>1, <1>4, Gone, IdleJob DEF ExtrasDone
  <2> QED
    BY <1>4, <2>1 DEF ExtrasDone, At, TypeOK, Live
<1> QED
  BY <1>2, <1>3, <1>4

\* ... which leaves the targets alone.
LEMMA CalculateStep ==
    ASSUME Inv, NEW p \in Procs, Calculate(p) \/ CalculateFails(p) \/ ExtrasDone(p)
    PROVE  Framed(p) /\ Held(p)' /\ Removal(p)'
<1>1. TypeOK /\ VarsOK /\ JobInv(job[p])
  BY InvFacts
<1>2. /\ Moves(p) /\ job'[p].pc \in {"idle", "run", "extras"}
      /\ job[p].pc \in {"calculate", "extras"}
      /\ UNCHANGED <<owner, queue, left, alock, tlock, using, spoiled, soiled, uses, faults>>
      /\ state' \in [Allocs -> {"queued", "active", "restart-needed", "gone"}]
      /\ group' \in [Allocs -> SUBSET Targets]
      /\ \A a \in Allocs : Live(a)' <=> Live(a)
  BY <1>1, CalculateMoves
<1>3. Held(p)' /\ Removal(p)'
  BY <1>2, AtRest
<1>4. VarsOK'
  BY <1>1, <1>2 DEF VarsOK
<1>5. RecordsKept(p)
  BY <1>2 DEF RecordsKept
<1> QED
  BY <1>1, <1>2, <1>3, <1>4, <1>5, Unwritten DEF Framed, At

\* An extra is given back, or it is no longer of the allocation.
LEMMA ExtraMoves ==
    ASSUME TypeOK, NEW p \in Procs, JobInv(job[p]), NEW t \in Targets, ReleaseExtra(p, t)
    PROVE  /\ Moves(p) /\ job[p].pc = "extras" /\ job'[p].pc = "extras" /\ tlock[t] = NoProc
           /\ UNCHANGED <<state, group, queue, left, alock, tlock, using, uses, faults>>
           /\ \/ UNCHANGED <<owner, spoiled, soiled>>
              \/ /\ owner' = [owner EXCEPT ![t] = NoAlloc]
                 /\ spoiled' = spoiled \cup IF Removing(t) THEN {t} ELSE {}
                 /\ soiled' = soiled \cup IF Used(t) THEN {t} ELSE {}
<1> DEFINE d == job[p]
           j == [d EXCEPT !.tgt = @ \ {t}]
<1>1. d \in Job /\ JobInv(d) /\ d.pc = "extras" /\ Goto(p, j)
  BY DEF TypeOK, ReleaseExtra, At
<1> HIDE DEF d
<1>2. /\ j \in Job /\ j.pc = "extras" /\ j.path = d.path /\ j.got = d.got /\ j.cur = d.cur
      /\ j.todo = d.todo
  BY <1>1 DEF Job
<1>3. JobInv(j)
  BY <1>1, <1>2 DEF JobInv
<1> HIDE DEF j
<1>4. Moves(p) /\ job'[p].pc = "extras"
  BY <1>1, <1>2, <1>3, Gone
<1> QED
  BY <1>1, <1>4 DEF ReleaseExtra, Disturb, d

\* Where it was used, it is known as soiled.
LEMMA ExtraStep ==
    ASSUME Inv, NEW p \in Procs, NEW t \in Targets, ReleaseExtra(p, t)
    PROVE  Framed(p) /\ Held(p)' /\ Removal(p)'
<1>1. TypeOK /\ VarsOK /\ JobInv(job[p])
  BY InvFacts
<1>2. /\ Moves(p) /\ job[p].pc = "extras" /\ job'[p].pc = "extras" /\ tlock[t] = NoProc
      /\ UNCHANGED <<state, group, queue, left, alock, tlock, using, uses, faults>>
      /\ \/ UNCHANGED <<owner, spoiled, soiled>>
         \/ /\ owner' = [owner EXCEPT ![t] = NoAlloc]
            /\ spoiled' = spoiled \cup IF Removing(t) THEN {t} ELSE {}
            /\ soiled' = soiled \cup IF Used(t) THEN {t} ELSE {}
  BY <1>1, ExtraMoves
<1>3. Held(p)' /\ Removal(p)'
  BY <1>2, AtRest
<1>4. VarsOK'
  BY <1>1, <1>2 DEF VarsOK
<1>5. OwnersKept(p)
  BY <1>1, <1>2 DEF OwnersKept, VarsOK
<1>6. SpoiledKept(p) /\ SoiledKept(p)
  BY <1>2 DEF SpoiledKept, SoiledKept
<1> QED
  BY <1>1, <1>2, <1>3, <1>4, <1>5, <1>6, Unwritten DEF Framed, At

\* One part is reset.
LEMMA ResetStep ==
    ASSUME Inv, NEW p \in Procs, Reset(p)
    PROVE  Framed(p) /\ Held(p)' /\ Removal(p)'
<1> DEFINE d == job[p]
           j(c) == [d EXCEPT !.todo = @ \ {c}]
<1>1. /\ TypeOK /\ VarsOK /\ d \in Job /\ JobInv(d) /\ Held(p) /\ Removal(p)
      /\ d.pc = "clean"
  BY InvFacts DEF Reset, At
<1>2. PICK t \in d.tgt, c \in Parts :
        /\ left' = [left EXCEPT ![t][c] = NoAlloc]
        /\ Goto(p, j(c))
        /\ UNCHANGED <<state, group, owner, queue, alock, tlock, using, spoiled, soiled, uses,
                       faults>>
  BY DEF Reset
<1>3. /\ t \in Targets /\ d.tgt = {t}
  BY <1>1, <1>2 DEF JobInv, Job
<1> HIDE DEF d
<1>4. /\ j(c) \in Job /\ j(c).pc = "clean" /\ j(c).tgt = {t} /\ j(c).todo = d.todo \ {c}
      /\ j(c).path = d.path /\ j(c).cur = d.cur /\ j(c).got = d.got
  BY <1>1, <1>3 DEF Job, PCs
<1>5. JobInv(j(c))
  BY <1>1, <1>3, <1>4 DEF JobInv
<1> DEFINE k == j(c)
<1> HIDE DEF j
<1>6. Moves(p) /\ job'[p] = k
  BY <1>1, <1>2, <1>4, <1>5, Gone
<1>7. /\ left' \in [Targets -> [Parts -> Allocs \cup {NoAlloc}]]
      /\ \A u \in Targets, e \in Parts :
            left'[u][e] = IF u = t /\ e = c THEN NoAlloc ELSE left[u][e]
  BY <1>1, <1>2, <1>3 DEF VarsOK
<1>8. VarsOK'
  BY <1>1, <1>2, <1>7 DEF VarsOK
<1>9. LeftKept(p)
  BY <1>1, <1>3, <1>7 DEF LeftKept, At, d
<1>10. ResetsKept(p)
  BY <1>1, <1>3, <1>4, <1>6, <1>7 DEF ResetsKept, Resets, At, d
<1>11. \A e \in Parts \ k.todo : e = c \/ e \in Parts \ d.todo
  BY <1>4
<1>12. Held(p)'
  <2> SUFFICES ASSUME Holds(k, t)
               PROVE  /\ tlock'[t] = p
                      /\ k.pc \in {"restart", "grant"} \/ WipesFirst(k.path)
                            => owner'[t] = NoAlloc
                      /\ k.path = "orphan" => owner'[t] = NoAlloc \/ ~Live(owner[t])'
                      /\ t \notin soiled => \A e \in Parts \ k.todo : left'[t][e] = NoAlloc
    BY <1>2, <1>4, <1>6 DEF Held, Holds
  <2>1. Holds(d, t)
    BY <1>1, <1>3, <1>4 DEF Holds
  <2> QED
    BY <1>1, <1>2, <1>3, <1>4, <1>7, <1>11, <2>1 DEF Held, d, WipesFirst, Live
<1>13. Removal(p)'
  <2> SUFFICES ASSUME k.path = "delete"
               PROVE  /\ state'[k.cur] # "gone"
                      /\ t \notin spoiled =>
                            /\ owner'[t] = k.cur
                            /\ t \notin soiled =>
                                  \A e \in Parts \ k.todo : left'[t][e] = NoAlloc
    BY <1>2, <1>4, <1>6 DEF Removal, Live
  <2> QED
    BY <1>1, <1>2, <1>3, <1>4, <1>7, <1>11 DEF Removal, d, Live
<1> QED
  BY <1>1, <1>2, <1>6, <1>8, <1>9, <1>10, <1>12, <1>13, Unwritten DEF Framed

\* A hook raises or the process dies: where no owner is left to show it, it is known.
LEMMA FaultStep ==
    ASSUME Inv, NEW p \in Procs, Raises(p) \/ Crash(p)
    PROVE  Framed(p) /\ Held(p)' /\ Removal(p)'
<1> DEFINE d == job[p]
<1>1. /\ TypeOK /\ VarsOK /\ d \in Job /\ JobInv(d)
  BY InvFacts
<1>2. /\ UNCHANGED <<state, group, owner, queue, left, using, soiled, uses>>
      /\ CutShort(p) /\ DropLocks(p)
      /\ faults' \in 0 .. MaxFaults
  BY <1>1, BoundsAssumption DEF Raises, Crash, Fault, VarsOK
<1>3. Moves(p) /\ job'[p].pc \in {"idle", "remove"}
  <2>1. CASE Goto(p, Idle)
    BY <1>1, <2>1, Gone, IdleJob
  <2>2. CASE d.path = "delete" /\ Goto(p, [Idle EXCEPT !.pc = "remove", !.cur = d.cur])
    <3> DEFINE j == [Idle EXCEPT !.pc = "remove", !.cur = d.cur]
    <3>1. d.cur \in Allocs
      BY <1>1, <2>2 DEF JobInv
    <3>2. j \in Job /\ JobInv(j) /\ j.pc = "remove"
      BY <3>1, RaisedJob
    <3> HIDE DEF j
    <3>3. Goto(p, j)
      BY <2>2 DEF j
    <3> QED
      BY <1>1, <3>2, <3>3, Gone
  <2> QED
    BY <2>1, <2>2 DEF Raises, Crash
<1>4. Held(p)' /\ Removal(p)'
  BY <1>3, AtRest
<1>5. SpoiledKept(p) /\ spoiled' \subseteq Targets
  BY <1>1, <1>2, MoreSpoiled
<1>6. VarsOK' /\ LocksKept(p)
  BY <1>1, <1>2, <1>5, LocksDropped DEF VarsOK
<1>7. ResetsKept(p)
  BY <1>2 DEF ResetsKept, Resets, CutShort
<1> QED
  BY <1>1, <1>2, <1>3, <1>4, <1>5, <1>6, <1>7, Unwritten DEF Framed

\* The cleanup is over.
LEMMA CleanedStep ==
    ASSUME Inv, NEW p \in Procs, Cleaned(p)
    PROVE  Framed(p) /\ Held(p)' /\ Removal(p)'
<1> DEFINE d == job[p]
           j(pc) == [d EXCEPT !.pc = pc]
<1>1. /\ TypeOK /\ VarsOK /\ d \in Job /\ JobInv(d) /\ Held(p) /\ Removal(p)
      /\ d.pc = "clean" /\ d.todo = {}
  BY InvFacts DEF Cleaned, At
<1>2. /\ spoiled' = {t \in spoiled : t \in d.tgt => Removing(t)}
      /\ soiled' = {t \in soiled : t \in d.tgt => Used(t)}
      /\ UNCHANGED <<state, group, owner, queue, left, using, uses, faults>>
  BY DEF Cleaned
<1>3. /\ d.path \in {"orphan", "release", "preempt", "delete"}
      /\ d.tgt \subseteq Targets
  BY <1>1 DEF JobInv, Job
<1>4. SpoiledKept(p) /\ spoiled' \subseteq Targets /\ SoiledKept(p) /\ soiled' \subseteq Targets
  BY <1>1, <1>2 DEF SpoiledKept, SoiledKept, Used, At, TypeOK
<1>5. ResetsKept(p)
  BY <1>1 DEF ResetsKept, Resets
<1>6. CASE d.path = "release"
  <2>1. Goto(p, Idle) /\ DropLocks(p)
    BY <1>6 DEF Cleaned
  <2>2. Moves(p) /\ job'[p].pc = "idle"
    BY <1>1, <2>1, Gone, IdleJob
  <2>3. Held(p)' /\ Removal(p)'
    BY <2>2, AtRest
  <2>4. VarsOK' /\ LocksKept(p)
    BY <1>1, <1>2, <1>4, <2>1, LocksDropped DEF VarsOK
  <2> QED
    BY <1>1, <1>2, <1>4, <1>5, <2>2, <2>3, <2>4, Unwritten DEF Framed
<1>7. CASE d.path # "release"
  <2> DEFINE pc == IF d.path = "preempt" THEN "restart" ELSE "wipe"
  <2>1. Goto(p, j(pc)) /\ UNCHANGED <<alock, tlock>>
    BY <1>3, <1>7 DEF Cleaned
  <2> HIDE DEF d
  <2>2. /\ j(pc) \in Job /\ j(pc).pc = pc /\ j(pc).tgt = d.tgt /\ j(pc).todo = {}
        /\ j(pc).path = d.path /\ j(pc).cur = d.cur /\ j(pc).got = d.got
    BY <1>1 DEF Job, PCs
  <2>4. JobInv(j(pc))
    BY <1>1, <1>3, <1>7, <2>2 DEF JobInv
  <2> DEFINE k == j(pc)
  <2> HIDE DEF j
  <2>5. Moves(p) /\ job'[p] = k
    BY <1>1, <2>1, <2>2, <2>4, Gone
  <2>6. \A t : Holds(k, t) => Holds(d, t)
    BY <1>1, <1>3, <1>7, <2>2 DEF Holds
  <2>61. \A t \in soiled \ soiled' : \A c \in Parts : left'[t][c] = NoAlloc
    BY <1>2 DEF Used
  <2>7. Held(p)'
    BY <1>1, <1>2, <1>3, <1>7, <2>1, <2>2, <2>5, <2>6, <2>61 DEF Held, d, WipesFirst, Live
  <2>8. Removal(p)'
    <3> SUFFICES ASSUME k.path = "delete"
                 PROVE  /\ state'[k.cur] # "gone"
                        /\ \A t \in k.tgt \ spoiled' :
                              /\ owner'[t] = k.cur
                              /\ t \notin soiled' =>
                                    \A c \in Parts \ k.todo : left'[t][c] = NoAlloc
      BY <2>5 DEF Removal, Live
    <3>1. \A t \in d.tgt : Removing(t)
      BY <2>2 DEF Removing, d
    <3> QED
      BY <1>1, <1>2, <2>2, <2>61, <3>1 DEF Removal, d, Live
  <2>9. VarsOK'
    BY <1>1, <1>2, <1>4, <2>1 DEF VarsOK
  <2> QED
    BY <1>1, <1>2, <1>4, <1>5, <2>1, <2>5, <2>7, <2>8, <2>9, Unwritten DEF Framed
<1> QED
  BY <1>6, <1>7

\* The owner whose targets were cleaned is dropped.
LEMMA WipeStep ==
    ASSUME Inv, NEW p \in Procs, Wipe(p)
    PROVE  Framed(p) /\ Held(p)' /\ Removal(p)'
<1> DEFINE d == job[p]
           j == [d EXCEPT !.pc = "delete", !.tgt = {}]
<1>1. /\ TypeOK /\ VarsOK /\ d \in Job /\ JobInv(d) /\ Held(p) /\ Removal(p)
      /\ d.pc = "wipe" /\ d.tgts \in SUBSET Targets
  BY InvFacts DEF Wipe, At, Job
<1>2. PICK t \in d.tgt :
        /\ owner' = [owner EXCEPT ![t] = NoAlloc]
        /\ IF d.path = "orphan"
           THEN /\ tlock' = [tlock EXCEPT ![t] = NoProc]
                /\ Goto(p, [Idle EXCEPT !.pc = "run", !.tgts = d.tgts])
           ELSE /\ UNCHANGED tlock
                /\ Goto(p, j)
        /\ UNCHANGED <<state, group, queue, left, alock, using, spoiled, soiled, uses, faults>>
  BY DEF Wipe
<1>3. t \in Targets /\ d.path \in {"orphan", "delete"}
  BY <1>1, <1>2 DEF JobInv, Job
<1>4. OwnersKept(p)
  BY <1>1, <1>2, <1>3 DEF OwnersKept, At, VarsOK
<1>5. VarsOK' /\ LocksKept(p)
  <2>1. d.path = "orphan" => tlock[t] = p
    BY <1>1, <1>2, <1>3 DEF Held, Holds
  <2> QED
    BY <1>1, <1>2, <1>3, <2>1 DEF VarsOK, LocksKept
<1>6. Moves(p) /\ Held(p)' /\ Removal(p)'
  <2>1. CASE d.path = "orphan"
    <3>1. Moves(p) /\ job'[p].pc = "run"
      BY <1>1, <1>2, <2>1, Gone, IdleJob
    <3> QED
      BY <3>1, AtRest
  <2>2. CASE d.path = "delete"
    <3>1. Goto(p, j) /\ state'[d.cur] # "gone" /\ d.cur \in Allocs
      BY <1>1, <1>2, <2>2 DEF Removal, Live, JobInv
    <3> HIDE DEF d
    <3>2. /\ j \in Job /\ j.pc = "delete" /\ j.tgt = {} /\ j.path = "delete" /\ j.cur = d.cur
      BY <1>1, <2>2 DEF Job, PCs
    <3>3. JobInv(j)
      BY <3>1, <3>2 DEF JobInv
    <3> HIDE DEF j
    <3>4. Moves(p) /\ job'[p] = j
      BY <1>1, <3>1, <3>2, <3>3, Gone
    <3> QED
      BY <3>1, <3>2, <3>4 DEF Held, Holds, Removal, Live
  <2> QED
    BY <1>3, <2>1, <2>2
<1> QED
  BY <1>1, <1>2, <1>4, <1>5, <1>6, Unwritten DEF Framed, At

\* The owner that was preempted is told.
LEMMA RestartStep ==
    ASSUME Inv, NEW p \in Procs, Restart(p)
    PROVE  Framed(p) /\ Held(p)' /\ Removal(p)'
<1> DEFINE d == job[p]
           j == [d EXCEPT !.pc = "grant", !.cur = NoAlloc]
<1>1. /\ TypeOK /\ VarsOK /\ d \in Job /\ JobInv(d) /\ Held(p)
      /\ d.pc = "restart"
           /\ UNCHANGED <<group, owner, queue, left, alock, using, spoiled, soiled, uses, faults>>
  BY InvFacts DEF Restart, At
<1>2. d.path = "preempt" /\ d.cur \in Allocs /\ d.got \in Allocs /\ d.tgt \subseteq Targets
  BY <1>1 DEF JobInv, Job
<1>3. CASE Live(d.cur)
  <2>1. /\ state' = [state EXCEPT ![d.cur] = "restart-needed"]
        /\ Goto(p, j) /\ UNCHANGED tlock
    BY <1>3 DEF Restart
  <2>2. RecordsKept(p)
    BY <1>1, <1>2, <1>3, <2>1 DEF RecordsKept, Live, VarsOK
  <2> HIDE DEF d
  <2>3. /\ j \in Job /\ j.pc = "grant" /\ j.tgt = d.tgt /\ j.path = "preempt"
        /\ j.got = d.got /\ j.cur = NoAlloc
    BY <1>1, <1>2 DEF Job, PCs
  <2>4. JobInv(j)
    BY <1>1, <1>2, <2>3 DEF JobInv
  <2> HIDE DEF j
  <2>5. Moves(p) /\ job'[p] = j
    BY <1>1, <2>1, <2>3, <2>4, Gone
  <2>6. \A t : Holds(j, t) => Holds(d, t)
    BY <1>1, <2>3 DEF Holds
  <2>7. Held(p)' /\ Removal(p)'
    BY <1>1, <2>1, <2>3, <2>5, <2>6 DEF Held, Removal, d, WipesFirst
  <2>8. VarsOK'
    BY <1>1, <1>2, <2>1 DEF VarsOK
  <2> QED
    BY <1>1, <2>1, <2>2, <2>5, <2>7, <2>8, Unwritten DEF Framed, At, d
<1>4. CASE ~Live(d.cur)
  <2>1. /\ Goto(p, Idle) /\ UNCHANGED state
        /\ tlock' = [t \in Targets |-> IF tlock[t] = p THEN NoProc ELSE tlock[t]]
    BY <1>4 DEF Restart
  <2>2. Moves(p) /\ job'[p].pc = "idle"
    BY <1>1, <2>1, Gone, IdleJob
  <2>3. Held(p)' /\ Removal(p)'
    BY <2>2, AtRest
  <2>4. VarsOK' /\ LocksKept(p)
    BY <1>1, <2>1 DEF VarsOK, LocksKept
  <2> QED
    BY <1>1, <2>1, <2>2, <2>3, <2>4, Unwritten DEF Framed, At
<1> QED
  BY <1>3, <1>4

\* A removal begins.
LEMMA DeleteStep ==
    ASSUME Inv, NEW p \in Procs, NEW a \in Allocs, Delete(p, a)
    PROVE  Framed(p) /\ Held(p)' /\ Removal(p)'
<1> DEFINE d == job[p]
<1>1. /\ TypeOK /\ VarsOK /\ d \in Job /\ JobInv(d) /\ d.pc = "idle" /\ Live(a)
      /\ UNCHANGED <<state, group, owner, queue, left, tlock, using, spoiled, soiled, uses,
                     faults>>
      /\ group[a] \in SUBSET Targets /\ TargetsOf(a) \in SUBSET Targets
  BY InvFacts, GroupTypes DEF Delete, At, VarsOK
<1>2. VarsOK'
  BY <1>1 DEF Delete, VarsOK
<1> PICK ts \in SUBSET Targets : ts = IF state[a] = "active" THEN group[a] ELSE TargetsOf(a)
  BY <1>1
<1> DEFINE cleans == [Idle EXCEPT !.pc = "delete", !.path = "delete", !.cur = a, !.tgts = ts]
           goes == [Idle EXCEPT !.pc = "remove", !.cur = a, !.tgts = ts]
<1>3. /\ cleans \in Job /\ JobInv(cleans) /\ cleans.pc = "delete" /\ cleans.tgt = {}
      /\ cleans.path = "delete" /\ cleans.cur = a
  <2>1. Idle \in Job /\ Idle.path = "none" /\ Idle.tgt = {}
    BY IdleJob
  <2> HIDE DEF Idle
  <2> QED
    BY <2>1 DEF Job, PCs, JobInv
<1>4. goes \in Job /\ JobInv(goes) /\ goes.pc = "remove"
  BY RemoveJob
<1>5. Goto(p, cleans) \/ Goto(p, goes)
  BY DEF Delete
<1> HIDE DEF cleans, goes
<1>6. Moves(p) /\ Held(p)' /\ Removal(p)'
  <2>1. CASE Goto(p, cleans)
    <3>1. Moves(p) /\ job'[p] = cleans
      BY <1>1, <1>3, <2>1, Gone
    <3>2. state'[a] # "gone"
      BY <1>1 DEF Live
    <3> QED
      BY <1>3, <3>1, <3>2 DEF Held, Removal, Holds, Live
  <2>2. CASE Goto(p, goes)
    BY <1>1, <1>4, <2>2, Gone, AtRest
  <2> QED
    BY <1>5, <2>1, <2>2
<1> QED
  BY <1>1, <1>2, <1>6, Unwritten DEF Framed, At

\* A removal takes up a target of the group, and cleans it if it is still its own.
LEMMA DeleteTargetStep ==
    ASSUME Inv, NEW p \in Procs, DeleteTarget(p)
    PROVE  Framed(p) /\ Held(p)' /\ Removal(p)'
<1> DEFINE d == job[p]
           cleans(t) == [d EXCEPT !.pc = "clean", !.tgts = @ \ {t}, !.tgt = {t},
                          !.todo = Parts]
           passes(t) == [d EXCEPT !.tgts = @ \ {t}]
<1>1. /\ TypeOK /\ VarsOK /\ d \in Job /\ JobInv(d) /\ Removal(p) /\ d.pc = "delete"
      /\ UNCHANGED <<state, group, owner, queue, left, alock, tlock, using, spoiled, soiled, uses,
                     faults>>
  BY InvFacts DEF DeleteTarget, At
<1>2. PICK t \in d.tgts : IF owner[t] = d.cur THEN Goto(p, cleans(t)) ELSE Goto(p, passes(t))
  BY DEF DeleteTarget
<1>3. /\ t \in Targets /\ d.path = "delete" /\ d.cur \in Allocs /\ d.tgt = {}
      /\ state'[d.cur] # "gone"
  BY <1>1, <1>2 DEF Job, JobInv, Removal, Live
<1> HIDE DEF d
<1>4. /\ cleans(t) \in Job /\ cleans(t).pc = "clean" /\ cleans(t).tgt = {t}
      /\ cleans(t).path = "delete" /\ cleans(t).cur = d.cur /\ cleans(t).todo = Parts
  BY <1>1, <1>3 DEF Job, PCs
<1>5. /\ passes(t) \in Job /\ passes(t).pc = "delete" /\ passes(t).tgt = {}
      /\ passes(t).path = "delete" /\ passes(t).cur = d.cur
  BY <1>1, <1>3 DEF Job, PCs
<1>6. JobInv(cleans(t)) /\ JobInv(passes(t))
  BY <1>3, <1>4, <1>5 DEF JobInv
<1> DEFINE k == cleans(t)
           n == passes(t)
<1> HIDE DEF cleans, passes
<1>7. Moves(p) /\ Held(p)' /\ Removal(p)'
  <2>1. CASE owner[t] = d.cur /\ Goto(p, k)
    <3>1. Moves(p) /\ job'[p] = k
      BY <1>1, <1>4, <1>6, <2>1, Gone
    <3> QED
      BY <1>1, <1>3, <1>4, <2>1, <3>1 DEF Held, Removal, Holds, Live
  <2>2. CASE Goto(p, n)
    <3>1. Moves(p) /\ job'[p] = n
      BY <1>1, <1>5, <1>6, <2>2, Gone
    <3> QED
      BY <1>3, <1>5, <3>1 DEF Held, Removal, Holds, Live
  <2> QED
    BY <1>2, <2>1, <2>2
<1>8. VarsOK'
  BY <1>1 DEF VarsOK
<1> QED
  BY <1>1, <1>7, <1>8, Unwritten DEF Framed, At, d

\* The targets are done; the record goes.
LEMMA RemoveSteps ==
    ASSUME Inv, NEW p \in Procs, DeleteDone(p) \/ Remove(p)
    PROVE  Framed(p) /\ Held(p)' /\ Removal(p)'
<1> DEFINE d == job[p]
<1>1. /\ TypeOK /\ VarsOK /\ d \in Job /\ JobInv(d) /\ d.pc \in {"delete", "remove"}
      /\ UNCHANGED <<group, owner, queue, left, tlock, using, spoiled, soiled, uses, faults>>
  BY InvFacts DEF DeleteDone, Remove, At
<1>2. d.cur \in Allocs /\ group[d.cur] \in SUBSET Targets /\ d.tgts \in SUBSET Targets
  BY <1>1 DEF JobInv, Job, VarsOK
<1>3. Moves(p) /\ job'[p].pc \in {"run", "remove"}
  <2> PICK ts \in SUBSET Targets : ts = group[d.cur]
    BY <1>2
  <2> DEFINE goes == [Idle EXCEPT !.pc = "remove", !.cur = d.cur, !.tgts = ts]
             runs == [Idle EXCEPT !.pc = "run", !.tgts = d.tgts]
  <2>1. goes \in Job /\ JobInv(goes) /\ goes.pc = "remove"
    BY <1>2, RemoveJob
  <2>2. runs \in Job /\ JobInv(runs) /\ runs.pc = "run"
    BY <1>2, IdleJob
  <2>3. Goto(p, goes) \/ Goto(p, runs)
    BY DEF DeleteDone, Remove
  <2> HIDE DEF goes, runs
  <2> QED
    BY <1>1, <2>1, <2>2, <2>3, Gone
<1>4. Held(p)' /\ Removal(p)'
  BY <1>3, AtRest
<1>5. VarsOK' /\ RecordsKept(p)
  <2>1. CASE DeleteDone(p)
    BY <1>1, <1>2, <2>1 DEF DeleteDone, VarsOK, RecordsKept, Live
  <2>2. CASE Remove(p)
    BY <1>1, <1>2, <2>2 DEF Remove, At, VarsOK, RecordsKept, Live
  <2> QED
    BY <2>1, <2>2
<1> QED
  BY <1>1, <1>3, <1>4, <1>5, Unwritten DEF Framed, At

\* Any step of a process.
LEMMA ProcessSteps ==
    ASSUME Inv, NEW p \in Procs,
           \/ Continue(p) \/ Maintain(p) \/ Crash(p)
           \/ \E t \in Targets : GiveBack(p, t)
           \/ \E a \in Allocs : Delete(p, a)
    PROVE  Framed(p) /\ Held(p)' /\ Removal(p)'
BY IdleSteps, TakeStep, CleanStep, GrantStep, CalculateStep, ExtraStep, ResetStep, FaultStep,
    CleanedStep, WipeStep,
   RestartStep, DeleteStep, DeleteTargetStep, RemoveSteps DEF Continue

-----------------------------------------------------------------------------
(* The invariant. *)

\* The step of one process leaves what the others know true, as no two remove one
\* allocation: what they hold is theirs, and what they remove nobody else wipes.
LEMMA OthersKept ==
    ASSUME Inv, RemovedOnce, NEW p \in Procs, Framed(p), NEW q \in Procs, q # p
    PROVE  Held(q)' /\ Removal(q)'
<1> DEFINE d == job[q]
<1>1. /\ TypeOK /\ VarsOK /\ d \in Job /\ JobInv(d) /\ Held(q) /\ Removal(q)
      /\ Held(p) /\ Removal(p) /\ JobInv(job[p]) /\ job \in [Procs -> Job]
  BY InvFacts
<1>2. job'[q] = d
  BY <1>1 DEF Framed, Moves
<1>3. ASSUME NEW t \in Targets, Holds(d, t)
      PROVE  /\ tlock'[t] = q
             /\ d.pc \in {"restart", "grant"} \/ WipesFirst(d.path) => owner'[t] = NoAlloc
             /\ d.path = "orphan" => owner'[t] = NoAlloc \/ state'[owner'[t]] = "gone"
             /\ d.pc \in {"clean", "wipe"} /\ t \notin soiled' =>
                    \A c \in Parts \ d.todo : left'[t][c] = NoAlloc
  <2>1. tlock[t] = q /\ tlock'[t] = q
    BY <1>1, <1>3 DEF Held, Framed, LocksKept
  <2>2. owner'[t] = owner[t] \/ owner'[t] = NoAlloc
    BY <2>1 DEF Framed, OwnersKept
  <2>3. d.pc \in {"restart", "grant"} \/ WipesFirst(d.path) => owner[t] = NoAlloc
    BY <1>1, <1>3 DEF Held
  <2>4. d.path = "orphan" => owner[t] = NoAlloc \/ state[owner[t]] = "gone"
    BY <1>1, <1>3 DEF Held, Live
  <2>5. \A a \in Allocs : state[a] = "gone" => state'[a] = "gone"
    BY DEF Framed, RecordsKept, Live
  <2>6. owner[t] \in Allocs \cup {NoAlloc}
    BY <1>1 DEF VarsOK
  <2>7. d.pc \in {"clean", "wipe"} /\ t \notin soiled' =>
            \A c \in Parts \ d.todo : left[t][c] = NoAlloc
    BY <1>1, <1>3 DEF Held, Framed, SoiledKept
  <2>8. d.pc \in {"clean", "wipe"} /\ t \notin soiled' =>
            \A c \in Parts \ d.todo : left'[t][c] = NoAlloc
    BY <2>7 DEF Framed, LeftKept
  <2> QED
    BY <2>1, <2>2, <2>3, <2>4, <2>5, <2>6, <2>8
<1>4. Held(q)'
  BY <1>2, <1>3 DEF Held, Live
<1>5. ASSUME d.path = "delete"
      PROVE  /\ state'[d.cur] # "gone"
             /\ \A t \in d.tgt \ spoiled' :
                    /\ owner'[t] = d.cur
                    /\ t \notin soiled' => \A c \in Parts \ d.todo : left'[t][c] = NoAlloc
  <2>1. d.cur \in Allocs /\ state[d.cur] # "gone" /\ d.tgt \subseteq Targets
    BY <1>1, <1>5 DEF JobInv, Removal, Live, Job
  <2>2. ~(Removes(p) /\ job[p].cur = d.cur)
    BY <1>5 DEF RemovedOnce, Removes
  <2>3. state'[d.cur] # "gone"
    BY <2>1, <2>2 DEF Framed, RecordsKept, Live, Removes
  <2>4. ASSUME NEW t \in d.tgt \ spoiled'
        PROVE  /\ owner'[t] = d.cur
               /\ t \notin soiled' => \A c \in Parts \ d.todo : left'[t][c] = NoAlloc
    <3>1. Removing(t) /\ t \in Targets
      BY <1>5, <2>1, <2>4 DEF Removing
    <3>2. t \notin spoiled
      BY <2>4, <3>1 DEF Framed, SpoiledKept
    <3>3. /\ owner[t] = d.cur
          /\ t \notin soiled' => \A c \in Parts \ d.todo : left[t][c] = NoAlloc
      BY <1>1, <1>5, <2>4, <3>1, <3>2 DEF Removal, Framed, SoiledKept
    <3>4. ~(At(p, "wipe") /\ t \in job[p].tgt)
      <4> SUFFICES ASSUME At(p, "wipe"), t \in job[p].tgt
                   PROVE  FALSE
        OBVIOUS
      <4>1. CASE job[p].path = "orphan"
        <5>1. Holds(job[p], t)
          BY <4>1 DEF Holds, At
        <5> QED
          BY <1>1, <2>1, <3>1, <3>3, <4>1, <5>1, NamesAssumption DEF Held, Live
      <4>2. CASE job[p].path = "delete"
        <5>1. owner[t] = job[p].cur
          BY <1>1, <3>2, <4>2 DEF Removal
        <5> QED
          BY <2>2, <3>3, <4>2, <5>1 DEF Removes
      <4>3. job[p].path \in {"orphan", "delete"}
        BY <1>1 DEF JobInv, At, Job
      <4> QED
        BY <4>1, <4>2, <4>3
    <3>5. owner'[t] = d.cur
      BY <2>1, <2>4, <3>1, <3>3, <3>4, NamesAssumption DEF Framed, OwnersKept
    <3> QED
      BY <3>1, <3>3, <3>5 DEF Framed, LeftKept
  <2> QED
    BY <2>3, <2>4
<1>6. Removal(q)'
  BY <1>2, <1>5 DEF Removal, Live
<1> QED
  BY <1>4, <1>6

\* What is left in a target stays its owner's, or is about to be reset.
LEMMA OwnLeftKept ==
    ASSUME Inv, NEW p \in Procs, Framed(p)
    PROVE  OwnLeft'
<1> SUFFICES ASSUME NEW t \in Targets \ (spoiled' \cup soiled'), NEW c \in Parts
             PROVE  \/ left'[t][c] \in {NoAlloc, owner'[t]}
                    \/ \E q \in Procs : Resets(q, t, c)'
  BY DEF OwnLeft
<1>1. /\ TypeOK /\ VarsOK /\ Held(p) /\ Removal(p) /\ JobInv(job[p])
      /\ job \in [Procs -> Job] /\ job[p] \in Job
  BY InvFacts
<1>0. CASE t \in soiled
  BY <1>0 DEF Framed, SoiledKept
<1>2. CASE t \in spoiled /\ t \notin soiled
  <2>1. /\ At(p, "clean") /\ t \in job[p].tgt /\ job[p].todo = {} /\ ~Removing(t)
        /\ UNCHANGED <<left, owner>>
    BY <1>2 DEF Framed, SpoiledKept
  <2>2. Holds(job[p], t)
    BY <2>1 DEF Holds, At, Removing
  <2> QED
    BY <1>1, <1>2, <2>1, <2>2 DEF Held, At
<1>3. CASE t \notin spoiled \cup soiled /\ \E q \in Procs : Resets(q, t, c)
  <2>1. PICK q \in Procs : Resets(q, t, c)
    BY <1>3
  <2>2. CASE q = p
    BY <2>1, <2>2 DEF Framed, ResetsKept
  <2>3. CASE q # p
    <3>1. job'[q] = job[q]
      BY <1>1, <2>3 DEF Framed, Moves
    <3>2. Resets(q, t, c)'
      BY <2>1, <3>1 DEF Resets, At
    <3> QED
      BY <3>2
  <2> QED
    BY <2>2, <2>3
<1>4. CASE t \notin spoiled \cup soiled /\ left[t][c] \in {NoAlloc, owner[t]}
  <2>1. left'[t][c] \in {NoAlloc, owner[t]}
    BY <1>4 DEF Framed, LeftKept
  <2>2. CASE owner'[t] = owner[t]
    BY <2>1, <2>2
  <2>3. CASE tlock[t] = p /\ owner[t] = NoAlloc
    BY <2>1, <2>3
  <2>4. CASE \A e \in Parts : Resets(p, t, e)'
    BY <2>4
  <2>5. CASE At(p, "wipe") /\ t \in job[p].tgt /\ UNCHANGED left
    <3>1. job[p].todo = {} /\ job[p].path \in {"orphan", "delete"}
      BY <1>1, <2>5 DEF JobInv, At, Job
    <3>2. CASE job[p].path = "orphan"
      <4>1. Holds(job[p], t)
        BY <2>5, <3>2 DEF Holds, At
      <4> QED
        BY <1>1, <1>4, <2>5, <3>1, <4>1 DEF Held, At
    <3>3. CASE job[p].path = "delete"
      BY <1>1, <1>4, <2>5, <3>1, <3>3 DEF Removal
    <3> QED
      BY <3>1, <3>2, <3>3
  <2>6. CASE UNCHANGED left /\ (Used(t) => t \in soiled')
    BY <2>6 DEF Used
  <2> QED
    BY <2>2, <2>3, <2>4, <2>5, <2>6 DEF Framed, OwnersKept
<1> QED
  BY <1>0, <1>2, <1>3, <1>4 DEF Inv, OwnLeft

\* The owner of a target uses it.
InUse(t) == owner[t] # NoAlloc /\ state[owner[t]] = "active" /\ ~Ending(owner[t])

\* An operation that was let in leaves something: the owner's, or in what is to be reset
\* yet, or the target is known as soiled.
LEMMA UseEndKeeps ==
    ASSUME Inv, NEW t \in Targets, NEW a \in Allocs, NEW c \in Parts, UseEnds(t, a, c)
    PROVE  Inv'
<1>1. TypeOK /\ VarsOK /\ job \in [Procs -> Job]
  BY DEF Inv, Base, TypeOK, VarsOK
<1>2. /\ UNCHANGED <<state, group, owner, queue, alock, tlock, job, spoiled, uses, faults>>
      /\ \A u \in Targets, e \in Parts :
            left'[u][e] = IF u = t /\ e = c THEN a ELSE left[u][e]
      /\ left' \in [Targets -> [Parts -> Allocs \cup {NoAlloc}]]
      /\ using' \subseteq Targets \X Allocs
      /\ soiled' = soiled \cup IF TooLate(t, c, a) THEN {t} ELSE {}
  BY <1>1 DEF UseEnds, VarsOK
<1>3. Base'
  BY <1>1, <1>2 DEF Base, Inv, TypeOK
<1>4. OwnLeft'
  <2> SUFFICES ASSUME NEW u \in Targets \ (spoiled \cup soiled'), NEW e \in Parts
               PROVE  \/ left'[u][e] \in {NoAlloc, owner[u]}
                      \/ \E p \in Procs : Resets(p, u, e)
    BY <1>2 DEF OwnLeft, Resets, At
  <2>1. CASE u = t /\ e = c
    BY <1>2, <2>1 DEF TooLate
  <2>2. CASE ~(u = t /\ e = c)
    BY <1>2, <2>2 DEF OwnLeft, Inv
  <2> QED
    BY <2>1, <2>2
<1>5. ASSUME NEW p \in Procs
      PROVE  Held(p)' /\ Removal(p)'
  <2>1. Held(p) /\ Removal(p) /\ JobInv(job[p]) /\ job[p] \in Job
    BY InvFacts
  <2>2. ASSUME NEW q \in Procs, Resets(q, t, c)
        PROVE  Holds(job[q], t) /\ tlock[t] = q /\ owner[t] = NoAlloc /\ c \in job[q].todo
    <3>1. Holds(job[q], t)
      BY <2>2 DEF Resets, Holds, WipesFirst, At
    <3> QED
      BY <2>2, <3>1 DEF Inv, Held, Resets
  <2>3. ASSUME Holds(job[p], t), job[p].pc \in {"clean", "wipe"}, t \notin soiled'
        PROVE  c \in job[p].todo
    <3> SUFFICES ASSUME c \notin job[p].todo
                 PROVE  FALSE
      OBVIOUS
    <3>1. Passed(t, c)
      BY <2>3 DEF Passed, Holds
    <3>2. tlock[t] = p
      BY <2>1, <2>3 DEF Held
    <3>3. \A q \in Procs : ~Resets(q, t, c)
      BY <2>2, <3>2
    <3> QED
      BY <1>2, <2>3, <3>1, <3>3 DEF TooLate
  <2>4. Held(p)'
    <3> SUFFICES ASSUME NEW u \in Targets, Holds(job[p], u)
                 PROVE  /\ tlock[u] = p
                        /\ job[p].pc \in {"restart", "grant"} \/ WipesFirst(job[p].path)
                              => owner[u] = NoAlloc
                        /\ job[p].path = "orphan" => owner[u] = NoAlloc \/ ~Live(owner[u])
                        /\ job[p].pc \in {"clean", "wipe"} /\ u \notin soiled' =>
                              \A e \in Parts \ job[p].todo : left'[u][e] = NoAlloc
      BY <1>2 DEF Held, Live
    <3> QED
      BY <1>2, <2>1, <2>3 DEF Held
  <2>5. Removal(p)'
    <3> SUFFICES ASSUME job[p].path = "delete"
                 PROVE  /\ state[job[p].cur] # "gone"
                        /\ \A u \in job[p].tgt \ spoiled :
                            /\ owner[u] = job[p].cur
                            /\ u \notin soiled' =>
                                  \A e \in Parts \ job[p].todo : left'[u][e] = NoAlloc
      BY <1>2 DEF Removal, Live
    <3>1. /\ state[job[p].cur] # "gone" /\ job[p].cur \in Allocs /\ job[p].tgt \subseteq Targets
          /\ \A u \in job[p].tgt \ spoiled : owner[u] = job[p].cur
      BY <2>1 DEF Removal, Live, JobInv, Job
    <3>2. ASSUME NEW u \in job[p].tgt \ spoiled, u \notin soiled', NEW e \in Parts \ job[p].todo
          PROVE  left'[u][e] = NoAlloc
      <4>1. left[u][e] = NoAlloc
        BY <1>2, <2>1, <3>2 DEF Removal
      <4>2. CASE u = t /\ e = c
        <5>1. job[p].pc \in {"clean", "wipe"}
          BY <2>1, <3>2 DEF JobInv
        <5>2. Passed(t, c)
          BY <3>2, <4>2, <5>1 DEF Passed
        <5>3. owner[t] # NoAlloc
          BY <3>1, <3>2, <4>2, NamesAssumption
        <5>4. \A q \in Procs : ~Resets(q, t, c)
          BY <2>2, <5>3
        <5> QED
          BY <1>2, <3>2, <4>2, <5>2, <5>4 DEF TooLate
      <4>3. CASE ~(u = t /\ e = c)
        BY <1>2, <3>1, <3>2, <4>1, <4>3
      <4> QED
        BY <4>2, <4>3
    <3> QED
      BY <3>1, <3>2
  <2> QED
    BY <2>4, <2>5
<1> QED
  BY <1>3, <1>4, <1>5 DEF Inv

\* An operation is let in: nothing is done yet.
LEMMA UseBeginKeeps ==
    ASSUME Base, NEW t \in Targets, UseBegins(t)
    PROVE  /\ Base'
           /\ UNCHANGED <<state, group, owner, queue, left, alock, tlock, job, spoiled, soiled,
                faults>>
<1>1. TypeOK /\ owner[t] \in Allocs
  BY DEF Base, TypeOK, UseBegins
<1> QED
  BY <1>1, BoundsAssumption DEF UseBegins, Base, TypeOK

\* Every step keeps the invariant.
LEMMA InvNext ==
    ASSUME Inv, RemovedOnce, [Next]_vars
    PROVE  Inv'
<1>1. ASSUME NEW p \in Procs, Framed(p) /\ Held(p)' /\ Removal(p)'
      PROVE  Inv'
  <2>1. \A q \in Procs : Held(q)' /\ Removal(q)'
    BY <1>1, OthersKept
  <2>2. OwnLeft'
    BY <1>1, OwnLeftKept
  <2>3. job \in [Procs -> Job] /\ \A q \in Procs : JobInv(job[q])
    BY DEF Inv, Base, TypeOK
  <2>4. job' \in [Procs -> Job] /\ \A q \in Procs : JobInv(job'[q])
    BY <1>1, <2>3 DEF Framed, Moves
  <2>5. VarsOK'
    BY <1>1 DEF Framed
  <2>6. Base'
    BY <2>4, <2>5 DEF Base, TypeOK, VarsOK
  <2> QED
    BY <2>1, <2>2, <2>6 DEF Inv
<1>2. CASE \E p \in Procs : \/ Continue(p) \/ Maintain(p) \/ Crash(p)
                            \/ \E t \in Targets : GiveBack(p, t)
                            \/ \E a \in Allocs : Delete(p, a)
  BY <1>1, <1>2, ProcessSteps
<1>3. CASE \E t \in Targets, a \in Allocs, c \in Parts : UseEnds(t, a, c)
  BY <1>3, UseEndKeeps
<1>4. CASE \E t \in Targets : UseBegins(t)
  <2>1. /\ Base'
        /\ UNCHANGED <<state, group, owner, queue, left, alock, tlock, job, spoiled, soiled,
             faults>>
    BY <1>4, UseBeginKeeps DEF Inv
  <2> QED
    BY <2>1 DEF Inv, OwnLeft, Held, Removal, Holds, Resets, At, Live
<1>5. CASE UNCHANGED vars
  BY <1>5 DEF vars, Inv, Base, TypeOK, OwnLeft, Held, Removal, Holds, Resets, At, Live
<1> QED
  BY <1>2, <1>3, <1>4, <1>5 DEF Next

\* At first nobody has anything and all is clean.
LEMMA InitInv == Init => Inv
<1> SUFFICES ASSUME Init
             PROVE  Inv
  OBVIOUS
<1>1. Idle \in Job /\ JobInv(Idle) /\ Idle.pc = "idle" /\ Idle.path = "none"
      /\ Idle.tgt = {}
  BY IdleJob
<1> HIDE DEF Idle
<1>2. \A p \in Procs : job[p] = Idle
  BY DEF Init
<1>3. Base
  BY <1>1, BoundsAssumption DEF Base, Init, TypeOK
<1>4. OwnLeft
  BY DEF Init, OwnLeft
<1> QED
  BY <1>1, <1>2, <1>3, <1>4 DEF Inv, Held, Removal, Holds

\* (Who has what at hand, and what is clean)  If no two processes remove one allocation
\* at a time: a target in a cleanup has no living owner, its parts that were reset are
\* clean, and what is left in a target is its owner's, or known.
THEOREM Invariant == Spec /\ []RemovedOnce => []Inv
<1>1. Init => Inv
  BY InitInv
<1>2. Inv /\ RemovedOnce /\ [Next]_vars => Inv'
  BY InvNext
<1> QED
  BY <1>1, <1>2, PTL DEF Spec

\* Types, and where each process is, are kept whoever removes what.
LEMMA StepTypes ==
    ASSUME Base, NEW p \in Procs,
           \/ Continue(p) \/ Maintain(p) \/ Crash(p)
           \/ \E t \in Targets : GiveBack(p, t)
           \/ \E a \in Allocs : Delete(p, a)
    PROVE  Moves(p) /\ VarsOK'
<1> DEFINE d == job[p]
<1>1. TypeOK /\ VarsOK /\ d \in Job /\ JobInv(d)
  BY DEF Base, TypeOK, VarsOK
<1>2. /\ DropLocks(p) => /\ alock' \in [Allocs -> Procs \cup {NoProc}]
                         /\ tlock' \in [Targets -> Procs \cup {NoProc}]
      /\ \A t \in Targets : Lock(p, t) => tlock' \in [Targets -> Procs \cup {NoProc}]
      /\ d.tgt \subseteq Targets /\ d.tgts \subseteq Targets
  BY <1>1, LocksDropped DEF Job
<1>3. ASSUME NEW j \in Job, JobInv(j), Goto(p, j)
      PROVE  Moves(p)
  BY <1>1, <1>3, Gone
<1>4. Idle \in Job /\ JobInv(Idle)
  BY IdleJob
<1>5. ASSUME NEW ts \in SUBSET Targets, Goto(p, [Idle EXCEPT !.pc = "run", !.tgts = ts])
      PROVE  Moves(p)
  BY <1>3, <1>5, IdleJob
<1>6. ASSUME NEW a \in Allocs, NEW ts \in SUBSET Targets,
             Goto(p, [Idle EXCEPT !.pc = "remove", !.cur = a, !.tgts = ts])
      PROVE  Moves(p)
  BY <1>3, <1>6, RemoveJob
<1>7. CASE Maintain(p) \/ RunDone(p)
  <2>1. Moves(p)
    BY <1>3, <1>4, <1>5, <1>7 DEF Maintain, RunDone
  <2> QED
    BY <1>1, <1>7, <2>1 DEF Maintain, RunDone, VarsOK
<1>8. CASE \E t \in Targets : Skip(p, t)
  <2>1. PICK t \in Targets : Skip(p, t)
    BY <1>8
  <2> DEFINE j == [d EXCEPT !.tgts = @ \ {t}]
  <2>2. Goto(p, j) /\ d.pc = "run"
    BY <2>1 DEF Skip, At
  <2> HIDE DEF d
  <2>3. j \in Job /\ JobInv(j)
    BY <1>1, <2>2 DEF Job, JobInv
  <2> HIDE DEF j
  <2> QED
    BY <1>1, <1>3, <2>1, <2>2, <2>3 DEF Skip, VarsOK
<1>9. CASE \E t \in Targets : Take(p, t)
  <2>1. PICK t \in Targets : Take(p, t)
    BY <1>9
  <2>2. PICK a \in Allocs : Goto(p, [d EXCEPT !.pc = "grant", !.tgt = {t}, !.got = a])
    BY <2>1 DEF Take
  <2> DEFINE j == [d EXCEPT !.pc = "grant", !.tgt = {t}, !.got = a]
  <2>3. Goto(p, j) /\ d.pc = "run"
    BY <2>1, <2>2 DEF Take, At
  <2> HIDE DEF d
  <2>4. j \in Job /\ j.pc = "grant" /\ j.tgt = {t} /\ j.got = a /\ j.path = d.path
    BY <1>1 DEF Job, PCs
  <2>5. d.path = "none"
    BY <1>1, <2>3 DEF JobInv
  <2>6. JobInv(j)
    BY <2>4, <2>5 DEF JobInv
  <2> HIDE DEF j
  <2> QED
    BY <1>1, <1>2, <1>3, <2>1, <2>3, <2>4, <2>6 DEF Take, VarsOK
<1>10. CASE \E t \in Targets : TakeFromOwner(p, t) \/ TakeFromRemoved(p, t) \/ GiveBack(p, t)
  <2>1. PICK t \in Targets : TakeFromOwner(p, t) \/ TakeFromRemoved(p, t) \/ GiveBack(p, t)
    BY <1>10
  <2>2. owner[t] \in Allocs
    BY <1>1, <2>1 DEF TakeFromOwner, TakeFromRemoved, GiveBack, VarsOK
  <2>3. Moves(p) /\ owner' \in {owner, [owner EXCEPT ![t] = NoAlloc]}
    BY <2>1, <2>2, CleanMoves DEF TakeFromOwner, TakeFromRemoved, GiveBack
  <2>4. spoiled' \subseteq Targets
    BY <1>1, <2>1 DEF TakeFromOwner, TakeFromRemoved, GiveBack, Disturb, VarsOK
  <2> QED
    BY <1>1, <1>2, <2>1, <2>3, <2>4
    DEF TakeFromOwner, TakeFromRemoved, GiveBack, VarsOK
<1>11. CASE Grant(p)
  <2>1. PICK t \in Targets :
          /\ owner' = [owner EXCEPT ![t] = d.got]
          /\ queue' = [queue EXCEPT ![t] = @ \ {d.got}]
          /\ tlock' = [tlock EXCEPT ![t] = NoProc]
          /\ Goto(p, [Idle EXCEPT !.pc = "calculate", !.tgts = d.tgts \ {t}, !.got = d.got])
    BY <1>2, <1>11 DEF Grant
  <2>2. d.got \in Allocs
    BY <1>1, <1>11 DEF Grant, JobInv, At
  <2>3. Moves(p)
    <3> DEFINE ts == d.tgts \ {t}
    <3>1. ts \in SUBSET Targets
      BY <1>2
    <3>2. Goto(p, [Idle EXCEPT !.pc = "calculate", !.tgts = ts, !.got = d.got])
      BY <2>1
    <3> QED
      BY <1>3, <2>2, <3>1, <3>2, CalculateJob
  <2> QED
    BY <1>1, <1>11, <2>1, <2>2, <2>3 DEF Grant, VarsOK
<1>21. CASE Calculate(p) \/ CalculateFails(p) \/ ExtrasDone(p)
  BY <1>1, <1>21, CalculateMoves DEF VarsOK
<1>22. CASE \E t \in Targets : ReleaseExtra(p, t)
  <2>1. PICK t \in Targets : ReleaseExtra(p, t)
    BY <1>22
  <2> QED
    BY <1>1, <2>1, ExtraMoves DEF VarsOK
<1>12. CASE Reset(p)
  <2>1. PICK t \in Targets, c \in Parts :
          /\ left' = [left EXCEPT ![t][c] = NoAlloc]
          /\ Goto(p, [d EXCEPT !.todo = @ \ {c}])
    BY <1>2, <1>12 DEF Reset
  <2> DEFINE j == [d EXCEPT !.todo = @ \ {c}]
  <2>2. Goto(p, j) /\ d.pc = "clean"
    BY <1>12, <2>1 DEF Reset, At
  <2> HIDE DEF d
  <2>3. j \in Job /\ JobInv(j)
    BY <1>1, <2>2 DEF Job, JobInv
  <2> HIDE DEF j
  <2>4. left' \in [Targets -> [Parts -> Allocs \cup {NoAlloc}]]
    BY <1>1, <2>1 DEF VarsOK
  <2> QED
    BY <1>1, <1>3, <1>12, <2>2, <2>3, <2>4 DEF Reset, VarsOK
<1>13. CASE Raises(p)
  <2>1. Moves(p)
    <3>1. CASE d.path = "delete"
      <4>1. d.cur \in Allocs
        BY <1>1, <3>1 DEF JobInv
      <4> QED
        BY <1>3, <1>13, <3>1, <4>1, RaisedJob DEF Raises
    <3>2. CASE d.path # "delete"
      BY <1>3, <1>4, <1>13, <3>2 DEF Raises
    <3> QED
      BY <3>1, <3>2
  <2>2. spoiled' \subseteq Targets
    BY <1>1, <1>13, MoreSpoiled DEF Raises
  <2>3. faults' \in 0 .. MaxFaults
    BY <1>1, <1>13, BoundsAssumption DEF Raises, Fault, VarsOK
  <2> QED
    BY <1>1, <1>2, <1>13, <2>1, <2>2, <2>3 DEF Raises, VarsOK
<1>14. CASE Cleaned(p)
  <2>1. /\ d.pc = "clean" /\ d.todo = {} /\ spoiled' \subseteq Targets
        /\ soiled' \subseteq Targets
        /\ UNCHANGED <<state, group, owner, queue, left, using, uses, faults>>
    BY <1>1, <1>14 DEF Cleaned, At, VarsOK
  <2>2. d.path \in {"release", "preempt", "orphan", "delete"}
    BY <1>1, <2>1 DEF JobInv, Job
  <2>3. CASE d.path = "release"
    <3>1. Goto(p, Idle) /\ DropLocks(p)
      BY <1>14, <2>3 DEF Cleaned
    <3> QED
      BY <1>1, <1>2, <1>3, <1>4, <2>1, <3>1 DEF VarsOK
  <2>4. CASE d.path = "preempt"
    <3> DEFINE j == [d EXCEPT !.pc = "restart"]
    <3>1. Goto(p, j) /\ UNCHANGED <<alock, tlock>>
      BY <1>14, <2>4 DEF Cleaned
    <3> HIDE DEF d
    <3>2. j \in Job /\ JobInv(j)
      BY <1>1, <2>1, <2>4 DEF Job, PCs, JobInv
    <3> HIDE DEF j
    <3> QED
      BY <1>1, <1>3, <2>1, <3>1, <3>2 DEF VarsOK
  <2>5. CASE d.path \in {"orphan", "delete"}
    <3> DEFINE j == [d EXCEPT !.pc = "wipe"]
    <3>1. Goto(p, j) /\ UNCHANGED <<alock, tlock>>
      BY <1>14, <2>5 DEF Cleaned
    <3> HIDE DEF d
    <3>2. j \in Job /\ JobInv(j)
      BY <1>1, <2>1, <2>5 DEF Job, PCs, JobInv
    <3> HIDE DEF j
    <3> QED
      BY <1>1, <1>3, <2>1, <3>1, <3>2 DEF VarsOK
  <2> QED
    BY <2>2, <2>3, <2>4, <2>5
<1>15. CASE Wipe(p)
  <2>1. PICK t \in Targets :
          /\ owner' = [owner EXCEPT ![t] = NoAlloc]
          /\ IF d.path = "orphan"
             THEN /\ tlock' = [tlock EXCEPT ![t] = NoProc]
                  /\ Goto(p, [Idle EXCEPT !.pc = "run", !.tgts = d.tgts])
             ELSE /\ UNCHANGED tlock
                  /\ Goto(p, [d EXCEPT !.pc = "delete", !.tgt = {}])
    BY <1>2, <1>15 DEF Wipe
  <2>2. /\ tlock' \in [Targets -> Procs \cup {NoProc}]
        /\ owner' \in [Targets -> Allocs \cup {NoAlloc}]
    BY <1>1, <2>1 DEF VarsOK
  <2>3. CASE d.path = "orphan"
    BY <1>1, <1>2, <1>5, <1>15, <2>1, <2>2, <2>3 DEF Wipe, VarsOK
  <2>4. CASE d.path # "orphan"
    <3> DEFINE j == [d EXCEPT !.pc = "delete", !.tgt = {}]
    <3>1. Goto(p, j) /\ d.pc = "wipe"
      BY <1>15, <2>1, <2>4 DEF Wipe, At
    <3> HIDE DEF d
    <3>2. d.path = "delete"
      BY <1>1, <2>4, <3>1 DEF Job, JobInv
    <3>3. j \in Job /\ JobInv(j)
      BY <1>1, <3>1, <3>2 DEF Job, PCs, JobInv
    <3> HIDE DEF j
    <3> QED
      BY <1>1, <1>3, <1>15, <2>2, <3>1, <3>3 DEF Wipe, VarsOK
  <2> QED
    BY <2>3, <2>4
<1>16. CASE Restart(p)
  <2>1. /\ d.pc = "restart" /\ d.cur \in Allocs
        /\ UNCHANGED <<group, owner, queue, left, alock, using, spoiled, soiled, uses, faults>>
    BY <1>1, <1>16 DEF Restart, At, JobInv
  <2>2. CASE Live(d.cur)
    <3> DEFINE j == [d EXCEPT !.pc = "grant", !.cur = NoAlloc]
    <3>1. /\ Goto(p, j) /\ UNCHANGED tlock
          /\ state' = [state EXCEPT ![d.cur] = "restart-needed"]
      BY <1>16, <2>2 DEF Restart
    <3> HIDE DEF d
    <3>2. j \in Job /\ j.pc = "grant" /\ j.path = d.path /\ j.tgt = d.tgt /\ j.got = d.got
      BY <1>1 DEF Job, PCs
    <3>3. d.path = "preempt"
      BY <1>1, <2>1 DEF Job, JobInv
    <3>4. JobInv(j)
      BY <1>1, <2>1, <3>2, <3>3 DEF JobInv
    <3> HIDE DEF j
    <3> QED
      BY <1>1, <1>3, <2>1, <3>1, <3>2, <3>4 DEF VarsOK
  <2>3. CASE ~Live(d.cur)
    BY <1>1, <1>3, <1>4, <1>16, <2>1, <2>3 DEF Restart, VarsOK
  <2> QED
    BY <2>2, <2>3
<1>17. CASE \E a \in Allocs : Delete(p, a)
  <2>1. PICK a \in Allocs : Delete(p, a)
    BY <1>17
  <2>2. group[a] \in SUBSET Targets /\ TargetsOf(a) \in SUBSET Targets
    BY <1>1, GroupTypes DEF VarsOK
  <2>3. CASE state[a] = "active"
    <3> DEFINE j == [Idle EXCEPT !.pc = "delete", !.path = "delete", !.cur = a,
                                 !.tgts = group[a]]
    <3>1. Goto(p, j)
      BY <2>1, <2>3 DEF Delete
    <3>2. Idle.tgt = {}
      BY IdleJob
    <3> HIDE DEF Idle
    <3>3. j \in Job /\ JobInv(j)
      BY <1>4, <2>2, <3>2 DEF Job, PCs, JobInv
    <3> HIDE DEF j
    <3> QED
      BY <1>1, <1>3, <2>1, <2>3, <3>1, <3>3 DEF Delete, VarsOK
  <2>4. CASE state[a] # "active"
    BY <1>1, <1>6, <2>1, <2>2, <2>4 DEF Delete, VarsOK
  <2> QED
    BY <2>3, <2>4
<1>18. CASE DeleteTarget(p)
  <2>1. PICK t \in d.tgts :
          IF owner[t] = d.cur
          THEN Goto(p, [d EXCEPT !.pc = "clean", !.tgts = @ \ {t}, !.tgt = {t},
                         !.todo = Parts])
          ELSE Goto(p, [d EXCEPT !.tgts = @ \ {t}])
    BY <1>18 DEF DeleteTarget
  <2>2. d.pc = "delete" /\ t \in Targets /\ d.path = "delete"
    BY <1>1, <1>2, <1>18, <2>1 DEF DeleteTarget, At, JobInv
  <2> DEFINE j == [d EXCEPT !.pc = "clean", !.tgts = @ \ {t}, !.tgt = {t}, !.todo = Parts]
             k == [d EXCEPT !.tgts = @ \ {t}]
  <2>3. Goto(p, j) \/ Goto(p, k)
    BY <2>1
  <2> HIDE DEF d
  <2>4. j \in Job /\ JobInv(j)
    BY <1>1, <2>2 DEF Job, PCs, JobInv
  <2>5. k \in Job /\ JobInv(k)
    BY <1>1, <2>2 DEF Job, JobInv
  <2> HIDE DEF j, k
  <2> QED
    BY <1>1, <1>3, <1>18, <2>3, <2>4, <2>5 DEF DeleteTarget, VarsOK
<1>19. CASE DeleteDone(p) \/ Remove(p)
  <2>1. d.cur \in Allocs
    BY <1>1, <1>19 DEF DeleteDone, Remove, At, JobInv
  <2>2. group[d.cur] \in SUBSET Targets
    BY <1>1, <2>1 DEF VarsOK
  <2>3. Moves(p)
    BY <1>2, <1>5, <1>6, <1>19, <2>1, <2>2 DEF DeleteDone, Remove
  <2> QED
    BY <1>1, <1>19, <2>1, <2>3 DEF DeleteDone, Remove, VarsOK
<1>20. CASE Crash(p)
  <2>1. spoiled' \subseteq Targets
    BY <1>1, <1>20, MoreSpoiled DEF Crash
  <2>2. faults' \in 0 .. MaxFaults
    BY <1>1, <1>20, BoundsAssumption DEF Crash, Fault, VarsOK
  <2> QED
    BY <1>1, <1>2, <1>3, <1>4, <1>20, <2>1, <2>2 DEF Crash, VarsOK
<1> QED
  BY <1>7, <1>8, <1>9, <1>10, <1>11, <1>12, <1>13, <1>14, <1>15, <1>16, <1>17, <1>18,
     <1>19, <1>20, <1>21, <1>22 DEF Continue

\* (TypeOK)  The variables keep their types, whoever removes what, and every process is
\* where its path may lead.
THEOREM TypeCorrect == Spec => []TypeOK
<1>1. Init => Base
  BY InitInv DEF Inv
<1>2. Base /\ [Next]_vars => Base'
  <2> SUFFICES ASSUME Base, [Next]_vars
               PROVE  Base'
    OBVIOUS
  <2>1. TypeOK /\ VarsOK /\ job \in [Procs -> Job] /\ \A q \in Procs : JobInv(job[q])
    BY DEF Base, TypeOK, VarsOK
  <2>2. CASE \E p \in Procs : \/ Continue(p) \/ Maintain(p) \/ Crash(p)
                              \/ \E t \in Targets : GiveBack(p, t)
                              \/ \E a \in Allocs : Delete(p, a)
    <3>1. PICK p \in Procs : Moves(p) /\ VarsOK'
      BY <2>2, StepTypes
    <3>2. job' \in [Procs -> Job] /\ \A q \in Procs : JobInv(job'[q])
      BY <2>1, <3>1 DEF Moves
    <3> QED
      BY <3>1, <3>2 DEF Base, TypeOK, VarsOK
  <2>3. CASE \E t \in Targets : UseBegins(t)
    BY <2>3, UseBeginKeeps
  <2>5. CASE \E t \in Targets, a \in Allocs, c \in Parts : UseEnds(t, a, c)
    <3>1. PICK t \in Targets, a \in Allocs, c \in Parts : UseEnds(t, a, c)
      BY <2>5
    <3>2. left' \in [Targets -> [Parts -> Allocs \cup {NoAlloc}]]
      BY <2>1, <3>1 DEF UseEnds, VarsOK
    <3> QED
      BY <2>1, <3>1, <3>2 DEF UseEnds, Base, TypeOK, VarsOK
  <2>4. CASE UNCHANGED vars
    BY <2>1, <2>4 DEF vars, Base, TypeOK, VarsOK
  <2> QED
    BY <2>2, <2>3, <2>4, <2>5 DEF Next
<1>3. Base => TypeOK
  BY DEF Base
<1> QED
  BY <1>1, <1>2, <1>3, PTL DEF Spec

\* (FreshClean)  Who is given a target finds nothing another left in it, whichever
\* hooks raise, processes die and operations end late, unless nothing was left to show
\* that its cleanup was cut short or disturbed, or it got dirty where no cleanup was to
\* come: given back as an extra, or used by an operation that ended after the reset.
THEOREM GivenClean == Spec /\ []RemovedOnce => FreshClean
<1> DEFINE Fresh ==
        \A t \in Targets :
         t \notin spoiled \cup soiled /\ owner'[t] \notin {owner[t], NoAlloc} =>
             \A c \in Parts : left[t][c] \in {NoAlloc, owner'[t]}
<1>1. ASSUME Inv, NEW p \in Procs, Framed(p)
      PROVE  Fresh
  <2> SUFFICES ASSUME NEW t \in Targets \ (spoiled \cup soiled), owner'[t] \notin {owner[t],
                        NoAlloc},
                      NEW c \in Parts
               PROVE  left[t][c] = NoAlloc
    OBVIOUS
  <2>1. At(p, "grant") /\ tlock[t] = p /\ owner[t] = NoAlloc
    BY <1>1 DEF Framed, OwnersKept
  <2>2. ASSUME NEW q \in Procs, Resets(q, t, c)
        PROVE  FALSE
    <3>1. Holds(job[q], t)
      BY <2>2 DEF Resets, Holds, WipesFirst, At
    <3>2. tlock[t] = q
      BY <1>1, <3>1 DEF Inv, Held
    <3> QED
      BY <2>1, <2>2, <3>2 DEF Resets, At
  <2> QED
    BY <1>1, <2>1, <2>2 DEF Inv, OwnLeft
<1>2. Inv /\ [Next]_vars => [Fresh]_vars
  <2> SUFFICES ASSUME Inv, Next
               PROVE  Fresh
    OBVIOUS
  <2>1. CASE \E p \in Procs : \/ Continue(p) \/ Maintain(p) \/ Crash(p)
                              \/ \E t \in Targets : GiveBack(p, t)
                              \/ \E a \in Allocs : Delete(p, a)
    BY <1>1, <2>1, ProcessSteps
  <2>2. CASE \E t \in Targets : UseBegins(t) \/ \E a \in Allocs, c \in Parts : UseEnds(t, a, c)
    BY <2>2 DEF UseBegins, UseEnds
  <2> QED
    BY <2>1, <2>2 DEF Next
<1>3. [][Fresh]_vars => FreshClean
  BY PTL DEF FreshClean
<1> QED
  BY <1>2, <1>3, Invariant, PTL DEF Spec

\* (InUseKept)  No cleanup undoes what the active owner of a target did to it, unless
\* a removal did not notice that the target had gone to another; an operation of an
\* earlier owner may.
THEOREM UseKept == Spec /\ []RemovedOnce => InUseKept
<1> DEFINE Kept ==
        \A t \in Targets, c \in Parts :
         /\ t \notin spoiled /\ owner[t] # NoAlloc
         /\ state[owner[t]] = "active" /\ ~Ending(owner[t])
         /\ left[t][c] = owner[t]
         => left'[t][c] = owner[t] \/ <<t, left'[t][c]>> \in using
<1>1. ASSUME Inv, NEW p \in Procs, Framed(p)
      PROVE  Kept
  <2> SUFFICES ASSUME NEW t \in Targets \ spoiled, InUse(t), NEW c \in Parts,
                      left'[t][c] # left[t][c]
               PROVE  FALSE
    BY DEF InUse
  <2>1. At(p, "clean") /\ t \in job[p].tgt
    BY <1>1 DEF Framed, LeftKept
  <2>2. /\ Held(p) /\ Removal(p)
        /\ job[p].path \in {"orphan", "release", "preempt", "delete"}
    BY <1>1, <2>1, InvFacts DEF JobInv, Job, At
  <2>3. CASE job[p].path = "delete"
    BY <2>1, <2>2, <2>3 DEF Removal, InUse, Ending
  <2>4. CASE job[p].path # "delete"
    <3>1. Holds(job[p], t)
      BY <2>1, <2>4 DEF Holds, At
    <3> QED
      BY <2>2, <2>4, <3>1 DEF Held, InUse, WipesFirst, Live
  <2> QED
    BY <2>3, <2>4
<1>2. Inv /\ [Next]_vars => [Kept]_vars
  <2> SUFFICES ASSUME Inv, Next
               PROVE  Kept
    OBVIOUS
  <2>1. CASE \E p \in Procs : \/ Continue(p) \/ Maintain(p) \/ Crash(p)
                              \/ \E t \in Targets : GiveBack(p, t)
                              \/ \E a \in Allocs : Delete(p, a)
    BY <1>1, <2>1, ProcessSteps
  <2>2. CASE \E t \in Targets : UseBegins(t) \/ \E a \in Allocs, c \in Parts : UseEnds(t, a, c)
    <3>1. left \in [Targets -> [Parts -> Allocs \cup {NoAlloc}]]
      BY DEF Inv, Base, TypeOK
    <3>2. CASE \E t \in Targets : UseBegins(t)
      BY <3>2 DEF UseBegins
    <3>3. CASE \E t \in Targets, a \in Allocs, c \in Parts : UseEnds(t, a, c)
      BY <3>1, <3>3 DEF UseEnds
    <3> QED
      BY <2>2, <3>2, <3>3
  <2> QED
    BY <2>1, <2>2 DEF Next
<1>3. [][Kept]_vars => InUseKept
  BY PTL DEF InUseKept
<1> QED
  BY <1>2, <1>3, Invariant, PTL DEF Spec

\* Only who removes allocations begins to.
LEMMA RemovalsBegin ==
    ASSUME Inv, NEW p \in Procs,
           \/ Continue(p) \/ Maintain(p) \/ Crash(p)
           \/ \E t \in Targets : GiveBack(p, t)
           \/ \E a \in Allocs : Delete(p, a)
    PROVE  Removes(p)' => Removes(p) \/ p \in Removers
<1> DEFINE d == job[p]
<1>1. d \in Job /\ JobInv(d) /\ \A j : Goto(p, j) => job'[p] = j
  BY InvFacts DEF Goto
<1>2. Idle.pc = "idle" /\ Idle.path = "none" /\ Idle \in Job
  BY IdleJob
<1>3. Removes(p) <=> d.path = "delete" \/ d.pc = "remove"
  BY DEF Removes, At
<1>4. Removes(p)' <=> job'[p].path = "delete" \/ job'[p].pc = "remove"
  BY DEF Removes, At
<1> HIDE DEF Idle
<1>5. CASE Maintain(p) \/ RunDone(p) \/ Grant(p) \/ CalculateFails(p) \/ ExtrasDone(p)
  BY <1>1, <1>2, <1>4, <1>5 DEF Maintain, RunDone, Grant, CalculateFails, ExtrasDone, Job
<1>15. CASE Calculate(p) \/ \E t \in Targets : ReleaseExtra(p, t)
  <2>1. TypeOK /\ JobInv(d)
    BY InvFacts
  <2>2. Moves(p) /\ job'[p].pc \in {"idle", "run", "extras"}
    <3>1. CASE Calculate(p)
      BY <2>1, <3>1, CalculateMoves
    <3>2. CASE \E t \in Targets : ReleaseExtra(p, t)
      BY <2>1, <3>2, ExtraMoves
    <3> QED
      BY <1>15, <3>1, <3>2
  <2> QED
    BY <1>4, <2>2 DEF Moves, JobInv
<1>6. CASE Crash(p) \/ Raises(p)
  BY <1>1, <1>2, <1>3, <1>4, <1>6 DEF Crash, Raises, Job
<1>7. CASE Reset(p)
  BY <1>1, <1>3, <1>4, <1>7 DEF Reset, Job
<1>8. CASE Cleaned(p)
  <2>1. \/ Goto(p, Idle)
        \/ \E loc \in {"restart", "wipe"} : Goto(p, [d EXCEPT !.pc = loc])
    <3>1. d.pc = "clean"
      BY <1>8 DEF Cleaned, At
    <3>2. d.path \in {"orphan", "release", "preempt", "delete"}
      BY <1>1, <3>1 DEF JobInv, Job
    <3> QED
      BY <1>8, <3>2 DEF Cleaned
  <2> QED
    BY <1>1, <1>2, <1>3, <1>4, <2>1 DEF Job
<1>9. CASE Wipe(p) \/ Restart(p)
  BY <1>1, <1>2, <1>3, <1>4, <1>9 DEF Wipe, Restart, Job, At
<1>10. CASE DeleteTarget(p)
  BY <1>1, <1>3, <1>4, <1>10 DEF DeleteTarget, Job, At
<1>11. CASE Remove(p) \/ DeleteDone(p)
  <2>1. CASE Remove(p)
    BY <1>1, <1>2, <1>4, <2>1 DEF Remove, Job
  <2>2. CASE DeleteDone(p)
    BY <1>1, <1>3, <2>2 DEF DeleteDone, At, JobInv
  <2> QED
    BY <1>11, <2>1, <2>2
<1>12. CASE \E t \in Targets : Skip(p, t) \/ Take(p, t)
  BY <1>1, <1>3, <1>4, <1>12 DEF Skip, Take, Job, At
<1>13. CASE \E t \in Targets : TakeFromOwner(p, t) \/ TakeFromRemoved(p, t) \/ GiveBack(p, t)
  <2>1. CASE \E t \in Targets : TakeFromOwner(p, t)
    BY <1>1, <1>3, <1>4, <2>1 DEF TakeFromOwner, Clean, Job
  <2>2. CASE \E t \in Targets : TakeFromRemoved(p, t)
    BY <1>1, <1>3, <1>4, <2>2 DEF TakeFromRemoved, Clean, Job
  <2>3. CASE \E t \in Targets : GiveBack(p, t)
    BY <1>1, <1>3, <1>4, <2>3 DEF GiveBack, Clean, Job
  <2> QED
    BY <1>13, <2>1, <2>2, <2>3
<1>14. CASE \E a \in Allocs : Delete(p, a)
  BY <1>14 DEF Delete
<1> QED
  BY <1>5, <1>6, <1>7, <1>8, <1>9, <1>10, <1>11, <1>12, <1>13, <1>14,
     <1>15 DEF Continue

\* The hypothesis holds where one process at most removes allocations, as in the run.
THEOREM OneRemover ==
    ASSUME \A p, q \in Removers : p = q
    PROVE  Spec => []RemovedOnce
<1> DEFINE RemoverInv == \A p \in Procs : Removes(p) => p \in Removers
<1>1. Init => TypeOK /\ RemoverInv
  BY InitInv DEF Init, Removes, At, Idle, Inv, Base
<1>2. RemoverInv => RemovedOnce
  BY DEF RemovedOnce
<1>3. Inv /\ RemoverInv /\ [Next]_vars => Inv' /\ RemoverInv'
  <2> SUFFICES ASSUME Inv, RemoverInv, [Next]_vars
               PROVE  Inv' /\ RemoverInv'
    OBVIOUS
  <2>1. Inv' /\ TypeOK /\ job \in [Procs -> Job]
    BY <1>2, InvNext DEF Inv, Base, TypeOK
  <2>2. CASE \E p \in Procs : \/ Continue(p) \/ Maintain(p) \/ Crash(p)
                              \/ \E t \in Targets : GiveBack(p, t)
                              \/ \E a \in Allocs : Delete(p, a)
    <3>1. PICK p \in Procs : \/ Continue(p) \/ Maintain(p) \/ Crash(p)
                             \/ \E t \in Targets : GiveBack(p, t)
                             \/ \E a \in Allocs : Delete(p, a)
      BY <2>2
    <3>2. job' = [job EXCEPT ![p] = job'[p]]
      BY <3>1, ProcessSteps DEF Framed, Moves
    <3>3. Removes(p)' => p \in Removers
      BY <2>1, <3>1, RemovalsBegin
    <3>4. \A q \in Procs \ {p} : Removes(q)' <=> Removes(q)
      BY <2>1, <3>2 DEF Removes, At
    <3> QED
      BY <2>1, <3>3, <3>4
  <2>3. CASE UNCHANGED job
    BY <2>1, <2>3 DEF Removes, At
  <2> QED
    BY <2>2, <2>3 DEF Next, UseBegins, UseEnds, vars
<1>4. Init => Inv
  BY InitInv
<1> QED
  BY <1>1, <1>2, <1>3, <1>4, PTL DEF Spec

=============================================================================
