-------------------------- MODULE AllocationProofs --------------------------
(***************************************************************************)
(* Theorems about Allocation for any number of processes, targets and      *)
(* requests: typing, mutual exclusion, the order of evictions and of       *)
(* waiters, places in the queues, activation; and, where nothing evicts,   *)
(* dies or gives up in the middle, that active allocations own their       *)
(* groups and that the users see the allocator of AllocationAbstract.      *)
(***************************************************************************)
EXTENDS AllocationProperties, TLAPS

\* What a handler holds on to where it is: TypeOK is inductive only with it.
Placed(j) ==
    /\ \/ j.pc \in {"stamp", "publish", "enqueue", "result", "del_lock",
                    "del_check", "del_id", "del_meta", "del_rm"}
       \/ j.cont = "result"
       => j.cur \in Allocs
    /\ j.pc \in {"run_lock", "grant", "calc_lock", "calc_read", "calc_write",
                 "extras", "del_id", "del_meta"}
       => j.tgt \in Targets
    /\ j.pc \in {"grant", "calc_lock", "calc_read", "calc_write", "extras"}
       => j.got \in Allocs

JobTyped == job \in [Procs -> Job] /\ \A p \in Procs : Placed(job[p])

RecordsTyped ==
    /\ state \in [Allocs -> States]
    /\ stamp \in [Allocs -> Nat]
    /\ group \in [Allocs -> SUBSET Targets]

OwnershipTyped ==
    /\ owner \in [Targets -> Allocs \cup {NoAlloc}]
    /\ oprio \in [Targets -> Nat \cup {-1}]
    /\ queue \in [Targets -> SUBSET Allocs]

LocksTyped ==
    /\ alock \in [Allocs -> Procs \cup {NoProc}]
    /\ tlock \in [Targets -> Procs \cup {NoProc}]

RestTyped ==
    /\ stale \in [Procs -> SUBSET Allocs]
    /\ clock \in 0 .. MaxClock
    /\ crashes \in 0 .. MaxCrashes

TypeInv == JobTyped /\ RecordsTyped /\ OwnershipTyped /\ LocksTyped /\ RestTyped

-----------------------------------------------------------------------------
\* An idle process has nothing at hand.
LEMMA IdlePlaced == Idle \in Job /\ Placed(Idle)
  BY DEF Idle, Job, PCs, Placed

\* A handler that moves to a well typed place keeps all of them so.
LEMMA GotoTyped ==
    ASSUME JobTyped, NEW p \in Procs, NEW j \in Job, Placed(j), Goto(p, j)
    PROVE  JobTyped'
  BY DEF JobTyped, Goto

\* The scheduler drops what it had at hand when it goes on to the next target.
LEMMA NextTargetTyped ==
    ASSUME JobTyped, NEW p \in Procs
    PROVE  NextTarget(p) \in Job /\ Placed(NextTarget(p)) /\ NextTarget(p).pc = "run"
<1>1. job[p] \in Job /\ Placed(job[p])
  BY DEF JobTyped
<1>2. NextTarget(p) \in Job
  BY <1>1 DEF NextTarget, Job, PCs
<1>3. Placed(NextTarget(p))
  BY <1>1 DEF NextTarget, Job, Placed
<1>4. NextTarget(p).pc = "run"
  BY <1>1 DEF NextTarget, Job
<1> QED BY <1>2, <1>3, <1>4

\* What a request names are targets of the server.
LEMMA GroupsTyped ==
    ASSUME NEW a \in Allocs
    PROVE  /\ TargetsOf(a) \in SUBSET Targets
           /\ \A i \in DOMAIN Groups[a] : Groups[a][i] \in SUBSET Targets
  BY RequestsAssumption DEF TargetsOf

-----------------------------------------------------------------------------
\* A handler is well placed after each of its steps: it looks only at the
\* allocation, the target and the waiter it picked before.
LEMMA JobStep ==
    ASSUME TypeInv, NEW p \in Procs, Step(p)
    PROVE  JobTyped'
<1> USE DEF TypeInv
<1>0. job[p] \in Job /\ Placed(job[p])
  BY DEF JobTyped
<1>1. CASE ReqStamp(p)
  <2> DEFINE j == [job[p] EXCEPT !.pc = "publish"]
  <2>1. j \in Job /\ Placed(j)
    BY <1>0, <1>1 DEF ReqStamp, At, Placed, Job, PCs
  <2> QED BY <1>1, <2>1, GotoTyped DEF ReqStamp
<1>2. CASE ReqPublish(p)
  <2> DEFINE j == [job[p] EXCEPT !.pc = "enqueue", !.todo = TargetsOf(job[p].cur)]
  <2>1. j \in Job /\ Placed(j)
    BY <1>0, <1>2, GroupsTyped DEF ReqPublish, At, Placed, Job, PCs
  <2> QED BY <1>2, <2>1, GotoTyped DEF ReqPublish
<1>3. CASE ReqEnqueue(p)
  <2>1. PICK t \in job[p].todo : Goto(p, [job[p] EXCEPT !.todo = @ \ {t}])
    BY <1>3 DEF ReqEnqueue
  <2> DEFINE j == [job[p] EXCEPT !.todo = @ \ {t}]
  <2>2. j \in Job /\ Placed(j)
    BY <1>0, <1>3 DEF ReqEnqueue, At, Placed, Job, PCs
  <2> QED BY <2>1, <2>2, GotoTyped
<1>4. CASE ReqRun(p)
  <2> DEFINE j == [job[p] EXCEPT !.pc = "run", !.cont = "result",
                            !.todo = TargetsOf(job[p].cur)]
  <2>1. j \in Job /\ Placed(j)
    BY <1>0, <1>4, GroupsTyped DEF ReqRun, At, Placed, Job, PCs
  <2> QED BY <1>4, <2>1, GotoTyped DEF ReqRun
<1>5. CASE ReqResult(p)
  <2> DEFINE j == [job[p] EXCEPT !.pc = "del_lock", !.cont = "idle"]
  <2>1. j \in Job /\ Placed(j)
    BY <1>0, <1>5 DEF ReqResult, At, Placed, Job, PCs
  <2>2. Goto(p, Idle) \/ Goto(p, j)
    BY <1>0, <1>5 DEF ReqResult, Job
  <2> QED BY <2>1, <2>2, IdlePlaced, GotoTyped
<1>6. CASE RunLoad(p)
  <2>1. PICK t \in job[p].todo : Goto(p, [job[p] EXCEPT !.pc = "run_lock", !.tgt = t,
                                 !.wq = queue[t]])
    BY <1>6 DEF RunLoad
  <2> DEFINE j == [job[p] EXCEPT !.pc = "run_lock", !.tgt = t,
                                 !.wq = queue[t]]
  <2>2. j \in Job /\ Placed(j)
    BY <1>0, <1>6 DEF RunLoad, At, Placed, Job, PCs, OwnershipTyped
  <2> QED BY <2>1, <2>2, GotoTyped
<1>7. CASE RunDone(p)
  <2>1. CASE job[p].cont = "result"
    <3> DEFINE j == [job[p] EXCEPT !.pc = "result"]
    <3>1. j \in Job
      BY <1>0 DEF Job, PCs
    <3>2. j.pc = "result" /\ j.cur = job[p].cur
      BY <1>0 DEF Job
    <3>3. job[p].cur \in Allocs
      BY <1>0, <2>1 DEF Placed
    <3>4. Goto(p, j)
      BY <1>7, <2>1 DEF RunDone
    <3> HIDE DEF j
    <3>5. Placed(j)
      BY <3>2, <3>3 DEF Placed
    <3> QED BY <3>1, <3>4, <3>5, GotoTyped
  <2>2. CASE job[p].cont = "scan"
    <3> DEFINE j == [job[p] EXCEPT !.pc = "scan", !.cur = NoAlloc, !.cont = "idle"]
    <3>1. j \in Job
      BY <1>0 DEF Job, PCs
    <3>2. j.pc = "scan" /\ j.cont = "idle"
      BY <1>0 DEF Job
    <3>3. Goto(p, j)
      BY <1>7, <2>2 DEF RunDone
    <3> HIDE DEF j
    <3>4. Placed(j)
      BY <3>2 DEF Placed
    <3> QED BY <3>1, <3>3, <3>4, GotoTyped
  <2>3. CASE job[p].cont = "idle"
    BY <1>7, <2>3, IdlePlaced, GotoTyped DEF RunDone
  <2> QED BY <1>0, <2>1, <2>2, <2>3 DEF Job
<1>8. CASE RunSkip(p)
  BY <1>8, NextTargetTyped, GotoTyped DEF RunSkip
<1>9. CASE RunTake(p)
  <2>1. PICK w \in ValidWaiters(p) : Goto(p, [job[p] EXCEPT !.pc = "grant", !.got = w,
                                 !.prev = ValidOwner(job[p].tgt)])
    BY <1>9 DEF RunTake
  <2> DEFINE j == [job[p] EXCEPT !.pc = "grant", !.got = w,
                                 !.prev = ValidOwner(job[p].tgt)]
  <2>2. job[p].pc = "run_lock" /\ job[p].tgt \in Targets
    BY <1>0, <1>9 DEF RunTake, At, Placed
  <2>3. w \in Allocs /\ ValidOwner(job[p].tgt) \in Allocs \cup {NoAlloc}
    BY <1>0, <2>2 DEF Job, ValidWaiters, ValidOwner, OwnershipTyped
  <2>4. j \in Job
    BY <1>0, <2>3 DEF Job, PCs
  <2>5. Placed(j)
    BY <1>0, <2>2, <2>3 DEF Placed, Job
  <2> QED BY <2>1, <2>4, <2>5, GotoTyped
<1>10. CASE Grant(p)
  <2> DEFINE j == [job[p] EXCEPT !.pc = "calc_lock"]
  <2>1. j \in Job /\ Placed(j)
    BY <1>0, <1>10 DEF Grant, At, Placed, Job, PCs
  <2> QED BY <1>10, <2>1, GotoTyped DEF Grant
<1>11. CASE GrantFails(p)
  BY <1>11, IdlePlaced, GotoTyped DEF GrantFails, Unwind
<1>12. CASE CalcLock(p)
  <2> DEFINE j == [job[p] EXCEPT !.pc = "calc_read", !.left = Counted(p)]
  <2>1. j \in Job /\ Placed(j)
    BY <1>0, <1>12, GroupsTyped DEF CalcLock, At, Placed, Job, PCs, Counted
  <2> QED BY <1>12, <2>1, GotoTyped DEF CalcLock
<1>13. CASE CalcRead(p)
  <2>1. PICK t \in job[p].left : Goto(p, [job[p] EXCEPT !.left = @ \ {t},
                  !.held = IF owner[t] = job[p].got THEN @ \cup {t} ELSE @])
    BY <1>13 DEF CalcRead
  <2> DEFINE j == [job[p] EXCEPT !.left = @ \ {t},
                  !.held = IF owner[t] = job[p].got THEN @ \cup {t} ELSE @]
  <2>2. j \in Job /\ Placed(j)
    BY <1>0, <1>13 DEF CalcRead, At, Placed, Job, PCs
  <2> QED BY <2>1, <2>2, GotoTyped
<1>14. CASE CalcCounted(p)
  <2> DEFINE j == [job[p] EXCEPT !.pc = "calc_write"]
  <2>1. j \in Job /\ Placed(j)
    BY <1>0, <1>14 DEF CalcCounted, At, Placed, Job, PCs
  <2> QED BY <1>14, <2>1, GotoTyped DEF CalcCounted
<1>15. CASE CalcActivate(p)
  <2>1. PICK i \in DOMAIN Groups[job[p].got] : Goto(p, [job[p] EXCEPT !.pc = "extras", !.held = {},
                     !.left = job[p].held \ Groups[job[p].got][i]])
    BY <1>15 DEF CalcActivate
  <2> DEFINE j == [job[p] EXCEPT !.pc = "extras", !.held = {},
                     !.left = job[p].held \ Groups[job[p].got][i]]
  <2>2. j \in Job /\ Placed(j)
    BY <1>0, <1>15 DEF CalcActivate, At, Placed, Job, PCs
  <2> QED BY <2>1, <2>2, GotoTyped
<1>16. CASE CalcWait(p)
  BY <1>16, NextTargetTyped, GotoTyped DEF CalcWait
<1>17. CASE ReleaseExtra(p)
  <2>1. PICK t \in job[p].left : Goto(p, [job[p] EXCEPT !.left = @ \ {t}])
    BY <1>17 DEF ReleaseExtra
  <2> DEFINE j == [job[p] EXCEPT !.left = @ \ {t}]
  <2>2. j \in Job /\ Placed(j)
    BY <1>0, <1>17 DEF ReleaseExtra, At, Placed, Job, PCs
  <2> QED BY <2>1, <2>2, GotoTyped
<1>18. CASE ExtrasDone(p)
  BY <1>18, NextTargetTyped, GotoTyped DEF ExtrasDone
<1>19. CASE DelActive(p)
  <2> DEFINE j == [job[p] EXCEPT !.pc = "del_check", !.todo = group[job[p].cur],
                            !.left = group[job[p].cur]]
  <2>1. j \in Job /\ Placed(j)
    BY <1>0, <1>19 DEF DelActive, At, Placed, Job, PCs, RecordsTyped
  <2> QED BY <1>19, <2>1, GotoTyped DEF DelActive
<1>20. CASE DelOther(p)
  <2> DEFINE j == [job[p] EXCEPT !.pc = "del_rm",
              !.todo = IF job[p].cur \in stale[p] THEN {} ELSE TargetsOf(job[p].cur)]
  <2>1. job[p].pc = "del_lock" /\ job[p].cur \in Allocs
    BY <1>0, <1>20 DEF DelOther, At, Placed
  <2>2. j \in Job
    BY <1>0, <2>1, GroupsTyped DEF Job, PCs
  <2>3. Placed(j)
    BY <1>0, <2>1 DEF Placed, Job
  <2> QED BY <1>20, <2>2, <2>3, GotoTyped DEF DelOther
<1>21. CASE DelCheck(p)
  <2>1. PICK t \in job[p].left : \/ Goto(p, [job[p] EXCEPT !.pc = "del_id", !.tgt = t])
                            \/ Goto(p, [job[p] EXCEPT !.left = @ \ {t}])
    BY <1>21 DEF DelCheck
  <2> DEFINE j1 == [job[p] EXCEPT !.pc = "del_id", !.tgt = t]
  <2> DEFINE j2 == [job[p] EXCEPT !.left = @ \ {t}]
  <2>2. j1 \in Job /\ Placed(j1) /\ j2 \in Job /\ Placed(j2)
    BY <1>0, <1>21 DEF DelCheck, At, Placed, Job, PCs
  <2> QED BY <2>1, <2>2, GotoTyped
<1>22. CASE DelWipeId(p)
  <2> DEFINE j == [job[p] EXCEPT !.pc = "del_meta"]
  <2>1. j \in Job /\ Placed(j)
    BY <1>0, <1>22 DEF DelWipeId, At, Placed, Job, PCs
  <2> QED BY <1>22, <2>1, GotoTyped DEF DelWipeId
<1>23. CASE DelWipeMeta(p)
  <2> DEFINE j == [job[p] EXCEPT !.pc = "del_check", !.tgt = NoTarget,
                            !.left = @ \ {job[p].tgt}]
  <2>1. j \in Job /\ Placed(j)
    BY <1>0, <1>23 DEF DelWipeMeta, At, Placed, Job, PCs
  <2> QED BY <1>23, <2>1, GotoTyped DEF DelWipeMeta
<1>24. CASE DelUnlock(p)
  <2> DEFINE j == [job[p] EXCEPT !.pc = "del_rm"]
  <2>1. j \in Job /\ Placed(j)
    BY <1>0, <1>24 DEF DelUnlock, At, Placed, Job, PCs
  <2> QED BY <1>24, <2>1, GotoTyped DEF DelUnlock
<1>25. CASE DelRemove(p)
  <2> DEFINE j == [job[p] EXCEPT !.pc = "run"]
  <2>1. j \in Job /\ Placed(j)
    BY <1>0, <1>25 DEF DelRemove, At, Placed, Job, PCs
  <2> QED BY <1>25, <2>1, GotoTyped DEF DelRemove
<1>26. CASE MaintVisit(p)
  <2>1. PICK a \in job[p].scan : \/ Goto(p, [job[p] EXCEPT !.scan = @ \ {a}])
                            \/ Goto(p, [job[p] EXCEPT !.scan = @ \ {a}, !.pc = "del_lock",
                                 !.cur = a, !.cont = "scan"])
    BY <1>26 DEF MaintVisit
  <2> DEFINE j1 == [job[p] EXCEPT !.scan = @ \ {a}]
  <2> DEFINE j2 == [job[p] EXCEPT !.scan = @ \ {a}, !.pc = "del_lock",
                                 !.cur = a, !.cont = "scan"]
  <2>2. a \in Allocs
    BY <1>0 DEF Job
  <2>3. j1 \in Job /\ j2 \in Job
    BY <1>0, <2>2 DEF Job, PCs
  <2>4. Placed(j1)
    BY <1>0 DEF Placed, Job
  <2>5. Placed(j2)
    BY <1>0, <2>2 DEF Placed, Job
  <2> QED BY <2>1, <2>3, <2>4, <2>5, GotoTyped
<1>27. CASE MaintRun(p)
  <2> DEFINE j == [job[p] EXCEPT !.pc = "run", !.todo = Targets]
  <2>1. j \in Job /\ Placed(j)
    BY <1>0, <1>27 DEF MaintRun, At, Placed, Job, PCs
  <2> QED BY <1>27, <2>1, GotoTyped DEF MaintRun
<1>28. CASE RecordGone(p)
  BY <1>28, IdlePlaced, GotoTyped DEF RecordGone, Unwind
<1>29. CASE LockTimeout(p)
  BY <1>29, IdlePlaced, GotoTyped DEF LockTimeout, Unwind
<1>30. CASE DelTimeout(p)
  BY <1>30, IdlePlaced, GotoTyped DEF DelTimeout, Unwind
<1> QED BY <1>1, <1>2, <1>3, <1>4, <1>5, <1>6, <1>7, <1>8, <1>9, <1>10, <1>11, <1>12, <1>13,
    <1>14, <1>15, <1>16, <1>17, <1>18, <1>19, <1>20, <1>21, <1>22, <1>23, <1>24, <1>25, <1>26,
    <1>27, <1>28, <1>29, <1>30 DEF Step

-----------------------------------------------------------------------------
\* Whatever is not in a step's frame keeps its type.
LEMMA FrameTyped ==
    ASSUME TypeInv
    PROVE  /\ UNCHANGED records => RecordsTyped'
           /\ UNCHANGED ownership => OwnershipTyped'
           /\ UNCHANGED locks => LocksTyped'
           /\ UNCHANGED <<stale, clock, crashes>> => RestTyped'
BY DEF TypeInv, RecordsTyped, OwnershipTyped, LocksTyped, RestTyped, records,
       ownership, locks

\* A process that unwinds drops its locks and no others.
LEMMA UnwindTyped ==
    ASSUME TypeInv, NEW p \in Procs, Unwind(p)
    PROVE  LocksTyped'
BY DEF TypeInv, LocksTyped, Unwind, DropLocks

\* The records, the targets and the locks keep their types when a handler steps.
LEMMA DataStep ==
    ASSUME TypeInv, NEW p \in Procs, Step(p)
    PROVE  RecordsTyped' /\ OwnershipTyped' /\ LocksTyped' /\ RestTyped'
<1> USE DEF TypeInv
<1>0. job[p] \in Job /\ Placed(job[p])
  BY DEF JobTyped

<1>1. CASE ReqRun(p) \/ ReqResult(p) \/ RunLoad(p) \/ RunDone(p) \/ CalcRead(p)
          \/ CalcCounted(p) \/ ExtrasDone(p) \/ DelOther(p) \/ DelCheck(p) \/ MaintRun(p)
  BY <1>1, FrameTyped DEF ReqRun, ReqResult, RunLoad, RunDone, CalcRead, CalcCounted,
      ExtrasDone, DelOther, DelCheck, MaintRun
<1>2. CASE RecordGone(p) \/ LockTimeout(p)
  BY <1>2, FrameTyped, UnwindTyped DEF RecordGone, LockTimeout
<1>3. CASE ReqStamp(p)
  BY <1>0, <1>3, FrameTyped, BoundsAssumption
     DEF ReqStamp, At, Placed, Job, RecordsTyped, RestTyped, States, records, ownership, locks
<1>4. CASE ReqPublish(p)
  BY <1>0, <1>4, FrameTyped
     DEF ReqPublish, At, Placed, Job, RecordsTyped, RestTyped, States, records, ownership, locks
<1>5. CASE ReqEnqueue(p)
  BY <1>0, <1>5, FrameTyped
     DEF ReqEnqueue, At, Placed, Job, OwnershipTyped, records, ownership, locks
<1>6. CASE RunSkip(p)
  BY <1>0, <1>6, FrameTyped
     DEF RunSkip, At, Placed, Job, OwnershipTyped, records, ownership, locks, WipeOrphan,
         ValidOwner
<1>7. CASE RunTake(p)
  BY <1>0, <1>7, FrameTyped
     DEF RunTake, At, Placed, Job, OwnershipTyped, LocksTyped, records, ownership, locks,
         WipeOrphan, ValidOwner
<1>8. CASE Grant(p)
  <2>1. /\ job[p].got \in Allocs /\ job[p].tgt \in Targets
        /\ job[p].prev \in Allocs \cup {NoAlloc} /\ Prio[job[p].got] \in Nat
    BY <1>0, <1>8, RequestsAssumption DEF Grant, At, Placed, Job
  <2>2. RecordsTyped'
    BY <1>8, <2>1 DEF Grant, RecordsTyped, States
  <2>3. OwnershipTyped'
    BY <1>8, <2>1 DEF Grant, OwnershipTyped, Recorded
  <2>4. LocksTyped' /\ RestTyped'
    BY <1>8, <2>1 DEF Grant, LocksTyped, RestTyped
  <2> QED BY <2>2, <2>3, <2>4
<1>9. CASE GrantFails(p)
  BY <1>0, <1>9, FrameTyped, UnwindTyped
     DEF GrantFails, At, Placed, Job, OwnershipTyped, records, ownership, locks
<1>10. CASE CalcLock(p)
  BY <1>0, <1>10, FrameTyped
     DEF CalcLock, At, Placed, Job, LocksTyped, records, ownership, locks
<1>11. CASE CalcActivate(p)
  BY <1>0, <1>11, FrameTyped, GroupsTyped
     DEF CalcActivate, At, Placed, Job, RecordsTyped, LocksTyped, States, records, ownership,
         locks
<1>12. CASE CalcWait(p)
  BY <1>0, <1>12, FrameTyped
     DEF CalcWait, At, Placed, Job, LocksTyped, records, ownership, locks
<1>13. CASE ReleaseExtra(p)
  BY <1>0, <1>13, FrameTyped
     DEF ReleaseExtra, At, Placed, Job, OwnershipTyped, records, ownership, locks
<1>14. CASE DelActive(p)
  BY <1>0, <1>14, FrameTyped
     DEF DelActive, At, Placed, Job, LocksTyped, records, ownership, locks
<1>15. CASE DelWipeId(p)
  BY <1>0, <1>15, FrameTyped
     DEF DelWipeId, At, Placed, Job, OwnershipTyped, records, ownership, locks
<1>16. CASE DelWipeMeta(p)
  BY <1>0, <1>16, FrameTyped
     DEF DelWipeMeta, At, Placed, Job, OwnershipTyped, records, ownership, locks
<1>17. CASE DelUnlock(p)
  BY <1>0, <1>17, FrameTyped
     DEF DelUnlock, At, Placed, Job, LocksTyped, records, ownership, locks
<1>18. CASE DelRemove(p)
  BY <1>0, <1>18, FrameTyped
     DEF DelRemove, At, Placed, Job, RecordsTyped, States, records, ownership, locks
<1>19. CASE MaintVisit(p)
  BY <1>0, <1>19, FrameTyped
     DEF MaintVisit, At, Placed, Job, RestTyped, records, ownership, locks, Loaded
<1>20. CASE DelTimeout(p)
  BY <1>0, <1>20, FrameTyped, UnwindTyped
     DEF DelTimeout, At, Placed, Job, RecordsTyped, States, records, ownership, locks
<1> QED BY <1>1, <1>2, <1>3, <1>4, <1>5, <1>6, <1>7, <1>8, <1>9, <1>10, <1>11, <1>12, <1>13,
    <1>14, <1>15, <1>16, <1>17, <1>18, <1>19, <1>20 DEF Step

\* Starting or dying, a process leaves the state well typed; so does an owner
\* that gives a target back.
LEMMA TypeStep == TypeInv /\ [Next]_vars => TypeInv'
<1> SUFFICES ASSUME TypeInv, [Next]_vars PROVE TypeInv'
  OBVIOUS
<1> USE DEF TypeInv
<1>1. ASSUME NEW p \in Procs, Step(p) PROVE TypeInv'
  BY <1>1, JobStep, DataStep
<1>2. ASSUME NEW p \in Procs, Crash(p) PROVE TypeInv'
  <2>1. JobTyped'
    BY <1>2, IdlePlaced, GotoTyped DEF Crash, Unwind
  <2>2. RestTyped'
    BY <1>2, BoundsAssumption DEF Crash, RestTyped
  <2> QED BY <1>2, <2>1, <2>2, FrameTyped, UnwindTyped DEF Crash
<1>3. ASSUME NEW p \in Workers, NEW a \in Allocs, Query(p, a) PROVE TypeInv'
  BY <1>3, FrameTyped DEF Query, Loaded, RestTyped, JobTyped
<1>4. ASSUME NEW p \in Workers, NEW a \in Allocs, Request(p, a) PROVE TypeInv'
  <2> DEFINE j == [job[p] EXCEPT !.pc = "stamp", !.cur = a]
  <2>1. p \in Procs /\ job[p] \in Job
    BY DEF Procs, JobTyped
  <2>2. j \in Job
    BY <2>1 DEF Job, PCs
  <2>3. j.pc = "stamp" /\ j.cur = a
    BY <2>1 DEF Job
  <2>4. Goto(p, j)
    BY <1>4 DEF Request
  <2> HIDE DEF j
  <2>5. Placed(j)
    BY <2>3 DEF Placed
  <2>6. JobTyped'
    BY <2>1, <2>2, <2>4, <2>5, GotoTyped
  <2>7. RecordsTyped'
    BY <1>4 DEF Request, RecordsTyped, States
  <2>8. RestTyped'
    BY <2>1, <1>4 DEF Request, RestTyped
  <2> QED BY <1>4, <2>6, <2>7, <2>8, FrameTyped DEF Request
<1>5. ASSUME NEW p \in Workers, NEW a \in Allocs, ClientDelete(p, a) PROVE TypeInv'
  <2> DEFINE j == [job[p] EXCEPT !.pc = "del_lock", !.cur = a]
  <2>1. p \in Procs /\ job[p] \in Job
    BY DEF Procs, JobTyped
  <2>2. j \in Job
    BY <2>1 DEF Job, PCs
  <2>3. j.pc = "del_lock" /\ j.cur = a
    BY <2>1 DEF Job
  <2>4. Goto(p, j)
    BY <1>5 DEF ClientDelete
  <2> HIDE DEF j
  <2>5. Placed(j)
    BY <2>3 DEF Placed
  <2>6. JobTyped'
    BY <2>1, <2>2, <2>4, <2>5, GotoTyped
  <2> QED BY <1>5, <2>6, FrameTyped DEF ClientDelete
<1>6. ASSUME NEW t \in Targets, NEW forced \in BOOLEAN, NEW p \in Workers,
             Release(p, t, forced)
      PROVE  TypeInv'
  BY <1>6, FrameTyped
     DEF Release, JobTyped, RecordsTyped, OwnershipTyped, RestTyped, States
<1>7. ASSUME MaintStart(Cleaner) PROVE TypeInv'
  <2> DEFINE j == [job[Cleaner] EXCEPT !.pc = "scan", !.scan = {a \in Allocs : Live(a)}]
  <2>1. Cleaner \in Procs /\ job[Cleaner] \in Job /\ Placed(job[Cleaner])
    BY DEF Procs, JobTyped
  <2>2. j \in Job
    BY <2>1 DEF Job, PCs
  <2>3. j.pc = "scan" /\ j.cur = job[Cleaner].cur /\ j.cont = job[Cleaner].cont
    BY <2>1 DEF Job
  <2>4. Goto(Cleaner, j)
    BY <1>7 DEF MaintStart
  <2> HIDE DEF j
  <2>5. Placed(j)
    BY <2>1, <2>3 DEF Placed
  <2>6. JobTyped'
    BY <2>1, <2>2, <2>4, <2>5, GotoTyped
  <2> QED BY <1>7, <2>6, FrameTyped DEF MaintStart
<1>8. ASSUME UNCHANGED vars PROVE TypeInv'
  BY <1>8, FrameTyped DEF vars, records, ownership, locks, JobTyped
<1>9. ASSUME NEW p \in Workers, NEW t \in Targets, OwnerCheck(p, t) PROVE TypeInv'
  BY <1>9, FrameTyped DEF OwnerCheck, WipeOrphan, ValidOwner, OwnershipTyped, JobTyped
<1> QED
  BY <1>1, <1>2, <1>3, <1>4, <1>5, <1>6, <1>7, <1>8, <1>9 DEF Next

\* A server starts with no allocations and idle processes.
LEMMA TypeInit == Init => TypeInv
BY IdlePlaced, BoundsAssumption
   DEF Init, TypeInv, JobTyped, RecordsTyped, OwnershipTyped, LocksTyped,
       RestTyped, States

\* All along, handlers are where their records say and hold what they need.
THEOREM TypeInvariant == Spec => []TypeInv
<1> QED BY TypeInit, TypeStep, PTL DEF Spec

\* Every file and every handler's record keeps its type: the priorities and the
\* owners written to targets are those of allocations, whatever the deletes,
\* timeouts and crashes.
THEOREM TypeCorrect == Spec => []TypeOK
<1>1. TypeInv => TypeOK
  BY DEF TypeInv, TypeOK, JobTyped, RecordsTyped, OwnershipTyped, LocksTyped, RestTyped
<1> QED BY <1>1, TypeInvariant, PTL

-----------------------------------------------------------------------------
\* Where a handler works under a lock file, its process holds it.
HoldsLocks(p) ==
    /\ \A a \in Locks(p) : alock[a] = p
    /\ At(p, "grant") => tlock[job[p].tgt] = p

LockInv == \A p \in Procs : HoldsLocks(p)

\* The places where nothing is locked.
Free == PCs \ {"grant", "calc_read", "calc_write", "del_check", "del_id", "del_meta"}

\* A process that has gone to one of them has nothing to hold.
LEMMA FreeHolds ==
    ASSUME NEW p \in Procs, job'[p].pc \in Free
    PROVE  HoldsLocks(p)' /\ ~At(p, "grant")'
BY DEF Free, HoldsLocks, Locks, At, PCs

\* What p leaves alone of q's locks and of its place keeps q's locks held.
Unharmed(q) ==
    /\ job'[q] = job[q]
    /\ \A a \in Allocs : alock[a] = q => alock'[a] = q
    /\ \A t \in Targets : tlock[t] = q => tlock'[t] = q

\* A process whose place and locks are left alone still holds what it needs.
LEMMA UnharmedHolds ==
    ASSUME TypeInv, NEW q \in Procs, HoldsLocks(q), Unharmed(q)
    PROVE  HoldsLocks(q)'
<1>1. job[q] \in Job /\ Placed(job[q])
  BY DEF TypeInv, JobTyped
<1>2. Locks(q) \subseteq Allocs /\ Locks(q)' = Locks(q)
  BY <1>1 DEF Locks, Placed, Unharmed
<1>3. At(q, "grant") => job[q].tgt \in Targets
  BY <1>1 DEF At, Placed
<1> QED BY <1>2, <1>3 DEF HoldsLocks, Unharmed, At

\* Only p moves when p steps.
LEMMA GotoOthers ==
    ASSUME JobTyped, NEW p \in Procs, NEW q \in Procs, q # p, NEW j, Goto(p, j)
    PROVE  job'[q] = job[q]
BY DEF JobTyped, Goto

\* And it moves to the place the step names.
LEMMA GotoSelf ==
    ASSUME JobTyped, NEW p \in Procs, NEW j, Goto(p, j)
    PROVE  job'[p] = j
BY DEF JobTyped, Goto

\* A process that fails or dies drops no lock of another.
LEMMA UnwindUnharmed ==
    ASSUME TypeInv, NEW p \in Procs, NEW q \in Procs, q # p, Unwind(p)
    PROVE  Unharmed(q)
BY GotoOthers DEF TypeInv, Unwind, DropLocks, Unharmed

\* A process takes only free locks, and gives back only those it holds: another
\* one keeps all of its own.
LEMMA OthersUnharmed ==
    ASSUME TypeInv, LockInv, NEW p \in Procs, Step(p), NEW q \in Procs, q # p
    PROVE  Unharmed(q)
<1> USE DEF TypeInv
<1>0. /\ job[p] \in Job /\ Placed(job[p])
      /\ HoldsLocks(p)
      /\ q # NoProc
  BY ProcsAssumption DEF JobTyped, LockInv
<1>1. CASE ReqStamp(p) \/ ReqPublish(p) \/ ReqEnqueue(p) \/ ReqRun(p)
           \/ RunLoad(p) \/ RunSkip(p) \/ CalcRead(p) \/ CalcCounted(p)
  BY <1>1, GotoOthers
     DEF ReqStamp, ReqPublish, ReqEnqueue, ReqRun, RunLoad, RunSkip, CalcRead,
         CalcCounted, Unharmed, locks
<1>2. CASE ReleaseExtra(p) \/ ExtrasDone(p) \/ DelOther(p) \/ DelWipeId(p)
           \/ DelWipeMeta(p) \/ DelRemove(p) \/ MaintRun(p)
  BY <1>2, GotoOthers
     DEF ReleaseExtra, ExtrasDone, DelOther, DelWipeId, DelWipeMeta, DelRemove,
         MaintRun, Unharmed, locks
<1>3. CASE ReqResult(p) \/ RunDone(p) \/ DelCheck(p) \/ MaintVisit(p)
  <2>1. UNCHANGED locks
    BY <1>3 DEF ReqResult, RunDone, DelCheck, MaintVisit
  <2>2. CASE ReqResult(p)
    BY <2>1, <2>2, GotoOthers DEF ReqResult, Unharmed, locks
  <2>3. CASE RunDone(p)
    BY <2>1, <2>3, GotoOthers DEF RunDone, Unharmed, locks
  <2>4. CASE DelCheck(p)
    BY <2>1, <2>4, GotoOthers DEF DelCheck, Unharmed, locks
  <2>5. CASE MaintVisit(p)
    BY <2>1, <2>5, GotoOthers DEF MaintVisit, Unharmed, locks
  <2> QED BY <1>3, <2>2, <2>3, <2>4, <2>5
<1>4. CASE RecordGone(p) \/ LockTimeout(p) \/ DelTimeout(p) \/ GrantFails(p)
  BY <1>4, UnwindUnharmed DEF RecordGone, LockTimeout, DelTimeout, GrantFails
<1>5. CASE CalcLock(p) \/ DelActive(p)
  BY <1>0, <1>5, GotoOthers DEF CalcLock, DelActive, CanLock, LocksTyped, Unharmed
<1>6. CASE RunTake(p)
  BY <1>0, <1>6, GotoOthers DEF RunTake, LocksTyped, Unharmed
<1>7. CASE Grant(p)
  BY <1>0, <1>7, GotoOthers DEF Grant, At, HoldsLocks, LocksTyped, Unharmed
<1>8. CASE CalcActivate(p) \/ CalcWait(p)
  <2>1. alock[job[p].got] = p
    BY <1>0, <1>8 DEF CalcActivate, CalcWait, At, HoldsLocks, Locks
  <2>2. job'[q] = job[q]
    BY <1>8, GotoOthers DEF CalcActivate, CalcWait
  <2> QED BY <1>8, <2>1, <2>2 DEF CalcActivate, CalcWait, LocksTyped, Unharmed
<1>9. CASE DelUnlock(p)
  <2>1. alock[job[p].cur] = p
    BY <1>0, <1>9 DEF DelUnlock, At, HoldsLocks, Locks
  <2> QED BY <1>9, <2>1, GotoOthers DEF DelUnlock, LocksTyped, Unharmed
<1> QED BY <1>1, <1>2, <1>3, <1>4, <1>5, <1>6, <1>7, <1>8, <1>9 DEF Step

\* A process enters a locked section by taking its lock and stays in it with
\* the lock and the allocation or target it was taken for.  Taking a target is the
\* only way to grant it.
LEMMA SelfHolds ==
    ASSUME TypeInv, LockInv, NEW p \in Procs, Step(p)
    PROVE  HoldsLocks(p)' /\ (At(p, "grant")' => RunTake(p))
<1> USE DEF TypeInv
<1>0. job[p] \in Job /\ Placed(job[p]) /\ HoldsLocks(p)
  BY DEF JobTyped, LockInv
<1>1. CASE ReqStamp(p)
  <2>1. job'[p].pc = "publish"
    BY <1>0, <1>1, GotoSelf DEF ReqStamp, Job
  <2> QED BY <2>1, FreeHolds DEF Free, PCs
<1>2. CASE ReqPublish(p)
  <2>1. job'[p].pc = "enqueue"
    BY <1>0, <1>2, GotoSelf DEF ReqPublish, Job
  <2> QED BY <2>1, FreeHolds DEF Free, PCs
<1>3. CASE ReqEnqueue(p)
  <2>1. PICK t \in job[p].todo : job'[p] = [job[p] EXCEPT !.todo = @ \ {t}]
    BY <1>3, GotoSelf DEF ReqEnqueue
  <2>2. job'[p].pc = "enqueue"
    BY <1>0, <1>3, <2>1 DEF ReqEnqueue, Job, At
  <2> QED BY <2>2, FreeHolds DEF Free, PCs
<1>4. CASE ReqRun(p)
  <2>1. job'[p] = [job[p] EXCEPT !.pc = "run", !.cont = "result",
                                 !.todo = TargetsOf(job[p].cur)]
    BY <1>4, GotoSelf DEF ReqRun
  <2>2. job'[p].pc = "run"
    BY <1>0, <2>1 DEF Job
  <2> QED BY <2>2, FreeHolds DEF Free, PCs
<1>5. CASE ReqResult(p)
  <2>1. \/ job'[p] = Idle
        \/ job'[p] = [job[p] EXCEPT !.pc = "del_lock", !.cont = "idle"]
    BY <1>5, GotoSelf DEF ReqResult
  <2>2. CASE job'[p] = Idle
    BY <2>2, FreeHolds DEF Idle, Free, PCs
  <2>3. CASE job'[p] = [job[p] EXCEPT !.pc = "del_lock", !.cont = "idle"]
    <3>1. job'[p].pc = "del_lock"
      BY <1>0, <2>3 DEF Job
    <3> QED BY <3>1, FreeHolds DEF Free, PCs
  <2> QED BY <2>1, <2>2, <2>3
<1>6. CASE RunLoad(p)
  <2>1. PICK t \in job[p].todo :
               job'[p] = [job[p] EXCEPT !.pc = "run_lock", !.tgt = t, !.wq = queue[t]]
    BY <1>6, GotoSelf DEF RunLoad
  <2> QED BY <1>0, <2>1, FreeHolds DEF Job, Free, PCs
<1>7. CASE RunDone(p)
  <2>1. \/ job'[p] = Idle
        \/ job'[p] = [job[p] EXCEPT !.pc = "result"]
        \/ job'[p] = [job[p] EXCEPT !.pc = "scan", !.cur = NoAlloc, !.cont = "idle"]
    BY <1>0, <1>7, GotoSelf DEF RunDone, Job
  <2>2. CASE job'[p] = Idle
    BY <2>2, FreeHolds DEF Idle, Free, PCs
  <2>3. CASE job'[p] = [job[p] EXCEPT !.pc = "result"]
    <3>1. job'[p].pc = "result"
      BY <1>0, <2>3 DEF Job
    <3> QED BY <3>1, FreeHolds DEF Free, PCs
  <2>4. CASE job'[p] = [job[p] EXCEPT !.pc = "scan", !.cur = NoAlloc, !.cont = "idle"]
    <3>1. job'[p].pc = "scan"
      BY <1>0, <2>4 DEF Job
    <3> QED BY <3>1, FreeHolds DEF Free, PCs
  <2> QED BY <2>1, <2>2, <2>3, <2>4
<1>8. CASE RunSkip(p)
  <2>1. job'[p] = NextTarget(p)
    BY <1>8, GotoSelf DEF RunSkip
  <2>2. job'[p].pc = "run"
    BY <2>1, NextTargetTyped
  <2> QED BY <2>2, FreeHolds DEF Free, PCs
<1>9. CASE RunTake(p)
  <2>1. PICK w \in ValidWaiters(p) :
               job'[p] = [job[p] EXCEPT !.pc = "grant", !.got = w,
                                        !.prev = ValidOwner(job[p].tgt)]
    BY <1>9, GotoSelf DEF RunTake
  <2>2. job'[p].pc = "grant" /\ job'[p].tgt = job[p].tgt
    BY <1>0, <2>1 DEF Job
  <2>3. tlock'[job[p].tgt] = p
    BY <1>0, <1>9 DEF RunTake, LocksTyped, At, Placed
  <2> QED BY <1>9, <2>2, <2>3 DEF HoldsLocks, Locks, At
<1>10. CASE Grant(p)
  BY <1>0, <1>10, GotoSelf, FreeHolds DEF Grant, Job, Free, PCs
<1>11. CASE GrantFails(p)
  BY <1>11, GotoSelf, FreeHolds DEF GrantFails, Unwind, Idle, Free, PCs
<1>12. CASE CalcLock(p)
  <2>1. job'[p] = [job[p] EXCEPT !.pc = "calc_read", !.left = Counted(p)]
    BY <1>12, GotoSelf DEF CalcLock
  <2>2. job'[p].pc = "calc_read" /\ job'[p].got = job[p].got
    BY <1>0, <2>1 DEF Job
  <2>3. alock'[job[p].got] = p
    BY <1>0, <1>12 DEF CalcLock, LocksTyped, At, Placed
  <2> QED BY <2>2, <2>3 DEF HoldsLocks, Locks, At
<1>13. CASE CalcRead(p)
  <2>1. PICK t \in job[p].left :
               job'[p] = [job[p] EXCEPT !.left = @ \ {t},
                  !.held = IF owner[t] = job[p].got THEN @ \cup {t} ELSE @]
    BY <1>13, GotoSelf DEF CalcRead
  <2>2. /\ job[p].pc = "calc_read" /\ job'[p].pc = "calc_read"
        /\ job'[p].got = job[p].got /\ alock' = alock
    BY <1>0, <1>13, <2>1 DEF CalcRead, Job, At, locks
  <2> QED BY <1>0, <2>2 DEF HoldsLocks, Locks, At
<1>14. CASE CalcCounted(p)
  <2>1. /\ job[p].pc = "calc_read" /\ job'[p].pc = "calc_write"
        /\ job'[p].got = job[p].got /\ alock' = alock
    BY <1>0, <1>14, GotoSelf DEF CalcCounted, Job, At, locks
  <2> QED BY <1>0, <2>1 DEF HoldsLocks, Locks, At
<1>15. CASE CalcActivate(p)
  <2>1. PICK i \in DOMAIN Groups[job[p].got] :
               job'[p] = [job[p] EXCEPT !.pc = "extras", !.held = {},
                                        !.left = job[p].held \ Groups[job[p].got][i]]
    BY <1>15, GotoSelf DEF CalcActivate
  <2> QED BY <1>0, <2>1, FreeHolds DEF Job, Free, PCs
<1>16. CASE CalcWait(p)
  <2>1. job'[p] = NextTarget(p)
    BY <1>16, GotoSelf DEF CalcWait
  <2>2. job'[p].pc = "run"
    BY <2>1, NextTargetTyped
  <2> QED BY <2>2, FreeHolds DEF Free, PCs
<1>17. CASE ReleaseExtra(p)
  <2>1. PICK t \in job[p].left : job'[p] = [job[p] EXCEPT !.left = @ \ {t}]
    BY <1>17, GotoSelf DEF ReleaseExtra
  <2>2. job'[p].pc = "extras"
    BY <1>0, <1>17, <2>1 DEF ReleaseExtra, Job, At
  <2> QED BY <2>2, FreeHolds DEF Free, PCs
<1>18. CASE ExtrasDone(p)
  <2>1. job'[p] = NextTarget(p)
    BY <1>18, GotoSelf DEF ExtrasDone
  <2>2. job'[p].pc = "run"
    BY <2>1, NextTargetTyped
  <2> QED BY <2>2, FreeHolds DEF Free, PCs
<1>19. CASE DelActive(p)
  <2>1. job'[p] = [job[p] EXCEPT !.pc = "del_check", !.todo = group[job[p].cur],
                                 !.left = group[job[p].cur]]
    BY <1>19, GotoSelf DEF DelActive
  <2>2. job'[p].pc = "del_check" /\ job'[p].cur = job[p].cur
    BY <1>0, <2>1 DEF Job
  <2>3. alock'[job[p].cur] = p
    BY <1>0, <1>19 DEF DelActive, LocksTyped, At, Placed
  <2> QED BY <2>2, <2>3 DEF HoldsLocks, Locks, At
<1>20. CASE DelOther(p)
  <2>1. job'[p] = [job[p] EXCEPT !.pc = "del_rm",
                 !.todo = IF job[p].cur \in stale[p] THEN {} ELSE TargetsOf(job[p].cur)]
    BY <1>20, GotoSelf DEF DelOther
  <2>2. job'[p].pc = "del_rm"
    BY <1>0, <2>1 DEF Job
  <2> QED BY <2>2, FreeHolds DEF Free, PCs
<1>21. CASE DelCheck(p)
  <2>1. PICK t \in job[p].left :
               \/ job'[p] = [job[p] EXCEPT !.pc = "del_id", !.tgt = t]
               \/ job'[p] = [job[p] EXCEPT !.left = @ \ {t}]
    BY <1>21, GotoSelf DEF DelCheck
  <2>2. /\ job[p].pc = "del_check" /\ job'[p].pc \in {"del_check", "del_id"}
        /\ job'[p].cur = job[p].cur /\ alock' = alock
    BY <1>0, <1>21, <2>1 DEF DelCheck, Job, At, locks
  <2> QED BY <1>0, <2>2 DEF HoldsLocks, Locks, At
<1>22. CASE DelWipeId(p)
  <2>1. job'[p] = [job[p] EXCEPT !.pc = "del_meta"]
    BY <1>22, GotoSelf DEF DelWipeId
  <2>2. job'[p].pc = "del_meta" /\ job'[p].cur = job[p].cur
    BY <1>0, <2>1 DEF Job
  <2>3. job[p].pc = "del_id" /\ alock' = alock
    BY <1>22 DEF DelWipeId, At, locks
  <2> QED BY <1>0, <2>2, <2>3 DEF HoldsLocks, Locks, At
<1>23. CASE DelWipeMeta(p)
  <2>1. job'[p] = [job[p] EXCEPT !.pc = "del_check", !.tgt = NoTarget,
                                 !.left = @ \ {job[p].tgt}]
    BY <1>23, GotoSelf DEF DelWipeMeta
  <2>2. job'[p].pc = "del_check" /\ job'[p].cur = job[p].cur
    BY <1>0, <2>1 DEF Job
  <2>3. job[p].pc = "del_meta" /\ alock' = alock
    BY <1>23 DEF DelWipeMeta, At, locks
  <2> QED BY <1>0, <2>2, <2>3 DEF HoldsLocks, Locks, At
<1>24. CASE DelUnlock(p)
  BY <1>0, <1>24, GotoSelf, FreeHolds DEF DelUnlock, Job, Free, PCs
<1>25. CASE DelRemove(p)
  BY <1>0, <1>25, GotoSelf, FreeHolds DEF DelRemove, Job, Free, PCs
<1>26. CASE MaintVisit(p)
  <2>1. PICK a \in job[p].scan :
               \/ job'[p] = [job[p] EXCEPT !.scan = @ \ {a}]
               \/ job'[p] = [job[p] EXCEPT !.scan = @ \ {a}, !.pc = "del_lock",
                                          !.cur = a, !.cont = "scan"]
    BY <1>26, GotoSelf DEF MaintVisit
  <2>2. job'[p].pc \in {"scan", "del_lock"}
    BY <1>0, <1>26, <2>1 DEF MaintVisit, Job, At
  <2> QED BY <2>2, FreeHolds DEF Free, PCs
<1>27. CASE MaintRun(p)
  <2>1. job'[p].pc = "run"
    BY <1>0, <1>27, GotoSelf DEF MaintRun, Job
  <2> QED BY <2>1, FreeHolds DEF Free, PCs
<1>28. CASE RecordGone(p)
  BY <1>28, GotoSelf, FreeHolds DEF RecordGone, Unwind, Idle, Free, PCs
<1>29. CASE LockTimeout(p)
  BY <1>29, GotoSelf, FreeHolds DEF LockTimeout, Unwind, Idle, Free, PCs
<1>30. CASE DelTimeout(p)
  BY <1>30, GotoSelf, FreeHolds DEF DelTimeout, Unwind, Idle, Free, PCs
<1> QED BY <1>1, <1>2, <1>3, <1>4, <1>5, <1>6, <1>7, <1>8, <1>9, <1>10, <1>11, <1>12, <1>13,
    <1>14, <1>15, <1>16, <1>17, <1>18, <1>19, <1>20, <1>21, <1>22, <1>23, <1>24, <1>25, <1>26,
    <1>27, <1>28, <1>29, <1>30 DEF Step

\* Locks are held where they must be, whatever step the server takes.
LEMMA LockStep == TypeInv /\ LockInv /\ [Next]_vars => LockInv'
<1> SUFFICES ASSUME TypeInv, LockInv, [Next]_vars, NEW q \in Procs
             PROVE  HoldsLocks(q)'
  BY DEF LockInv
<1> USE DEF TypeInv
<1>0. HoldsLocks(q)
  BY DEF LockInv
<1>1. ASSUME NEW p \in Procs, Step(p) PROVE HoldsLocks(q)'
  BY <1>0, <1>1, OthersUnharmed, SelfHolds, UnharmedHolds
<1>2. ASSUME NEW p \in Procs, Crash(p) PROVE HoldsLocks(q)'
  <2>1. CASE p = q
    BY <1>2, <2>1, GotoSelf, FreeHolds DEF Crash, Unwind, Idle, Free, PCs
  <2>2. CASE p # q
    BY <1>0, <1>2, <2>2, UnwindUnharmed, UnharmedHolds DEF Crash
  <2> QED BY <2>1, <2>2
<1>3. ASSUME NEW p \in Workers, NEW a \in Allocs, Query(p, a) PROVE HoldsLocks(q)'
  BY <1>0, <1>3, UnharmedHolds DEF Query, Unharmed, locks
<1>4. ASSUME NEW p \in Workers, NEW a \in Allocs, Request(p, a) \/ ClientDelete(p, a)
      PROVE  HoldsLocks(q)'
  <2>1. p \in Procs /\ job[p] \in Job
    BY DEF Procs, JobTyped
  <2>2. CASE p = q
    <3>1. CASE Request(p, a)
      <4>1. job'[p].pc = "stamp"
        BY <2>1, <3>1, GotoSelf DEF Request, Job
      <4> QED BY <2>2, <4>1, FreeHolds DEF Free, PCs
    <3>2. CASE ClientDelete(p, a)
      <4>1. job'[p].pc = "del_lock"
        BY <2>1, <3>2, GotoSelf DEF ClientDelete, Job
      <4> QED BY <2>2, <4>1, FreeHolds DEF Free, PCs
    <3> QED BY <1>4, <3>1, <3>2
  <2>3. CASE p # q
    <3>1. Unharmed(q)
      BY <1>4, <2>1, <2>3, GotoOthers DEF Request, ClientDelete, Unharmed, locks
    <3> QED BY <1>0, <3>1, UnharmedHolds
  <2> QED BY <2>2, <2>3
<1>5. ASSUME NEW p \in Workers, NEW t \in Targets, NEW forced \in BOOLEAN,
             Release(p, t, forced)
      PROVE  HoldsLocks(q)'
  BY <1>0, <1>5, UnharmedHolds DEF Release, Unharmed, locks
<1>6. ASSUME MaintStart(Cleaner) PROVE HoldsLocks(q)'
  <2>1. Cleaner \in Procs /\ job[Cleaner] \in Job
    BY DEF Procs, JobTyped
  <2>2. CASE Cleaner = q
    <3>1. job'[q].pc = "scan"
      BY <1>6, <2>1, <2>2, GotoSelf DEF MaintStart, Job
    <3> QED BY <3>1, FreeHolds DEF Free, PCs
  <2>3. CASE Cleaner # q
    <3>1. Unharmed(q)
      BY <1>6, <2>1, <2>3, GotoOthers DEF MaintStart, Unharmed, locks
    <3> QED BY <1>0, <3>1, UnharmedHolds
  <2> QED BY <2>2, <2>3
<1>7. ASSUME UNCHANGED vars PROVE HoldsLocks(q)'
  BY <1>0, <1>7, UnharmedHolds DEF vars, Unharmed
<1>8. ASSUME NEW p \in Workers, NEW t \in Targets, OwnerCheck(p, t)
      PROVE  HoldsLocks(q)'
  BY <1>0, <1>8, UnharmedHolds DEF OwnerCheck, Unharmed, locks
<1> QED
  BY <1>1, <1>2, <1>3, <1>4, <1>5, <1>6, <1>7, <1>8 DEF Next

\* Nobody holds a lock when the server starts.
LEMMA LockInit == Init => LockInv
BY DEF Init, LockInv, HoldsLocks, Locks, At, Idle

\* Every locked section of the allocator is run with its lock held.
THEOREM LockInvariant == Spec => []LockInv
<1> QED BY TypeInvariant, LockInit, LockStep, PTL DEF Spec

\* No two processes compute or delete one allocation at a time, or assign one
\* target at a time, however many there are, and whatever times out or dies.
THEOREM MutualExclusion == Spec => []ExclusiveSections
<1>1. LockInv => ExclusiveSections
  <2> SUFFICES ASSUME LockInv, NEW p \in Procs, NEW q \in Procs, p # q
               PROVE  /\ Locks(p) \cap Locks(q) = {}
                      /\ At(p, "grant") /\ At(q, "grant") => job[p].tgt # job[q].tgt
    BY DEF ExclusiveSections
  <2>1. HoldsLocks(p) /\ HoldsLocks(q)
    BY DEF LockInv
  <2> QED BY <2>1 DEF HoldsLocks
<1> QED BY <1>1, LockInvariant, PTL

-----------------------------------------------------------------------------
\* What is recorded on an owned target is the priority of its owner, or nothing.
OwnersPriority ==
    \A t \in Targets : owner[t] # NoAlloc => oprio[t] \in {-1, Prio[owner[t]]}

\* From the decision to the grant the target is its owner's or nobody's, and the
\* waiter outranks that owner.
Outranks(p) ==
    \/ job[p].prev = NoAlloc
    \/ Prio[job[p].got] < Prio[job[p].prev]
    \/ oprio[job[p].tgt] = -1 /\ Prio[job[p].got] < 500

Decided(p) ==
    At(p, "grant") => owner[job[p].tgt] \in {job[p].prev, NoAlloc} /\ Outranks(p)

GrantInv == OwnersPriority /\ \A p \in Procs : Decided(p)

\* A target changes hands in a grant only: any other step may free it or forget
\* its priority, and that is all.
Undisturbed(t) ==
    /\ owner'[t] \in {owner[t], NoAlloc}
    /\ oprio'[t] \in {oprio[t], -1}

\* The step that hands t over.
Granting(p, t) == Grant(p) /\ job[p].tgt = t

\* No other step of a handler gives a target to somebody or records a priority.
LEMMA OnlyGrantsDisturb ==
    ASSUME TypeInv, NEW p \in Procs, Step(p), NEW t \in Targets
    PROVE  Undisturbed(t) \/ Granting(p, t)
<1> USE DEF TypeInv
<1>0. job[p] \in Job /\ Placed(job[p])
  BY DEF JobTyped
<1>1. CASE ReqStamp(p) \/ ReqPublish(p) \/ ReqEnqueue(p) \/ ReqRun(p)
           \/ ReqResult(p) \/ RunLoad(p) \/ RunDone(p) \/ CalcLock(p)
           \/ CalcRead(p) \/ CalcCounted(p) \/ CalcActivate(p) \/ CalcWait(p)
           \/ ExtrasDone(p)
  <2>1. UNCHANGED <<owner, oprio>>
    BY <1>1
       DEF ReqStamp, ReqPublish, ReqEnqueue, ReqRun, ReqResult, RunLoad, RunDone,
           CalcLock, CalcRead, CalcCounted, CalcActivate, CalcWait, ExtrasDone,
           ownership
  <2> QED BY <2>1 DEF Undisturbed
<1>2. CASE DelActive(p) \/ DelOther(p) \/ DelCheck(p) \/ DelUnlock(p)
           \/ DelRemove(p) \/ MaintVisit(p) \/ MaintRun(p) \/ RecordGone(p)
           \/ LockTimeout(p) \/ DelTimeout(p)
  <2>1. UNCHANGED <<owner, oprio>>
    BY <1>2
       DEF DelActive, DelOther, DelCheck, DelUnlock, DelRemove, MaintVisit,
           MaintRun, RecordGone, LockTimeout, DelTimeout, ownership
  <2> QED BY <2>1 DEF Undisturbed
<1>3. CASE RunSkip(p) \/ RunTake(p)
  BY <1>0, <1>3
     DEF RunSkip, RunTake, WipeOrphan, ValidOwner, Undisturbed, OwnershipTyped
<1>4. CASE Grant(p)
  BY <1>4 DEF Grant, Granting, Undisturbed, OwnershipTyped
<1>5. CASE GrantFails(p)
  BY <1>5 DEF GrantFails, Undisturbed, OwnershipTyped
<1>6. CASE ReleaseExtra(p)
  BY <1>6 DEF ReleaseExtra, Undisturbed, OwnershipTyped
<1>7. CASE DelWipeId(p)
  BY <1>7 DEF DelWipeId, Undisturbed, OwnershipTyped
<1>8. CASE DelWipeMeta(p)
  BY <1>8 DEF DelWipeMeta, Undisturbed, OwnershipTyped
<1> QED BY <1>1, <1>2, <1>3, <1>4, <1>5, <1>6, <1>7, <1>8 DEF Step

\* The recorded priority follows the owner.
LEMMA UndisturbedPriority ==
    ASSUME OwnersPriority, NEW t \in Targets, Undisturbed(t)
    PROVE  owner'[t] # NoAlloc => oprio'[t] \in {-1, Prio[owner'[t]]}
BY DEF OwnersPriority, Undisturbed

\* A grant records the new owner with the priority of its own request.
LEMMA GrantedPriority ==
    ASSUME TypeInv, NEW p \in Procs, NEW t \in Targets, Granting(p, t)
    PROVE  owner'[t] = job[p].got /\ oprio'[t] = Prio[job[p].got]
BY DEF TypeInv, OwnershipTyped, Granting, Grant, Recorded

\* What a process decided stands as long as it holds the target's lock.
LEMMA UndisturbedDecision ==
    ASSUME TypeInv, NEW q \in Procs, Decided(q), job'[q] = job[q],
           At(q, "grant") => Undisturbed(job[q].tgt)
    PROVE  Decided(q)'
BY DEF Decided, Outranks, At, Undisturbed

\* The first waiter of the queue is chosen when it outranks the owner.
LEMMA TakeDecides ==
    ASSUME TypeInv, OwnersPriority, NEW p \in Procs, RunTake(p)
    PROVE  Decided(p)'
<1> DEFINE t == job[p].tgt
<1>0. job[p] \in Job /\ t \in Targets
  BY DEF TypeInv, JobTyped, RunTake, At, Placed
<1>1. PICK w \in ValidWaiters(p) :
         MayTake(p, w) /\ Goto(p, [job[p] EXCEPT !.pc = "grant", !.got = w,
                                                 !.prev = ValidOwner(t)])
  BY DEF RunTake
<1>2. job'[p].got = w /\ job'[p].prev = ValidOwner(t) /\ job'[p].tgt = t
  <2>1. job'[p] = [job[p] EXCEPT !.pc = "grant", !.got = w, !.prev = ValidOwner(t)]
    BY <1>1, GotoSelf DEF TypeInv
  <2> QED BY <1>0, <2>1 DEF Job
<1>3. owner'[t] = ValidOwner(t)
  BY <1>0 DEF RunTake, WipeOrphan, TypeInv, OwnershipTyped
<1>4. w \in Allocs /\ Prio[w] \in Nat
  BY <1>0, RequestsAssumption DEF ValidWaiters, Job
<1>5. CASE ValidOwner(t) = NoAlloc
  BY <1>2, <1>3, <1>5 DEF Decided, Outranks
<1>6. CASE ValidOwner(t) # NoAlloc
  <2>1. owner[t] = ValidOwner(t) /\ oprio'[t] = oprio[t]
    BY <1>0, <1>6 DEF ValidOwner, RunTake, WipeOrphan, TypeInv, OwnershipTyped
  <2>2. PriorityOf(t) > Prio[w]
    BY <1>1, <1>6 DEF MayTake
  <2>3. oprio[t] \in {-1, Prio[owner[t]]}
    BY <1>0, <1>6, <2>1 DEF OwnersPriority
  <2>4. Prio[w] < Prio[owner[t]] \/ (oprio[t] = -1 /\ Prio[w] < 500)
    BY <2>2, <2>3, <1>4 DEF PriorityOf
  <2> QED BY <1>2, <1>3, <2>1, <2>4 DEF Decided, Outranks
<1> QED BY <1>5, <1>6

\* A step of a handler keeps decisions and priorities right.
LEMMA GrantKept ==
    ASSUME TypeInv, LockInv, GrantInv, NEW p \in Procs, Step(p)
    PROVE  GrantInv'
<1>1. OwnersPriority'
  <2> SUFFICES ASSUME NEW t \in Targets
               PROVE  owner'[t] # NoAlloc => oprio'[t] \in {-1, Prio[owner'[t]]}
    BY DEF OwnersPriority
  <2> QED BY OnlyGrantsDisturb, UndisturbedPriority, GrantedPriority DEF GrantInv
<1>2. ASSUME NEW q \in Procs PROVE Decided(q)'
  <2>1. CASE p = q
    BY <2>1, SelfHolds, TakeDecides DEF GrantInv, Decided
  <2>2. CASE p # q
    <3>1. job'[q] = job[q]
      BY <2>2, OthersUnharmed DEF Unharmed
    <3>2. ASSUME At(q, "grant") PROVE Undisturbed(job[q].tgt)
      <4>1. job[q].tgt \in Targets
        BY <3>2 DEF TypeInv, JobTyped, Placed, At
      <4>2. ~Granting(p, job[q].tgt)
        BY <2>2, <3>2 DEF LockInv, HoldsLocks, Granting, Grant
      <4> QED BY <4>1, <4>2, OnlyGrantsDisturb
    <3> QED BY <3>1, <3>2, UndisturbedDecision DEF GrantInv
  <2> QED BY <2>1, <2>2
<1> QED BY <1>1, <1>2 DEF GrantInv

\* So does a crash, a new request, or a target that is given back.
LEMMA GrantStep == TypeInv /\ LockInv /\ GrantInv /\ [Next]_vars => GrantInv'
<1> SUFFICES ASSUME TypeInv, LockInv, GrantInv, [Next]_vars PROVE GrantInv'
  OBVIOUS
<1>1. ASSUME NEW p \in Procs, Step(p) PROVE GrantInv'
  BY <1>1, GrantKept
<1>2. ASSUME UNCHANGED <<owner, oprio>>, NEW p \in Procs, NEW j, Goto(p, j),
             j.pc # "grant"
      PROVE  GrantInv'
  <2>1. ASSUME NEW q \in Procs PROVE Decided(q)'
    <3>1. CASE p = q
      BY <1>2, <3>1, GotoSelf DEF TypeInv, Decided, At
    <3>2. CASE p # q
      BY <1>2, <3>2, GotoOthers, UndisturbedDecision
         DEF TypeInv, GrantInv, Undisturbed
    <3> QED BY <3>1, <3>2
  <2> QED BY <1>2, <2>1 DEF GrantInv, OwnersPriority
<1>3. ASSUME NEW p \in Procs, Crash(p) PROVE GrantInv'
  BY <1>2, <1>3 DEF Crash, Unwind, ownership, Idle
<1>4. ASSUME NEW p \in Workers, NEW a \in Allocs, Request(p, a) PROVE GrantInv'
  <2> DEFINE j == [job[p] EXCEPT !.pc = "stamp", !.cur = a]
  <2>1. p \in Procs /\ j.pc # "grant"
    BY DEF Procs, TypeInv, JobTyped, Job
  <2>2. Goto(p, j) /\ UNCHANGED <<owner, oprio>>
    BY <1>4 DEF Request, ownership
  <2> HIDE DEF j
  <2> QED BY <1>2, <2>1, <2>2
<1>5. ASSUME NEW p \in Workers, NEW a \in Allocs, ClientDelete(p, a) PROVE GrantInv'
  <2> DEFINE j == [job[p] EXCEPT !.pc = "del_lock", !.cur = a]
  <2>1. p \in Procs /\ j.pc # "grant"
    BY DEF Procs, TypeInv, JobTyped, Job
  <2>2. Goto(p, j) /\ UNCHANGED <<owner, oprio>>
    BY <1>5 DEF ClientDelete, ownership
  <2> HIDE DEF j
  <2> QED BY <1>2, <2>1, <2>2
<1>6. ASSUME MaintStart(Cleaner) PROVE GrantInv'
  <2> DEFINE j == [job[Cleaner] EXCEPT !.pc = "scan", !.scan = {a \in Allocs : Live(a)}]
  <2>1. Cleaner \in Procs /\ j.pc # "grant"
    BY DEF Procs, TypeInv, JobTyped, Job
  <2>2. Goto(Cleaner, j) /\ UNCHANGED <<owner, oprio>>
    BY <1>6 DEF MaintStart, ownership
  <2> HIDE DEF j
  <2> QED BY <1>2, <2>1, <2>2
<1>7. ASSUME UNCHANGED job,
             \A t \in Targets : Undisturbed(t)
      PROVE  GrantInv'
  <2>1. OwnersPriority'
    BY <1>7, UndisturbedPriority DEF GrantInv, OwnersPriority
  <2>2. ASSUME NEW q \in Procs PROVE Decided(q)'
    <3>1. At(q, "grant") => job[q].tgt \in Targets
      BY DEF TypeInv, JobTyped, Placed, At
    <3> QED BY <1>7, <3>1, UndisturbedDecision DEF GrantInv
  <2> QED BY <2>1, <2>2 DEF GrantInv
<1>8. ASSUME NEW p \in Workers, NEW r \in Targets, NEW forced \in BOOLEAN,
             Release(p, r, forced)
      PROVE  GrantInv'
  BY <1>7, <1>8 DEF Release, Undisturbed, TypeInv, OwnershipTyped
<1>9. ASSUME NEW p \in Workers, NEW a \in Allocs, Query(p, a) PROVE GrantInv'
  BY <1>7, <1>9 DEF Query, Undisturbed, ownership
<1>10. ASSUME UNCHANGED vars PROVE GrantInv'
  BY <1>7, <1>10 DEF vars, Undisturbed
<1>11. ASSUME NEW p \in Workers, NEW r \in Targets, OwnerCheck(p, r) PROVE GrantInv'
  BY <1>7, <1>11
     DEF OwnerCheck, WipeOrphan, ValidOwner, Undisturbed, TypeInv, OwnershipTyped
<1> QED
  BY <1>1, <1>3, <1>4, <1>5, <1>6, <1>8, <1>9, <1>10, <1>11 DEF Next

\* Targets start free.
LEMMA GrantInit == Init => GrantInv
BY DEF Init, GrantInv, OwnersPriority, Decided, At, Idle

\* Priorities follow owners, and decisions taken on a target's lock stand until
\* the grant.
THEOREM GrantInvariant == Spec => []GrantInv
<1> QED BY TypeInvariant, LockInvariant, GrantInit, GrantStep, PTL DEF Spec

\* An allocation loses a target to a more urgent one only (or, when no priority
\* was recorded, to one below the 500 assumed): the decision made on a queue read
\* before the lock is still right at the grant, whoever else ran in between.
THEOREM EvictionOrder == Spec => EvictsLessUrgent
<1> DEFINE Fair(t, a, b) ==
      Evicted(t, a, b) => Prio[b] < Prio[a] \/ (oprio[t] = -1 /\ Prio[b] < 500)
<1>1. TypeInv /\ GrantInv /\ [Next]_vars
      => [\A t \in Targets, a, b \in Allocs : Fair(t, a, b)]_vars
  <2> SUFFICES ASSUME TypeInv, GrantInv, Next, NEW t \in Targets,
                      NEW a \in Allocs, NEW b \in Allocs, Evicted(t, a, b)
               PROVE  Prio[b] < Prio[a] \/ (oprio[t] = -1 /\ Prio[b] < 500)
    OBVIOUS
  <2>1. ~Undisturbed(t)
    BY DEF Evicted, Undisturbed
  <2>2. ASSUME NEW p \in Procs, Step(p)
        PROVE  Prio[b] < Prio[a] \/ (oprio[t] = -1 /\ Prio[b] < 500)
    <3>1. Granting(p, t)
      BY <2>1, <2>2, OnlyGrantsDisturb
    <3>2. owner'[t] = job[p].got /\ b = job[p].got
      BY <3>1, GrantedPriority DEF Evicted
    <3>3. a = job[p].prev /\ Outranks(p)
      BY <3>1 DEF GrantInv, Decided, Granting, Grant, Evicted
    <3> QED BY <3>1, <3>2, <3>3 DEF Outranks, Granting, Evicted
  <2>3. ASSUME NEW p \in Procs, Crash(p) PROVE FALSE
    BY <2>1, <2>3 DEF Crash, ownership, Undisturbed
  <2>4. ASSUME NEW p \in Workers, NEW c \in Allocs, Query(p, c) PROVE FALSE
    BY <2>1, <2>4 DEF Query, ownership, Undisturbed
  <2>5. ASSUME NEW p \in Workers, NEW c \in Allocs, Request(p, c) \/ ClientDelete(p, c)
        PROVE  FALSE
    BY <2>1, <2>5 DEF Request, ClientDelete, ownership, Undisturbed
  <2>6. ASSUME NEW p \in Workers, NEW r \in Targets, NEW forced \in BOOLEAN,
               Release(p, r, forced)
        PROVE  FALSE
    BY <2>1, <2>6 DEF Release, Undisturbed, TypeInv, OwnershipTyped
  <2>7. ASSUME MaintStart(Cleaner) PROVE FALSE
    BY <2>1, <2>7 DEF MaintStart, ownership, Undisturbed
  <2>8. ASSUME NEW p \in Workers, NEW r \in Targets, OwnerCheck(p, r) PROVE FALSE
    BY <2>1, <2>8
       DEF OwnerCheck, WipeOrphan, ValidOwner, Undisturbed, TypeInv, OwnershipTyped
  <2> QED BY <2>2, <2>3, <2>4, <2>5, <2>6, <2>7, <2>8 DEF Next
<1> QED BY <1>1, TypeInvariant, GrantInvariant, PTL DEF Spec, EvictsLessUrgent

-----------------------------------------------------------------------------
\* The step a process takes when it is its turn, inside of a handler or not.
Turn(p) ==
    \/ Step(p) \/ Crash(p) \/ MaintStart(p)
    \/ p \in Workers /\ \E a \in Allocs : Request(p, a) \/ Query(p, a) \/ ClientDelete(p, a)
    \/ \E t \in Targets : OwnerCheck(p, t) \/ \E forced \in BOOLEAN : Release(p, t, forced)

\* Whatever happens is the turn of a process.
LEMMA Turns ==
    ASSUME [Next]_vars
    PROVE  UNCHANGED vars \/ \E p \in Procs : Turn(p)
BY DEF Next, Turn, Procs

\* The others stay where they are, with their locks.
LEMMA TurnOthers ==
    ASSUME TypeInv, LockInv, NEW p \in Procs, Turn(p), NEW q \in Procs, q # p
    PROVE  job'[q] = job[q]
<1>1. CASE Step(p)
  BY <1>1, OthersUnharmed DEF Unharmed
<1>2. CASE Crash(p) \/ MaintStart(p)
  BY <1>2, GotoOthers DEF Crash, Unwind, MaintStart, TypeInv
<1>3. ASSUME NEW a \in Allocs, Request(p, a) \/ Query(p, a) \/ ClientDelete(p, a)
      PROVE  job'[q] = job[q]
  BY <1>3, GotoOthers DEF Request, Query, ClientDelete, TypeInv
<1>4. ASSUME NEW t \in Targets, OwnerCheck(p, t) PROVE job'[q] = job[q]
  BY <1>4 DEF OwnerCheck
<1>5. ASSUME NEW t \in Targets, NEW forced \in BOOLEAN, Release(p, t, forced)
      PROVE  job'[q] = job[q]
  BY <1>5 DEF Release
<1> QED BY <1>1, <1>2, <1>3, <1>4, <1>5 DEF Turn

\* Where a handler holds nothing that matters to others.
Rest == {"idle", "run", "result", "scan"}

\* Steps that end what a process was doing with a target or an allocation.
Ends(p) ==
    \/ ReqRun(p) \/ RunDone(p) \/ RunSkip(p) \/ GrantFails(p) \/ CalcWait(p)
    \/ ExtrasDone(p) \/ DelRemove(p) \/ MaintRun(p) \/ RecordGone(p)
    \/ LockTimeout(p) \/ DelTimeout(p) \/ Crash(p) \/ MaintStart(p)

\* After them it rests, or goes on to answer the request it ran the scheduler for.
LEMMA EndsRest ==
    ASSUME TypeInv, NEW p \in Procs, Ends(p)
    PROVE  job'[p].pc \in Rest /\ (job'[p].pc = "result" => job[p].cont = "result")
<1>0. job[p] \in Job /\ JobTyped
  BY DEF TypeInv, JobTyped
<1>1. CASE ReqRun(p)
  <2>1. job'[p] = [job[p] EXCEPT !.pc = "run", !.cont = "result",
                                 !.todo = TargetsOf(job[p].cur)]
    BY <1>0, <1>1, GotoSelf DEF ReqRun
  <2>2. job'[p].pc = "run"
    BY <1>0, <2>1 DEF Job
  <2> QED BY <2>2 DEF Rest
<1>2. CASE RunDone(p)
  <2>1. \/ job'[p] = Idle
        \/ job[p].cont = "result" /\ job'[p] = [job[p] EXCEPT !.pc = "result"]
        \/ job'[p] = [job[p] EXCEPT !.pc = "scan", !.cur = NoAlloc, !.cont = "idle"]
    BY <1>0, <1>2, GotoSelf DEF RunDone, Job
  <2>2. CASE job'[p] = Idle
    BY <2>2 DEF Idle, Rest
  <2>3. CASE job[p].cont = "result" /\ job'[p] = [job[p] EXCEPT !.pc = "result"]
    BY <1>0, <2>3 DEF Job, Rest
  <2>4. CASE job'[p] = [job[p] EXCEPT !.pc = "scan", !.cur = NoAlloc, !.cont = "idle"]
    BY <1>0, <2>4 DEF Job, Rest
  <2> QED BY <2>1, <2>2, <2>3, <2>4
<1>3. CASE RunSkip(p) \/ CalcWait(p) \/ ExtrasDone(p)
  <2>1. job'[p] = NextTarget(p)
    BY <1>0, <1>3, GotoSelf DEF RunSkip, CalcWait, ExtrasDone
  <2>2. job'[p].pc = "run"
    BY <1>0, <2>1, NextTargetTyped
  <2> QED BY <2>2 DEF Rest
<1>4. CASE GrantFails(p) \/ RecordGone(p) \/ LockTimeout(p) \/ DelTimeout(p) \/ Crash(p)
  <2>1. Goto(p, Idle)
    BY <1>4 DEF GrantFails, RecordGone, LockTimeout, DelTimeout, Crash, Unwind
  <2> QED BY <1>0, <2>1, GotoSelf DEF Idle, Rest
<1>5. CASE DelRemove(p)
  BY <1>0, <1>5, GotoSelf DEF DelRemove, Job, Rest
<1>6. CASE MaintRun(p)
  BY <1>0, <1>6, GotoSelf DEF MaintRun, Job, Rest
<1>7. CASE MaintStart(p)
  BY <1>0, <1>7, GotoSelf DEF MaintStart, Job, Rest
<1> QED BY <1>1, <1>2, <1>3, <1>4, <1>5, <1>6, <1>7 DEF Ends

\* A request goes on with its allocation.
LEMMA RequestMoves ==
    ASSUME TypeInv, NEW p \in Procs
    PROVE  /\ \A a \in Allocs : Request(p, a) => job'[p].pc = "stamp" /\ job'[p].cur = a
           /\ ReqStamp(p) => /\ job[p].pc = "stamp" /\ job'[p].pc = "publish"
                             /\ job'[p].cur = job[p].cur /\ job[p].cur \in Allocs
           /\ ReqPublish(p) => /\ job[p].pc = "publish" /\ job'[p].pc = "enqueue"
                               /\ job'[p].cur = job[p].cur /\ job[p].cur \in Allocs
                               /\ job'[p].todo = TargetsOf(job[p].cur)
           /\ ReqResult(p) => \/ job'[p].pc = "idle"
                              \/ /\ job'[p].pc = "del_lock" /\ Live(job[p].cur)
                                 /\ job'[p].cur = job[p].cur /\ job[p].cur \in Allocs
                                 /\ ~Queue[job[p].cur]
<1>0. job[p] \in Job /\ Placed(job[p]) /\ JobTyped
  BY DEF TypeInv, JobTyped
<1>1. ASSUME NEW a \in Allocs, Request(p, a)
      PROVE  job'[p].pc = "stamp" /\ job'[p].cur = a
  BY <1>0, <1>1, GotoSelf DEF Request, Job
<1>2. ASSUME ReqStamp(p)
      PROVE  /\ job[p].pc = "stamp" /\ job'[p].pc = "publish"
             /\ job'[p].cur = job[p].cur /\ job[p].cur \in Allocs
  BY <1>0, <1>2, GotoSelf DEF ReqStamp, Job, At, Placed
<1>3. ASSUME ReqPublish(p)
      PROVE  /\ job[p].pc = "publish" /\ job'[p].pc = "enqueue"
             /\ job'[p].cur = job[p].cur /\ job[p].cur \in Allocs
             /\ job'[p].todo = TargetsOf(job[p].cur)
  BY <1>0, <1>3, GotoSelf DEF ReqPublish, Job, At, Placed
<1>4. ASSUME ReqResult(p), job'[p].pc # "idle"
      PROVE  /\ job'[p].pc = "del_lock" /\ Live(job[p].cur)
             /\ job'[p].cur = job[p].cur /\ job[p].cur \in Allocs
             /\ ~Queue[job[p].cur]
  <2>1. job[p].pc = "result" /\ Live(job[p].cur)
    BY <1>4 DEF ReqResult, At
  <2>2. /\ job'[p] = [job[p] EXCEPT !.pc = "del_lock", !.cont = "idle"]
        /\ ~Queue[job[p].cur]
    BY <1>0, <1>4, GotoSelf DEF ReqResult, Idle
  <2> QED BY <1>0, <2>1, <2>2 DEF Job, Placed
<1> QED BY <1>1, <1>2, <1>3, <1>4

\* It queues the allocation on one target at a time.
LEMMA EnqueueMoves ==
    ASSUME TypeInv, NEW p \in Procs, ReqEnqueue(p)
    PROVE  /\ job[p].pc = "enqueue" /\ job'[p].pc = "enqueue"
           /\ job'[p].cur = job[p].cur /\ job[p].cur \in Allocs
           /\ \E t \in job[p].todo : /\ job'[p].todo = job[p].todo \ {t}
                                     /\ queue' = [queue EXCEPT ![t] = @ \cup {job[p].cur}]
<1>0. job[p] \in Job /\ Placed(job[p]) /\ JobTyped
  BY DEF TypeInv, JobTyped
<1>1. PICK t \in job[p].todo : /\ queue' = [queue EXCEPT ![t] = @ \cup {job[p].cur}]
                               /\ job'[p] = [job[p] EXCEPT !.todo = @ \ {t}]
  BY <1>0, GotoSelf DEF ReqEnqueue
<1> QED BY <1>0, <1>1 DEF ReqEnqueue, Job, At, Placed

\* The scheduler has a target and what was in its queue; then a waiter and the
\* owner it found; then the waiter's allocation to compute.
LEMMA RunMoves ==
    ASSUME TypeInv, NEW p \in Procs
    PROVE  /\ RunLoad(p) => /\ job'[p].pc = "run_lock" /\ job'[p].tgt \in Targets
                            /\ job'[p].wq = queue[job'[p].tgt]
           /\ RunTake(p) => /\ job[p].pc = "run_lock" /\ job'[p].pc = "grant"
                            /\ job'[p].tgt = job[p].tgt /\ job[p].tgt \in Targets
                            /\ job'[p].prev = ValidOwner(job[p].tgt)
                            /\ job'[p].got \in ValidWaiters(p) /\ job'[p].got \in Allocs
                            /\ FirstWaiter(p, job'[p].got) /\ MayTake(p, job'[p].got)
           /\ Grant(p) => /\ job[p].pc = "grant" /\ job'[p].pc = "calc_lock"
                          /\ job'[p].got = job[p].got /\ job[p].got \in Allocs
                          /\ job[p].tgt \in Targets
<1>0. job[p] \in Job /\ Placed(job[p]) /\ JobTyped
  BY DEF TypeInv, JobTyped
<1>1. ASSUME RunLoad(p)
      PROVE  /\ job'[p].pc = "run_lock" /\ job'[p].tgt \in Targets
             /\ job'[p].wq = queue[job'[p].tgt]
  <2>1. PICK t \in job[p].todo :
               job'[p] = [job[p] EXCEPT !.pc = "run_lock", !.tgt = t, !.wq = queue[t]]
    BY <1>0, <1>1, GotoSelf DEF RunLoad
  <2> QED BY <1>0, <2>1 DEF Job
<1>2. ASSUME RunTake(p)
      PROVE  /\ job[p].pc = "run_lock" /\ job'[p].pc = "grant"
             /\ job'[p].tgt = job[p].tgt /\ job[p].tgt \in Targets
             /\ job'[p].prev = ValidOwner(job[p].tgt)
             /\ job'[p].got \in ValidWaiters(p) /\ job'[p].got \in Allocs
             /\ FirstWaiter(p, job'[p].got) /\ MayTake(p, job'[p].got)
  <2>1. PICK w \in ValidWaiters(p) :
               /\ FirstWaiter(p, w) /\ MayTake(p, w)
               /\ job'[p] = [job[p] EXCEPT !.pc = "grant", !.got = w,
                                        !.prev = ValidOwner(job[p].tgt)]
    BY <1>0, <1>2, GotoSelf DEF RunTake
  <2>2. w \in Allocs
    BY <1>0 DEF ValidWaiters, Job
  <2>3. job[p].pc = "run_lock" /\ job[p].tgt \in Targets
    BY <1>0, <1>2 DEF RunTake, At, Placed
  <2>4. /\ job'[p].pc = "grant" /\ job'[p].tgt = job[p].tgt /\ job'[p].got = w
        /\ job'[p].prev = ValidOwner(job[p].tgt)
    BY <1>0, <2>1 DEF Job
  <2> QED BY <2>1, <2>2, <2>3, <2>4
<1>3. ASSUME Grant(p)
      PROVE  /\ job[p].pc = "grant" /\ job'[p].pc = "calc_lock"
             /\ job'[p].got = job[p].got /\ job[p].got \in Allocs
             /\ job[p].tgt \in Targets
  BY <1>0, <1>3, GotoSelf DEF Grant, Job, At, Placed
<1> QED BY <1>1, <1>2, <1>3

\* What it counted of an allocation decides whether it is active, and what is left
\* to give back.
LEMMA CalcMoves ==
    ASSUME TypeInv, NEW p \in Procs
    PROVE  /\ CalcLock(p) => /\ job[p].pc = "calc_lock" /\ job'[p].pc = "calc_read"
                             /\ job'[p].got = job[p].got /\ job[p].got \in Allocs
                             /\ job'[p].left = Counted(p) /\ job'[p].held = job[p].held
           /\ CalcCounted(p) => /\ job[p].pc = "calc_read" /\ job'[p].pc = "calc_write"
                                /\ job'[p].got = job[p].got /\ job[p].got \in Allocs
                                /\ job'[p].held = job[p].held
                                /\ job[p].left = {} /\ job'[p].left = {}
           /\ CalcRead(p) => /\ job[p].pc = "calc_read" /\ job'[p].pc = "calc_read"
                             /\ job'[p].got = job[p].got /\ job[p].got \in Allocs
                             /\ \E t \in job[p].left :
                                  /\ job'[p].left = job[p].left \ {t}
                                  /\ job'[p].held = IF owner[t] = job[p].got
                                                    THEN job[p].held \cup {t} ELSE job[p].held
           /\ ReleaseExtra(p) => /\ job[p].pc = "extras" /\ job'[p].pc = "extras"
                                 /\ job'[p].got = job[p].got /\ job[p].got \in Allocs
                                 /\ job'[p].left \subseteq job[p].left
<1>0. job[p] \in Job /\ Placed(job[p]) /\ JobTyped
  BY DEF TypeInv, JobTyped
<1>1. ASSUME CalcLock(p)
      PROVE  /\ job[p].pc = "calc_lock" /\ job'[p].pc = "calc_read"
             /\ job'[p].got = job[p].got /\ job[p].got \in Allocs
             /\ job'[p].left = Counted(p) /\ job'[p].held = job[p].held
  <2>1. job'[p] = [job[p] EXCEPT !.pc = "calc_read", !.left = Counted(p)]
    BY <1>0, <1>1, GotoSelf DEF CalcLock
  <2> QED BY <1>0, <1>1, <2>1 DEF CalcLock, Job, At, Placed
<1>2. ASSUME CalcCounted(p)
      PROVE  /\ job[p].pc = "calc_read" /\ job'[p].pc = "calc_write"
             /\ job'[p].got = job[p].got /\ job[p].got \in Allocs
             /\ job'[p].held = job[p].held
             /\ job[p].left = {} /\ job'[p].left = {}
  BY <1>0, <1>2, GotoSelf DEF CalcCounted, Job, At, Placed
<1>3. ASSUME CalcRead(p)
      PROVE  /\ job[p].pc = "calc_read" /\ job'[p].pc = "calc_read"
             /\ job'[p].got = job[p].got /\ job[p].got \in Allocs
             /\ \E t \in job[p].left :
                  /\ job'[p].left = job[p].left \ {t}
                  /\ job'[p].held = IF owner[t] = job[p].got
                                    THEN job[p].held \cup {t} ELSE job[p].held
  <2>1. PICK t \in job[p].left :
               job'[p] = [job[p] EXCEPT !.left = @ \ {t},
                  !.held = IF owner[t] = job[p].got THEN @ \cup {t} ELSE @]
    BY <1>0, <1>3, GotoSelf DEF CalcRead
  <2> QED BY <1>0, <1>3, <2>1 DEF CalcRead, Job, At, Placed
<1>4. ASSUME ReleaseExtra(p)
      PROVE  /\ job[p].pc = "extras" /\ job'[p].pc = "extras"
             /\ job'[p].got = job[p].got /\ job[p].got \in Allocs
             /\ job'[p].left \subseteq job[p].left
  <2>1. PICK t \in job[p].left : job'[p] = [job[p] EXCEPT !.left = @ \ {t}]
    BY <1>0, <1>4, GotoSelf DEF ReleaseExtra
  <2> QED BY <1>0, <1>4, <2>1 DEF ReleaseExtra, Job, At, Placed
<1> QED BY <1>1, <1>2, <1>3, <1>4

\* An allocation is activated with its first group among those counted.
LEMMA ActivateMoves ==
    ASSUME TypeInv, NEW p \in Procs, CalcActivate(p)
    PROVE  /\ job[p].pc = "calc_write" /\ job'[p].pc = "extras"
           /\ job'[p].got = job[p].got /\ job[p].got \in Allocs
           /\ \E i \in DOMAIN Groups[job[p].got] :
                /\ FirstComplete(job[p].got, i, job[p].held)
                /\ group' = [group EXCEPT ![job[p].got] = Groups[job[p].got][i]]
                /\ job'[p].left = job[p].held \ Groups[job[p].got][i]
<1>0. job[p] \in Job /\ Placed(job[p]) /\ JobTyped
  BY DEF TypeInv, JobTyped
<1>1. PICK i \in DOMAIN Groups[job[p].got] :
             /\ FirstComplete(job[p].got, i, job[p].held)
             /\ group' = [group EXCEPT ![job[p].got] = Groups[job[p].got][i]]
             /\ job'[p] = [job[p] EXCEPT !.pc = "extras", !.held = {},
                                      !.left = job[p].held \ Groups[job[p].got][i]]
  BY <1>0, GotoSelf DEF CalcActivate
<1>2. /\ job'[p].pc = "extras" /\ job'[p].got = job[p].got
      /\ job'[p].left = job[p].held \ Groups[job[p].got][i]
  BY <1>0, <1>1 DEF Job
<1>3. job[p].pc = "calc_write" /\ job[p].got \in Allocs
  BY <1>0 DEF CalcActivate, At, Placed
<1> QED BY <1>1, <1>2, <1>3

\* The places of delete().
Removal == {"del_lock", "del_check", "del_id", "del_meta", "del_rm"}
Removes(p) == job[p].pc \in Removal

\* A removal starts on a record that is there...
LEMMA RemovalStarts ==
    ASSUME TypeInv, NEW p \in Procs
    PROVE  /\ \A a \in Allocs : ClientDelete(p, a) =>
                job'[p].pc = "del_lock" /\ job'[p].cur = a /\ Live(a) /\ p \in Removers
           /\ MaintVisit(p) => \/ job'[p].pc = "scan"
                               \/ /\ job'[p].pc = "del_lock" /\ p \in Removers
                                  /\ job'[p].cur \in Allocs /\ Live(job'[p].cur)
<1>0. job[p] \in Job /\ Placed(job[p]) /\ JobTyped
  BY DEF TypeInv, JobTyped
<1>1. ASSUME NEW a \in Allocs, ClientDelete(p, a)
      PROVE  job'[p].pc = "del_lock" /\ job'[p].cur = a /\ Live(a) /\ p \in Removers
  BY <1>0, <1>1, GotoSelf DEF ClientDelete, Job, Published, Live, States
<1>2. ASSUME MaintVisit(p), job'[p].pc # "scan"
      PROVE  /\ job'[p].pc = "del_lock" /\ p \in Removers
             /\ job'[p].cur \in Allocs /\ Live(job'[p].cur)
  <2>1. PICK a \in job[p].scan :
               \/ job'[p] = [job[p] EXCEPT !.scan = @ \ {a}]
               \/ /\ Live(a) /\ p \in Removers
                  /\ job'[p] = [job[p] EXCEPT !.scan = @ \ {a}, !.pc = "del_lock",
                                          !.cur = a, !.cont = "scan"]
    BY <1>0, <1>2, GotoSelf DEF MaintVisit
  <2>2. job[p].pc = "scan" /\ a \in Allocs
    BY <1>0, <1>2 DEF MaintVisit, At, Job
  <2>3. job'[p] # [job[p] EXCEPT !.scan = @ \ {a}]
    BY <1>0, <1>2, <2>2 DEF Job
  <2> QED BY <1>0, <2>1, <2>2, <2>3 DEF Job
<1> QED BY <1>1, <1>2

\* ...and goes on with it, target after target.
LEMMA RemovalMoves ==
    ASSUME TypeInv, NEW p \in Procs
    PROVE  /\ DelActive(p) => /\ job[p].pc = "del_lock" /\ job'[p].pc = "del_check"
                              /\ job'[p].cur = job[p].cur /\ job[p].cur \in Allocs
                              /\ job'[p].left = group[job[p].cur]
           /\ DelOther(p) => /\ job[p].pc = "del_lock" /\ job'[p].pc = "del_rm"
                             /\ job'[p].cur = job[p].cur /\ job[p].cur \in Allocs
           /\ DelCheck(p) => /\ job[p].pc = "del_check"
                             /\ job'[p].cur = job[p].cur /\ job[p].cur \in Allocs
                             /\ \/ /\ job'[p].pc = "del_id" /\ job'[p].left = job[p].left
                                   /\ job'[p].tgt \in job[p].left
                                   /\ owner[job'[p].tgt] = job[p].cur
                                \/ /\ job'[p].pc = "del_check"
                                   /\ job'[p].left \subseteq job[p].left
           /\ DelWipeId(p) => /\ job[p].pc = "del_id" /\ job'[p].pc = "del_meta"
                              /\ job'[p].cur = job[p].cur /\ job[p].cur \in Allocs
                              /\ job'[p].tgt = job[p].tgt /\ job[p].tgt \in Targets
                              /\ job'[p].left = job[p].left
           /\ DelWipeMeta(p) => /\ job[p].pc = "del_meta" /\ job'[p].pc = "del_check"
                                /\ job'[p].cur = job[p].cur /\ job[p].cur \in Allocs
                                /\ job'[p].left \subseteq job[p].left
           /\ DelUnlock(p) => /\ job[p].pc = "del_check" /\ job'[p].pc = "del_rm"
                              /\ job'[p].cur = job[p].cur /\ job[p].cur \in Allocs
           /\ DelRemove(p) => job[p].pc = "del_rm" /\ job[p].cur \in Allocs
           /\ DelTimeout(p) => job[p].pc = "del_lock" /\ job[p].cur \in Allocs
<1>0. job[p] \in Job /\ Placed(job[p]) /\ JobTyped
  BY DEF TypeInv, JobTyped
<1>1. ASSUME DelActive(p)
      PROVE  /\ job[p].pc = "del_lock" /\ job'[p].pc = "del_check"
             /\ job'[p].cur = job[p].cur /\ job[p].cur \in Allocs
             /\ job'[p].left = group[job[p].cur]
  BY <1>0, <1>1, GotoSelf DEF DelActive, Job, At, Placed
<1>2. ASSUME DelOther(p)
      PROVE  /\ job[p].pc = "del_lock" /\ job'[p].pc = "del_rm"
             /\ job'[p].cur = job[p].cur /\ job[p].cur \in Allocs
  <2>1. job'[p] = [job[p] EXCEPT !.pc = "del_rm",
                 !.todo = IF job[p].cur \in stale[p] THEN {} ELSE TargetsOf(job[p].cur)]
    BY <1>0, <1>2, GotoSelf DEF DelOther
  <2>2. job'[p].pc = "del_rm" /\ job'[p].cur = job[p].cur
    BY <1>0, <2>1 DEF Job
  <2> QED BY <1>0, <1>2, <2>2 DEF DelOther, At, Placed
<1>3. ASSUME DelCheck(p)
      PROVE  /\ job[p].pc = "del_check"
             /\ job'[p].cur = job[p].cur /\ job[p].cur \in Allocs
             /\ \/ /\ job'[p].pc = "del_id" /\ job'[p].left = job[p].left
                   /\ job'[p].tgt \in job[p].left
                   /\ owner[job'[p].tgt] = job[p].cur
                \/ /\ job'[p].pc = "del_check"
                   /\ job'[p].left \subseteq job[p].left
  <2>1. PICK t \in job[p].left :
               \/ /\ owner[t] = job[p].cur
                  /\ job'[p] = [job[p] EXCEPT !.pc = "del_id", !.tgt = t]
               \/ job'[p] = [job[p] EXCEPT !.left = @ \ {t}]
    BY <1>0, <1>3, GotoSelf DEF DelCheck
  <2>2. job[p].pc = "del_check" /\ job[p].cur \in Allocs
    BY <1>0, <1>3 DEF DelCheck, At, Placed
  <2>3. CASE /\ owner[t] = job[p].cur
             /\ job'[p] = [job[p] EXCEPT !.pc = "del_id", !.tgt = t]
    BY <1>0, <2>2, <2>3 DEF Job
  <2>4. CASE job'[p] = [job[p] EXCEPT !.left = @ \ {t}]
    BY <1>0, <2>2, <2>4 DEF Job
  <2> QED BY <2>1, <2>3, <2>4
<1>4. ASSUME DelWipeId(p)
      PROVE  /\ job[p].pc = "del_id" /\ job'[p].pc = "del_meta"
             /\ job'[p].cur = job[p].cur /\ job[p].cur \in Allocs
             /\ job'[p].tgt = job[p].tgt /\ job[p].tgt \in Targets
             /\ job'[p].left = job[p].left
  BY <1>0, <1>4, GotoSelf DEF DelWipeId, Job, At, Placed
<1>5. ASSUME DelWipeMeta(p)
      PROVE  /\ job[p].pc = "del_meta" /\ job'[p].pc = "del_check"
             /\ job'[p].cur = job[p].cur /\ job[p].cur \in Allocs
             /\ job'[p].left \subseteq job[p].left
  <2>1. job'[p] = [job[p] EXCEPT !.pc = "del_check", !.tgt = NoTarget,
                                 !.left = @ \ {job[p].tgt}]
    BY <1>0, <1>5, GotoSelf DEF DelWipeMeta
  <2>2. /\ job'[p].pc = "del_check" /\ job'[p].cur = job[p].cur
        /\ job'[p].left \subseteq job[p].left
    BY <1>0, <2>1 DEF Job
  <2> QED BY <1>0, <1>5, <2>2 DEF DelWipeMeta, At, Placed
<1>6. ASSUME DelUnlock(p)
      PROVE  /\ job[p].pc = "del_check" /\ job'[p].pc = "del_rm"
             /\ job'[p].cur = job[p].cur /\ job[p].cur \in Allocs
  BY <1>0, <1>6, GotoSelf DEF DelUnlock, Job, At, Placed
<1>7. ASSUME DelRemove(p) PROVE job[p].pc = "del_rm" /\ job[p].cur \in Allocs
  BY <1>0, <1>7 DEF DelRemove, At, Placed
<1>8. ASSUME DelTimeout(p) PROVE job[p].pc = "del_lock" /\ job[p].cur \in Allocs
  BY <1>0, <1>8 DEF DelTimeout, At, Placed
<1> QED BY <1>1, <1>2, <1>3, <1>4, <1>5, <1>6, <1>7, <1>8

-----------------------------------------------------------------------------
\* Who loses a target to an administrator's release.
Forced(p, a) == \E t \in Targets : Release(p, t, TRUE) /\ owner[t] = a

\* The record of an allocation is written by the request that makes it, by who
\* computes it, evicts it or forces it to give a target back, and by who removes it.
LEMMA StateMoves ==
    ASSUME TypeInv, NEW p \in Procs, Turn(p), NEW a \in Allocs
    PROVE  \/ state'[a] = state[a]
           \/ Request(p, a) /\ p \in Workers /\ state[a] = "none" /\ state'[a] = "new"
           \/ ReqStamp(p) /\ job[p].cur = a /\ Live(a) /\ state'[a] = "stamped"
           \/ ReqPublish(p) /\ job[p].cur = a /\ Live(a) /\ state'[a] = "queued"
           \/ CalcActivate(p) /\ job[p].got = a /\ Live(a) /\ state'[a] = "active"
           \/ /\ (Grant(p) /\ job[p].prev = a /\ Evicts(p)) \/ Forced(p, a)
              /\ Live(a) /\ state'[a] = "restart-needed"
           \/ /\ DelRemove(p) \/ (DelTimeout(p) /\ Live(a))
              /\ job[p].cur = a /\ state'[a] = "gone"
<1>0. state \in [Allocs -> States]
  BY DEF TypeInv, RecordsTyped
<1>1. CASE UNCHANGED state
  BY <1>1
<1>2. CASE ReqStamp(p)
  BY <1>0, <1>2 DEF ReqStamp
<1>3. CASE ReqPublish(p)
  BY <1>0, <1>3 DEF ReqPublish
<1>4. CASE CalcActivate(p)
  BY <1>0, <1>4 DEF CalcActivate
<1>5. CASE Grant(p)
  BY <1>0, <1>5 DEF Grant
<1>6. CASE DelRemove(p) \/ DelTimeout(p)
  <2>1. /\ job[p].cur \in Allocs
        /\ state' = [state EXCEPT ![job[p].cur] = "gone"]
        /\ DelTimeout(p) => Live(job[p].cur)
    BY <1>6, RemovalMoves DEF DelRemove, DelTimeout
  <2>2. CASE job[p].cur = a
    BY <1>0, <1>6, <2>1, <2>2
  <2>3. CASE job[p].cur # a
    BY <1>0, <2>1, <2>3
  <2> QED BY <2>2, <2>3
<1>7. ASSUME p \in Workers, NEW b \in Allocs, Request(p, b)
      PROVE  \/ state'[a] = state[a]
             \/ Request(p, a) /\ p \in Workers /\ state[a] = "none" /\ state'[a] = "new"
  BY <1>0, <1>7 DEF Request
<1>8. ASSUME NEW t \in Targets, NEW forced \in BOOLEAN, Release(p, t, forced)
      PROVE  \/ state'[a] = state[a]
             \/ Forced(p, a) /\ Live(a) /\ state'[a] = "restart-needed"
  <2>1. CASE forced /\ Live(owner[t])
    <3>1. /\ state' = [state EXCEPT ![owner[t]] = "restart-needed"]
          /\ forced = TRUE
      BY <1>8, <2>1 DEF Release
    <3> QED BY <1>0, <1>8, <2>1, <3>1 DEF Forced
  <2>2. CASE ~(forced /\ Live(owner[t]))
    BY <1>8, <2>2 DEF Release
  <2> QED BY <2>1, <2>2
<1>9. CASE ReqEnqueue(p) \/ ReqRun(p) \/ ReqResult(p) \/ RunLoad(p) \/ RunDone(p)
           \/ RunSkip(p) \/ RunTake(p) \/ GrantFails(p) \/ CalcLock(p) \/ CalcRead(p)
           \/ CalcCounted(p) \/ CalcWait(p) \/ ReleaseExtra(p) \/ ExtrasDone(p)
  BY <1>1, <1>9
     DEF ReqEnqueue, ReqRun, ReqResult, RunLoad, RunDone, RunSkip, RunTake, GrantFails,
         CalcLock, CalcRead, CalcCounted, CalcWait, ReleaseExtra, ExtrasDone, records
<1>10. CASE DelActive(p) \/ DelOther(p) \/ DelCheck(p) \/ DelWipeId(p) \/ DelWipeMeta(p)
            \/ DelUnlock(p) \/ MaintVisit(p) \/ MaintRun(p) \/ RecordGone(p)
            \/ LockTimeout(p) \/ Crash(p) \/ MaintStart(p)
  BY <1>1, <1>10
     DEF DelActive, DelOther, DelCheck, DelWipeId, DelWipeMeta, DelUnlock, MaintVisit,
         MaintRun, RecordGone, LockTimeout, Crash, MaintStart, records
<1>11. ASSUME NEW b \in Allocs, Query(p, b) \/ ClientDelete(p, b) PROVE UNCHANGED state
  BY <1>11 DEF Query, ClientDelete, records
<1>12. ASSUME NEW t \in Targets, OwnerCheck(p, t) PROVE UNCHANGED state
  BY <1>12 DEF OwnerCheck, records
<1> QED
  BY <1>1, <1>2, <1>3, <1>4, <1>5, <1>6, <1>7, <1>8, <1>9, <1>10, <1>11, <1>12 DEF Turn, Step

\* An allocation gets into a queue when its request puts it there; it leaves when it
\* gets the target, or once it is removed.
LEMMA QueueMoves ==
    ASSUME TypeInv, NEW p \in Procs, Turn(p), NEW t \in Targets
    PROVE  \/ queue'[t] = queue[t]
           \/ ReqEnqueue(p) /\ t \in job[p].todo /\ queue'[t] = queue[t] \cup {job[p].cur}
           \/ Granting(p, t) /\ queue'[t] = queue[t] \ {job[p].got}
           \/ \E gone \in SUBSET Allocs : /\ \A a \in gone : ~Live(a)
                                          /\ queue'[t] = queue[t] \ gone
<1>0. queue \in [Targets -> SUBSET Allocs] /\ job[p] \in Job /\ Placed(job[p])
  BY DEF TypeInv, OwnershipTyped, JobTyped
<1>1. CASE UNCHANGED queue
  BY <1>1
<1>2. CASE ReqEnqueue(p)
  BY <1>0, <1>2 DEF ReqEnqueue
<1>3. CASE Grant(p)
  BY <1>0, <1>3 DEF Grant, Granting
<1>4. CASE RunSkip(p) \/ RunTake(p)
  <2>1. /\ DeadWaiters(p) \in SUBSET Allocs /\ \A a \in DeadWaiters(p) : ~Live(a)
        /\ queue' = [queue EXCEPT ![job[p].tgt] = @ \ DeadWaiters(p)]
    BY <1>0, <1>4 DEF RunSkip, RunTake, DeadWaiters, ValidWaiters, Job
  <2> HIDE DEF DeadWaiters
  <2> QED BY <1>0, <2>1
<1>5. CASE ReqStamp(p) \/ ReqPublish(p) \/ ReqRun(p) \/ ReqResult(p) \/ RunLoad(p)
           \/ RunDone(p) \/ GrantFails(p) \/ CalcLock(p) \/ CalcRead(p) \/ CalcActivate(p)
           \/ CalcCounted(p) \/ CalcWait(p) \/ ReleaseExtra(p) \/ ExtrasDone(p)
  BY <1>1, <1>5
     DEF ReqStamp, ReqPublish, ReqRun, ReqResult, RunLoad, RunDone, GrantFails, CalcLock,
         CalcRead, CalcActivate, CalcCounted, CalcWait, ReleaseExtra, ExtrasDone, ownership
<1>6. CASE DelActive(p) \/ DelOther(p) \/ DelCheck(p) \/ DelWipeId(p) \/ DelWipeMeta(p)
           \/ DelUnlock(p) \/ DelRemove(p) \/ MaintVisit(p) \/ MaintRun(p) \/ RecordGone(p)
           \/ LockTimeout(p) \/ DelTimeout(p) \/ Crash(p) \/ MaintStart(p)
  BY <1>1, <1>6
     DEF DelActive, DelOther, DelCheck, DelWipeId, DelWipeMeta, DelUnlock, DelRemove,
         MaintVisit, MaintRun, RecordGone, LockTimeout, DelTimeout, Crash, MaintStart, ownership
<1>7. ASSUME NEW b \in Allocs, Request(p, b) \/ Query(p, b) \/ ClientDelete(p, b)
      PROVE  UNCHANGED queue
  BY <1>7 DEF Request, Query, ClientDelete, ownership
<1>8. ASSUME NEW r \in Targets, OwnerCheck(p, r) PROVE UNCHANGED queue
  BY <1>8 DEF OwnerCheck
<1>9. ASSUME NEW r \in Targets, NEW forced \in BOOLEAN, Release(p, r, forced)
      PROVE  UNCHANGED queue
  BY <1>9 DEF Release
<1> QED
  BY <1>1, <1>2, <1>3, <1>4, <1>5, <1>6, <1>7, <1>8, <1>9 DEF Turn, Step

\* A target is granted, or freed: as an orphan, as an extra, by a removal or by its
\* owner.
LEMMA OwnerMoves ==
    ASSUME TypeInv, GrantInv, NEW p \in Procs, Turn(p), NEW t \in Targets
    PROVE  \/ owner'[t] = owner[t]
           \/ Granting(p, t) /\ owner'[t] = job[p].got
           \/ /\ owner'[t] = NoAlloc /\ owner[t] \in Allocs
              /\ \/ ~Live(owner[t])
                 \/ ReleaseExtra(p) /\ job[p].got = owner[t] /\ t \in job[p].left
                 \/ DelWipeId(p) /\ job[p].tgt = t
                 \/ Releases
<1>0. owner \in [Targets -> Allocs \cup {NoAlloc}] /\ job[p] \in Job /\ Placed(job[p])
  BY DEF TypeInv, OwnershipTyped, JobTyped
<1>1. CASE UNCHANGED owner
  BY <1>1
<1>2. CASE Grant(p)
  BY <1>0, <1>2 DEF Grant, Granting
<1>3. CASE RunSkip(p) \/ RunTake(p)
  <2>1. WipeOrphan(job[p].tgt)
    BY <1>3 DEF RunSkip, RunTake
  <2> QED BY <1>0, <2>1 DEF WipeOrphan, ValidOwner
<1>4. CASE GrantFails(p)
  <2>1. /\ owner' = [owner EXCEPT ![job[p].tgt] = NoAlloc]
        /\ owner[job[p].tgt] = job[p].prev /\ ~Live(job[p].prev)
    BY <1>4 DEF GrantFails, Evicts
  <2> QED BY <1>0, <2>1
<1>5. CASE ReleaseExtra(p)
  BY <1>0, <1>5 DEF ReleaseExtra
<1>6. CASE DelWipeId(p)
  BY <1>0, <1>6 DEF DelWipeId
<1>7. ASSUME NEW r \in Targets, OwnerCheck(p, r)
      PROVE  \/ owner'[t] = owner[t]
             \/ owner'[t] = NoAlloc /\ owner[t] \in Allocs /\ ~Live(owner[t])
  BY <1>0, <1>7 DEF OwnerCheck, WipeOrphan, ValidOwner
<1>8. ASSUME NEW r \in Targets, NEW forced \in BOOLEAN, Release(p, r, forced)
      PROVE  \/ owner'[t] = owner[t]
             \/ owner'[t] = NoAlloc /\ owner[t] \in Allocs /\ Releases
  BY <1>0, <1>8 DEF Release
<1>9. CASE ReqStamp(p) \/ ReqPublish(p) \/ ReqEnqueue(p) \/ ReqRun(p) \/ ReqResult(p)
           \/ RunLoad(p) \/ RunDone(p) \/ CalcLock(p) \/ CalcRead(p) \/ CalcActivate(p)
           \/ CalcCounted(p) \/ CalcWait(p) \/ ExtrasDone(p)
  BY <1>1, <1>9
     DEF ReqStamp, ReqPublish, ReqEnqueue, ReqRun, ReqResult, RunLoad, RunDone, CalcLock,
         CalcRead, CalcActivate, CalcCounted, CalcWait, ExtrasDone, ownership
<1>10. CASE DelActive(p) \/ DelOther(p) \/ DelCheck(p) \/ DelWipeMeta(p)
            \/ DelUnlock(p) \/ DelRemove(p) \/ MaintVisit(p) \/ MaintRun(p) \/ RecordGone(p)
            \/ LockTimeout(p) \/ DelTimeout(p) \/ Crash(p) \/ MaintStart(p)
  BY <1>1, <1>10
     DEF DelActive, DelOther, DelCheck, DelWipeMeta, DelUnlock, DelRemove,
         MaintVisit, MaintRun, RecordGone, LockTimeout, DelTimeout, Crash, MaintStart, ownership
<1>11. ASSUME NEW b \in Allocs, Request(p, b) \/ Query(p, b) \/ ClientDelete(p, b)
       PROVE  UNCHANGED owner
  BY <1>11 DEF Request, Query, ClientDelete, ownership
<1> QED
  BY <1>1, <1>2, <1>3, <1>4, <1>5, <1>6, <1>7, <1>8, <1>9, <1>10, <1>11 DEF Turn, Step

\* A group is written with the state it makes active; a stamp, and the clock it is
\* read from, by the request alone.
LEMMA RecordMoves ==
    ASSUME TypeInv, NEW p \in Procs, Turn(p)
    PROVE  /\ group' = group \/ CalcActivate(p)
           /\ UNCHANGED <<stamp, clock>> \/ ReqStamp(p)
<1>1. CASE ReqStamp(p) \/ CalcActivate(p)
  BY <1>1 DEF ReqStamp, CalcActivate
<1>2. CASE ReqPublish(p) \/ ReqEnqueue(p) \/ ReqRun(p) \/ ReqResult(p) \/ RunLoad(p)
           \/ RunDone(p) \/ RunSkip(p) \/ RunTake(p) \/ Grant(p) \/ GrantFails(p)
           \/ CalcLock(p) \/ CalcRead(p) \/ CalcCounted(p) \/ CalcWait(p)
           \/ ReleaseExtra(p) \/ ExtrasDone(p)
  BY <1>2
     DEF ReqPublish, ReqEnqueue, ReqRun, ReqResult, RunLoad, RunDone, RunSkip, RunTake,
         Grant, GrantFails, CalcLock, CalcRead, CalcCounted, CalcWait, ReleaseExtra,
         ExtrasDone, records
<1>3. CASE DelActive(p) \/ DelOther(p) \/ DelCheck(p) \/ DelWipeId(p) \/ DelWipeMeta(p)
           \/ DelUnlock(p) \/ DelRemove(p) \/ MaintVisit(p) \/ MaintRun(p) \/ RecordGone(p)
           \/ LockTimeout(p) \/ DelTimeout(p) \/ Crash(p) \/ MaintStart(p)
  BY <1>3
     DEF DelActive, DelOther, DelCheck, DelWipeId, DelWipeMeta, DelUnlock, DelRemove,
         MaintVisit, MaintRun, RecordGone, LockTimeout, DelTimeout, Crash, MaintStart, records
<1>4. ASSUME NEW b \in Allocs, Request(p, b) \/ Query(p, b) \/ ClientDelete(p, b)
      PROVE  UNCHANGED <<group, stamp, clock>>
  BY <1>4 DEF Request, Query, ClientDelete, records
<1>5. ASSUME NEW r \in Targets, OwnerCheck(p, r) PROVE UNCHANGED <<group, stamp, clock>>
  BY <1>5 DEF OwnerCheck, records
<1>6. ASSUME NEW r \in Targets, NEW forced \in BOOLEAN, Release(p, r, forced)
      PROVE  UNCHANGED <<group, stamp, clock>>
  BY <1>6 DEF Release
<1> QED
  BY <1>1, <1>2, <1>3, <1>4, <1>5, <1>6 DEF Turn, Step

\* An object cached without its groups is forgotten when its request has written
\* them, or with the process.
LEMMA CacheMoves ==
    ASSUME TypeInv, NEW p \in Procs, Turn(p), NEW q \in Procs, NEW a \in stale[q]
    PROVE  a \in stale'[q] \/ (ReqPublish(p) /\ a = job[p].cur) \/ Crash(p)
<1>0. stale \in [Procs -> SUBSET Allocs]
  BY DEF TypeInv, RestTyped
<1>1. CASE UNCHANGED stale
  BY <1>1
<1>2. CASE ReqPublish(p)
  BY <1>0, <1>2 DEF ReqPublish
<1>3. CASE MaintVisit(p)
  BY <1>0, <1>3 DEF MaintVisit, Loaded
<1>4. ASSUME NEW b \in Allocs, Request(p, b) \/ Query(p, b) PROVE a \in stale'[q]
  BY <1>0, <1>4 DEF Request, Query, Loaded
<1>5. CASE ReqStamp(p) \/ ReqEnqueue(p) \/ ReqRun(p) \/ ReqResult(p) \/ RunLoad(p)
           \/ RunDone(p) \/ RunSkip(p) \/ RunTake(p) \/ Grant(p) \/ GrantFails(p)
           \/ CalcLock(p) \/ CalcRead(p) \/ CalcCounted(p) \/ CalcWait(p)
           \/ CalcActivate(p) \/ ReleaseExtra(p) \/ ExtrasDone(p)
  BY <1>1, <1>5
     DEF ReqStamp, ReqEnqueue, ReqRun, ReqResult, RunLoad, RunDone, RunSkip, RunTake,
         Grant, GrantFails, CalcLock, CalcRead, CalcCounted, CalcWait, CalcActivate,
         ReleaseExtra, ExtrasDone
<1>6. CASE DelActive(p) \/ DelOther(p) \/ DelCheck(p) \/ DelWipeId(p) \/ DelWipeMeta(p)
           \/ DelUnlock(p) \/ DelRemove(p) \/ MaintRun(p) \/ RecordGone(p)
           \/ LockTimeout(p) \/ DelTimeout(p) \/ MaintStart(p)
  BY <1>1, <1>6
     DEF DelActive, DelOther, DelCheck, DelWipeId, DelWipeMeta, DelUnlock, DelRemove,
         MaintRun, RecordGone, LockTimeout, DelTimeout, MaintStart
<1>7. ASSUME NEW b \in Allocs, ClientDelete(p, b) PROVE UNCHANGED stale
  BY <1>7 DEF ClientDelete
<1>8. ASSUME NEW r \in Targets, OwnerCheck(p, r) PROVE UNCHANGED stale
  BY <1>8 DEF OwnerCheck
<1>9. ASSUME NEW r \in Targets, NEW forced \in BOOLEAN, Release(p, r, forced)
      PROVE  UNCHANGED stale
  BY <1>9 DEF Release
<1> QED
  BY <1>1, <1>2, <1>3, <1>4, <1>5, <1>6, <1>7, <1>8, <1>9 DEF Turn, Step

-----------------------------------------------------------------------------
\* A request whose record says what it asks for: from then on it is in queues, gets
\* targets, and ends; its directory is never one being written again.
Served(a) == state[a] \in {"queued", "active", "restart-needed", "gone"}
Asked(a, t) == Served(a) /\ t \in TargetsOf(a)

\* Who is in a queue or has a target asked for it; the scheduler works on such ones,
\* and a request, which one worker serves, on a record nobody else writes.
KnownData == \A t \in Targets, a \in Allocs : a \in queue[t] \/ owner[t] = a => Asked(a, t)

KnownJob(p) ==
    /\ At(p, "run_lock") => \A a \in job[p].wq : Asked(a, job[p].tgt)
    /\ At(p, "grant") => Asked(job[p].got, job[p].tgt)
    /\ job[p].pc \in {"calc_lock", "calc_read", "calc_write", "extras"} => Served(job[p].got)
    /\ At(p, "enqueue") => Served(job[p].cur) /\ job[p].todo \subseteq TargetsOf(job[p].cur)
    /\ job[p].pc \in {"stamp", "publish"} => state[job[p].cur] \in {"new", "stamped", "gone"}
    /\ job[p].pc \in {"stamp", "publish", "enqueue"} => p \in Workers
    /\ Removes(p) => state[job[p].cur] # "none"

Writes(p) == job[p].pc \in {"stamp", "publish"}
OneWriter == \A p, q \in Procs : Writes(p) /\ Writes(q) /\ job[p].cur = job[q].cur => p = q

Known == KnownData /\ (\A p \in Procs : KnownJob(p)) /\ OneWriter

\* Nobody is in a queue, and nobody does anything, when the server starts.
LEMMA KnownInit == Init => Known
<1> SUFFICES ASSUME Init PROVE Known
  OBVIOUS
<1>1. KnownData
  BY NamesAssumption DEF Init, KnownData
<1>2. \A p \in Procs : job[p].pc = "idle"
  BY DEF Init, Idle
<1> QED BY <1>1, <1>2 DEF Known, KnownJob, OneWriter, Writes, Removes, Removal, At

\* A record is not made twice, and what was asked stays so.
LEMMA StaysServed ==
    ASSUME TypeInv, Known, NEW p \in Procs, Turn(p), NEW a \in Allocs
    PROVE  /\ Served(a) => Served(a)'
           /\ state[a] # "none" => state'[a] # "none"
           /\ \A t \in Targets : Asked(a, t) => Asked(a, t)'
<1>1. state[a] # "none" => state'[a] # "none"
  BY StateMoves
<1>2. Served(a) => Served(a)'
  <2> SUFFICES ASSUME Served(a) PROVE Served(a)'
    OBVIOUS
  <2>1. ~(Request(p, a) /\ state[a] = "none")
    BY DEF Served
  <2>2. ~(ReqStamp(p) /\ job[p].cur = a /\ Live(a))
    BY DEF Known, KnownJob, Served, ReqStamp, At, Live
  <2> QED BY <2>1, <2>2, StateMoves DEF Served
<1> QED BY <1>1, <1>2 DEF Asked

\* The record of a request is written by its own process, or removed.
LEMMA StaysWritten ==
    ASSUME TypeInv, Known, NEW p \in Procs, Turn(p), NEW q \in Procs, Writes(q),
           ~(ReqPublish(p) /\ p = q)
    PROVE  state'[job[q].cur] \in {"new", "stamped", "gone"}
<1> DEFINE a == job[q].cur
<1>1. a \in Allocs /\ state[a] \in {"new", "stamped", "gone"}
  BY DEF Writes, TypeInv, JobTyped, Placed, Known, KnownJob
<1>2. ~(ReqPublish(p) /\ job[p].cur = a)
  BY DEF Known, OneWriter, Writes, ReqPublish, At
<1>3. ~(CalcActivate(p) /\ job[p].got = a /\ Live(a))
  BY <1>1 DEF Known, KnownJob, CalcActivate, At, Served, Live
<1>4. ~(Grant(p) /\ job[p].prev = a /\ Evicts(p) /\ Live(a))
  <2> SUFFICES ASSUME Grant(p), job[p].prev = a, Evicts(p), Live(a) PROVE FALSE
    OBVIOUS
  <2>1. job[p].tgt \in Targets /\ owner[job[p].tgt] = a
    BY RunMoves DEF Evicts
  <2> QED BY <1>1, <2>1 DEF Known, KnownData, Asked, Served, Live
<1>5. ~(Forced(p, a) /\ Live(a))
  BY <1>1 DEF Forced, Known, KnownData, Asked, Served, Live
<1> QED BY <1>1, <1>2, <1>3, <1>4, <1>5, StateMoves

\* What a process that does not move knows stays so.
LEMMA StaysKnown ==
    ASSUME TypeInv, Known, NEW p \in Procs, Turn(p), NEW q \in Procs, job'[q] = job[q]
    PROVE  KnownJob(q)'
<1>0. job[q] \in Job /\ Placed(job[q]) /\ KnownJob(q)
  BY DEF TypeInv, JobTyped, Known
<1>1. At(q, "run_lock") => \A a \in job[q].wq : Asked(a, job[q].tgt)'
  <2> SUFFICES ASSUME At(q, "run_lock"), NEW a \in job[q].wq PROVE Asked(a, job[q].tgt)'
    OBVIOUS
  <2>1. a \in Allocs /\ job[q].tgt \in Targets /\ Asked(a, job[q].tgt)
    BY <1>0 DEF At, Placed, Job, KnownJob
  <2>2. Asked(a, job[q].tgt)'
    BY <2>1, StaysServed DEF Asked
  <2> QED BY <2>2
<1>2. At(q, "grant") => Asked(job[q].got, job[q].tgt)'
  BY <1>0, StaysServed DEF At, Placed, KnownJob, Asked
<1>3. job[q].pc \in {"calc_lock", "calc_read", "calc_write", "extras"} => Served(job[q].got)'
  BY <1>0, StaysServed DEF Placed, KnownJob
<1>4. At(q, "enqueue") => Served(job[q].cur)'
  BY <1>0, StaysServed DEF At, Placed, KnownJob
<1>5. Writes(q) => state'[job[q].cur] \in {"new", "stamped", "gone"}
  <2>1. ~(ReqPublish(p) /\ p = q)
    BY RequestMoves
  <2> QED BY <2>1, StaysWritten
<1>6. Removes(q) => state'[job[q].cur] # "none"
  BY <1>0, StaysServed DEF Removes, Removal, Placed, KnownJob
<1> QED
  BY <1>0, <1>1, <1>2, <1>3, <1>4, <1>5, <1>6
     DEF KnownJob, At, Writes, Removes, Removal, Asked, Served

\* A process that rests knows nothing that could go wrong.
LEMMA RestKnown ==
    ASSUME NEW p \in Procs, job'[p].pc \in Rest
    PROVE  KnownJob(p)'
BY DEF Rest, KnownJob, At, Removes, Removal

\* What a process picks for its next step was asked for.
LEMMA SelfKnown ==
    ASSUME TypeInv, Known, NEW p \in Procs, Turn(p)
    PROVE  KnownJob(p)'
<1>0. KnownJob(p) /\ job[p] \in Job /\ Placed(job[p])
  BY DEF Known, TypeInv, JobTyped
<1>1. CASE Ends(p)
  BY <1>1, EndsRest, RestKnown
<1>2. ASSUME p \in Workers, NEW a \in Allocs, Request(p, a) PROVE KnownJob(p)'
  <2>1. job'[p].pc = "stamp" /\ job'[p].cur = a /\ state'[a] = "new"
    BY <1>2, RequestMoves DEF Request, TypeInv, RecordsTyped
  <2> QED BY <1>2, <2>1 DEF KnownJob, At, Removes, Removal
<1>3. CASE ReqStamp(p)
  <2>1. job'[p].pc = "publish" /\ state'[job'[p].cur] = "stamped" /\ p \in Workers
    BY <1>0, <1>3, RequestMoves DEF ReqStamp, TypeInv, RecordsTyped, KnownJob
  <2> QED BY <2>1 DEF KnownJob, At, Removes, Removal
<1>4. CASE ReqPublish(p)
  <2>1. /\ job'[p].pc = "enqueue" /\ state'[job'[p].cur] = "queued" /\ p \in Workers
        /\ job'[p].todo = TargetsOf(job'[p].cur)
    BY <1>0, <1>4, RequestMoves DEF ReqPublish, TypeInv, RecordsTyped, KnownJob
  <2> QED BY <2>1 DEF KnownJob, At, Removes, Removal, Served
<1>5. CASE ReqEnqueue(p)
  <2>1. /\ job'[p].pc = "enqueue" /\ job'[p].cur = job[p].cur /\ job[p].cur \in Allocs
        /\ job'[p].todo \subseteq job[p].todo /\ At(p, "enqueue")
    BY <1>5, EnqueueMoves DEF At
  <2>2. Served(job[p].cur)' /\ job[p].todo \subseteq TargetsOf(job[p].cur) /\ p \in Workers
    BY <1>0, <2>1, StaysServed DEF KnownJob, At
  <2> QED BY <2>1, <2>2 DEF KnownJob, At, Removes, Removal, Served
<1>6. ASSUME job'[p].pc \in Removal, job'[p].cur \in Allocs, state[job'[p].cur] # "none"
      PROVE  KnownJob(p)'
  <2>1. state'[job'[p].cur] # "none"
    BY <1>6, StaysServed
  <2> QED BY <1>6, <2>1 DEF KnownJob, At, Removes, Removal
<1>7. CASE ReqResult(p) \/ MaintVisit(p) \/ \E a \in Allocs : ClientDelete(p, a)
  <2>1. \/ job'[p].pc \in Rest
        \/ job'[p].pc \in Removal /\ job'[p].cur \in Allocs /\ Live(job'[p].cur)
    BY <1>7, RequestMoves, RemovalStarts DEF Removal, Rest
  <2> QED BY <1>6, <2>1, RestKnown DEF Live
<1>8. CASE DelActive(p) \/ DelOther(p) \/ DelCheck(p) \/ DelWipeId(p) \/ DelWipeMeta(p)
           \/ DelUnlock(p)
  <2>1. /\ job[p].pc \in Removal /\ job'[p].pc \in Removal
        /\ job'[p].cur = job[p].cur /\ job[p].cur \in Allocs
    BY <1>8, RemovalMoves DEF Removal
  <2> QED BY <1>0, <1>6, <2>1 DEF KnownJob, Removes
<1>9. CASE RunLoad(p)
  <2>1. /\ job'[p].pc = "run_lock" /\ job'[p].tgt \in Targets
        /\ job'[p].wq = queue[job'[p].tgt]
    BY <1>9, RunMoves
  <2>2. \A a \in job'[p].wq : Served(a)' /\ job'[p].tgt \in TargetsOf(a)
    <3>1. PICK t \in Targets : job'[p].tgt = t /\ job'[p].wq = queue[t]
      BY <2>1
    <3>2. ASSUME NEW a \in queue[t] PROVE Served(a)' /\ t \in TargetsOf(a)
      <4>1. a \in Allocs /\ Asked(a, t)
        BY DEF Known, KnownData, TypeInv, OwnershipTyped
      <4> QED BY <4>1, StaysServed DEF Asked
    <3> QED BY <3>1, <3>2
  <2> QED BY <2>1, <2>2 DEF KnownJob, At, Removes, Removal, Asked, Served
<1>10. CASE RunTake(p)
  <2>1. /\ job[p].pc = "run_lock" /\ job'[p].pc = "grant" /\ job'[p].tgt = job[p].tgt
        /\ job[p].tgt \in Targets
    BY <1>10, RunMoves
  <2>2. PICK w \in Allocs : job'[p].got = w /\ w \in job[p].wq
    BY <1>10, RunMoves DEF ValidWaiters
  <2>3. Asked(w, job[p].tgt)
    BY <1>0, <2>1, <2>2 DEF KnownJob, At
  <2>4. Served(w)' /\ job[p].tgt \in TargetsOf(w)
    BY <2>3, StaysServed DEF Asked
  <2> QED BY <2>1, <2>2, <2>4 DEF KnownJob, At, Removes, Removal, Asked, Served
<1>11. CASE Grant(p) \/ CalcLock(p) \/ CalcCounted(p) \/ CalcRead(p) \/ CalcActivate(p)
            \/ ReleaseExtra(p)
  <2>1. /\ job[p].pc \in {"grant", "calc_lock", "calc_read", "calc_write", "extras"}
        /\ job'[p].pc \in {"calc_lock", "calc_read", "calc_write", "extras"}
        /\ job'[p].got = job[p].got /\ job[p].got \in Allocs
    BY <1>11, RunMoves, CalcMoves, ActivateMoves
  <2>2. Served(job[p].got)
    BY <1>0, <2>1 DEF KnownJob, At, Asked
  <2>3. Served(job[p].got)'
    BY <2>1, <2>2, StaysServed
  <2> QED BY <2>1, <2>3 DEF KnownJob, At, Removes, Removal, Served
<1>12. CASE UNCHANGED job
  BY <1>12, StaysKnown
<1>13. ASSUME NEW a \in Allocs, Query(p, a) PROVE UNCHANGED job
  BY <1>13 DEF Query
<1>14. ASSUME NEW t \in Targets, OwnerCheck(p, t) PROVE UNCHANGED job
  BY <1>14 DEF OwnerCheck
<1>15. ASSUME NEW t \in Targets, NEW forced \in BOOLEAN, Release(p, t, forced)
       PROVE  UNCHANGED job
  BY <1>15 DEF Release
<1> QED
  BY <1>1, <1>2, <1>3, <1>4, <1>5, <1>7, <1>8, <1>9, <1>10, <1>11, <1>12, <1>13, <1>14, <1>15
     DEF Turn, Step, Ends

\* What is put in a queue and who gets a target was asked for.
LEMMA DataKnown ==
    ASSUME TypeInv, GrantInv, Known, NEW p \in Procs, Turn(p)
    PROVE  KnownData'
<1> SUFFICES ASSUME NEW t \in Targets, NEW a \in Allocs, a \in queue'[t] \/ owner'[t] = a
             PROVE  Asked(a, t)'
  BY DEF KnownData
<1>1. a # NoAlloc /\ KnownJob(p)
  BY NamesAssumption DEF Known
<1>2. CASE a \in queue[t] \/ owner[t] = a
  BY <1>2, StaysServed DEF Known, KnownData
<1>3. CASE a \in queue'[t] /\ a \notin queue[t]
  <2>1. ReqEnqueue(p) /\ t \in job[p].todo /\ a = job[p].cur
    BY <1>3, QueueMoves
  <2>2. Asked(a, t)
    BY <1>1, <2>1, EnqueueMoves DEF KnownJob, At, Asked
  <2> QED BY <2>2, StaysServed
<1>4. CASE owner'[t] = a /\ owner[t] # a
  <2>1. Grant(p) /\ job[p].tgt = t /\ a = job[p].got
    BY <1>1, <1>4, OwnerMoves DEF Granting
  <2>2. Asked(a, t)
    BY <1>1, <2>1, RunMoves DEF KnownJob, At
  <2> QED BY <2>2, StaysServed
<1> QED BY <1>2, <1>3, <1>4

\* A new record is written by the process that made it, and by no other.
LEMMA WriterKnown ==
    ASSUME TypeInv, LockInv, Known, NEW p \in Procs, Turn(p)
    PROVE  OneWriter'
<1>1. ASSUME NEW q \in Procs, q # p, Writes(q)', Writes(p)', job'[p].cur = job'[q].cur
      PROVE  FALSE
  <2>1. job'[q] = job[q] /\ Writes(q)
    BY <1>1, TurnOthers DEF Writes
  <2>2. state[job[q].cur] # "none"
    BY <2>1 DEF Known, KnownJob, Writes
  <2>3. ~(Writes(p) /\ job[p].cur = job[q].cur)
    BY <1>1, <2>1 DEF Known, OneWriter
  <2>4. CASE ReqStamp(p)
    BY <1>1, <2>1, <2>3, <2>4, RequestMoves DEF Writes
  <2>5. ASSUME NEW a \in Allocs, Request(p, a) PROVE FALSE
    BY <1>1, <2>1, <2>2, <2>5, RequestMoves DEF Request
  <2>6. ~Ends(p)
    BY <1>1, EndsRest DEF Writes, Rest
  <2>7. CASE ReqPublish(p) \/ ReqEnqueue(p) \/ ReqResult(p) \/ RunLoad(p) \/ RunTake(p)
             \/ Grant(p) \/ CalcLock(p) \/ CalcCounted(p) \/ CalcRead(p) \/ CalcActivate(p)
             \/ ReleaseExtra(p)
    BY <1>1, <2>7, RequestMoves, EnqueueMoves, RunMoves, CalcMoves, ActivateMoves DEF Writes
  <2>8. CASE DelActive(p) \/ DelOther(p) \/ DelCheck(p) \/ DelWipeId(p) \/ DelWipeMeta(p)
             \/ DelUnlock(p) \/ MaintVisit(p) \/ \E a \in Allocs : ClientDelete(p, a)
    BY <1>1, <2>8, RemovalStarts, RemovalMoves DEF Writes
  <2>9. ~UNCHANGED job
    BY <1>1, <2>1, <2>3 DEF Writes
  <2>10. ASSUME NEW a \in Allocs PROVE ~Query(p, a)
    BY <2>9 DEF Query
  <2>11. ASSUME NEW t \in Targets PROVE ~OwnerCheck(p, t)
    BY <2>9 DEF OwnerCheck
  <2>12. ASSUME NEW t \in Targets, NEW forced \in BOOLEAN PROVE ~Release(p, t, forced)
    BY <2>9 DEF Release
  <2> QED
    BY <2>4, <2>5, <2>6, <2>7, <2>8, <2>10, <2>11, <2>12 DEF Turn, Step, Ends
<1>2. ASSUME NEW q \in Procs, NEW r \in Procs, q # p, r # p, Writes(q)', Writes(r)',
             job'[q].cur = job'[r].cur
      PROVE  q = r
  <2>1. job'[q] = job[q] /\ job'[r] = job[r]
    BY <1>2, TurnOthers
  <2> QED BY <1>2, <2>1 DEF Writes, Known, OneWriter
<1> QED BY <1>1, <1>2 DEF OneWriter

\* All that holds whatever the server does.
Basis == TypeInv /\ LockInv /\ GrantInv /\ Known

\* Requests, queues, owners and records fit together after every turn.
LEMMA KnownStep == Basis /\ [Next]_vars => Known'
<1> SUFFICES ASSUME Basis, [Next]_vars PROVE Known'
  OBVIOUS
<1> USE DEF Basis
<1>1. ASSUME NEW p \in Procs, Turn(p) PROVE Known'
  <2>1. ASSUME NEW q \in Procs PROVE KnownJob(q)'
    <3>1. CASE q = p
      BY <1>1, <3>1, SelfKnown
    <3>2. CASE q # p
      BY <1>1, <3>2, TurnOthers, StaysKnown
    <3> QED BY <3>1, <3>2
  <2> QED BY <1>1, <2>1, DataKnown, WriterKnown DEF Known
<1>2. ASSUME UNCHANGED vars PROVE Known'
  BY <1>2
     DEF vars, Known, KnownData, KnownJob, OneWriter, Writes, Removes, Asked, Served, At
<1> QED BY <1>1, <1>2, Turns

\* Only allocations that asked for a target are in its queue or have it, and no two
\* processes write one new record.
THEOREM BasisInvariant == Spec => []Basis
<1>1. Spec => []Known
  <2>1. TypeInv /\ LockInv /\ GrantInv /\ Known /\ [Next]_vars => Known'
    BY KnownStep DEF Basis
  <2> QED BY <2>1, KnownInit, TypeInvariant, LockInvariant, GrantInvariant, PTL DEF Spec
<1> QED BY <1>1, TypeInvariant, LockInvariant, GrantInvariant, PTL DEF Basis

-----------------------------------------------------------------------------
\* A process is still to compute a with the targets of group i among those it has
\* counted or is to count.
Computes(p, a, i) ==
    /\ job[p].got = a
    /\ \/ At(p, "calc_lock")
       \/ At(p, "calc_read") /\ Groups[a][i] \subseteq job[p].held \cup job[p].left
       \/ At(p, "calc_write") /\ Groups[a][i] \subseteq job[p].held

Seen(a, i) == \E p \in Procs : Computes(p, a, i) \/ a \in stale[p]

\* A group that is complete, of an allocation that waits, has been seen.
SeenInv ==
    \A a \in Allocs : \A i \in DOMAIN Groups[a] :
        state[a] = "queued" /\ Complete(a, i, Held(a)) => Seen(a, i)

\* A process that computes an allocation goes on with it until it has written what it
\* found, unless the record is gone or the process fails.
LEMMA CalcTurns ==
    ASSUME NEW p \in Procs, Turn(p)
    PROVE  /\ At(p, "calc_lock") => CalcLock(p) \/ RecordGone(p) \/ LockTimeout(p) \/ Crash(p)
           /\ At(p, "calc_read") => CalcRead(p) \/ CalcCounted(p) \/ Crash(p)
           /\ At(p, "calc_write") => CalcActivate(p) \/ CalcWait(p) \/ RecordGone(p) \/ Crash(p)
<1> SUFFICES ASSUME job[p].pc \in {"calc_lock", "calc_read", "calc_write"}
             PROVE  /\ At(p, "calc_lock") => CalcLock(p) \/ RecordGone(p) \/ LockTimeout(p)
                         \/ Crash(p)
                    /\ At(p, "calc_read") => CalcRead(p) \/ CalcCounted(p) \/ Crash(p)
                    /\ At(p, "calc_write") => CalcActivate(p) \/ CalcWait(p) \/ RecordGone(p)
                         \/ Crash(p)
  BY DEF At
<1>1. \/ CalcLock(p) \/ CalcRead(p) \/ CalcCounted(p) \/ CalcActivate(p) \/ CalcWait(p)
      \/ RecordGone(p) \/ LockTimeout(p) \/ Crash(p)
  BY DEF Turn, Step, At, ReqStamp, ReqPublish, ReqEnqueue, ReqRun, ReqResult, RunLoad, RunDone,
         RunSkip, RunTake, Grant, GrantFails, ReleaseExtra, ExtrasDone, DelActive, DelOther,
         DelCheck, DelWipeId, DelWipeMeta, DelUnlock, DelRemove, MaintVisit, MaintRun,
         DelTimeout, MaintStart, Request, Query, ClientDelete, OwnerCheck, Release
<1> QED
  BY <1>1 DEF At, CalcLock, CalcRead, CalcCounted, CalcActivate, CalcWait, RecordGone,
              LockTimeout, Waiting

\* What a process has seen of a complete group it keeps, up to the write.
LEMMA ComputesOn ==
    ASSUME Basis, NEW p \in Procs, Turn(p), ~Timeouts, ~Crash(p),
           NEW a \in Allocs, NEW i \in DOMAIN Groups[a], Computes(p, a, i),
           state[a] = "queued", Complete(a, i, Held(a)), state'[a] = "queued"
    PROVE  Computes(p, a, i)' \/ a \in stale'[p]
<1>0. Live(a) /\ ~LockTimeout(p)
  BY DEF Live, States, LockTimeout
<1>1. Groups[a][i] \subseteq TargetsOf(a) /\ Groups[a][i] \subseteq Held(a)
  BY DEF TargetsOf, Complete
<1>2. CASE At(p, "calc_lock")
  <2>1. CalcLock(p)
    BY <1>0, <1>2, CalcTurns DEF RecordGone, At, Computes
  <2>2. /\ job'[p].pc = "calc_read" /\ job'[p].got = a /\ job'[p].left = Counted(p)
        /\ stale' = stale /\ job[p].got = a
    BY <2>1, CalcMoves DEF Basis, Computes, CalcLock
  <2> QED BY <1>1, <2>2 DEF Computes, At, Counted
<1>3. CASE At(p, "calc_read")
  <2>1. Groups[a][i] \subseteq job[p].held \cup job[p].left /\ job[p].got = a
    BY <1>3 DEF Computes, At
  <2>2. CASE CalcRead(p)
    <3>1. PICK t \in job[p].left :
                /\ job'[p].left = job[p].left \ {t}
                /\ job'[p].held = IF owner[t] = a THEN job[p].held \cup {t} ELSE job[p].held
      BY <2>1, <2>2, CalcMoves DEF Basis
    <3>2. owner[t] # a => t \notin Groups[a][i]
      BY <1>1 DEF Held
    <3>3. Groups[a][i] \subseteq job'[p].held \cup job'[p].left
      BY <2>1, <3>1, <3>2
    <3>4. job'[p].pc = "calc_read" /\ job'[p].got = a
      BY <2>1, <2>2, CalcMoves DEF Basis
    <3> QED BY <3>3, <3>4 DEF Computes, At
  <2>3. CASE CalcCounted(p)
    <3>1. /\ job'[p].pc = "calc_write" /\ job'[p].got = a /\ job'[p].held = job[p].held
          /\ job[p].left = {}
      BY <2>1, <2>3, CalcMoves DEF Basis
    <3> QED BY <2>1, <3>1 DEF Computes, At
  <2> QED BY <1>3, <2>2, <2>3, CalcTurns
<1>4. CASE At(p, "calc_write")
  <2>1. Groups[a][i] \subseteq job[p].held /\ job[p].got = a
    BY <1>4 DEF Computes, At
  <2>2. ~CalcActivate(p)
    BY <2>1 DEF CalcActivate, Basis, TypeInv, RecordsTyped
  <2>3. ~CalcWait(p)
    BY <2>1 DEF CalcWait, Complete
  <2>4. ~RecordGone(p)
    BY <1>0, <1>4, <2>1 DEF RecordGone, At
  <2> QED BY <1>4, <2>2, <2>3, <2>4, CalcTurns
<1> QED BY <1>2, <1>3, <1>4 DEF Computes

\* Who completes a group goes on to compute its allocation, and nobody else can.
LEMMA SeenTurn ==
    ASSUME Basis, SeenInv, ~Timeouts, MaxCrashes = 0, NEW p \in Procs, Turn(p)
    PROVE  SeenInv'
<1> SUFFICES ASSUME NEW a \in Allocs, NEW i \in DOMAIN Groups[a],
                    state'[a] = "queued", Complete(a, i, Held(a)')
             PROVE  Seen(a, i)'
  BY DEF SeenInv, Complete
<1> USE DEF Basis
<1>1. ~Crash(p)
  BY DEF Crash, TypeInv, RestTyped
<1>2. a # NoAlloc /\ \A t \in Groups[a][i] : t \in Targets /\ owner'[t] = a
  BY NamesAssumption DEF Complete, Held
<1>3. ~(ReqPublish(p) /\ job[p].cur = a)
  <2> SUFFICES ASSUME ReqPublish(p), job[p].cur = a PROVE FALSE
    OBVIOUS
  <2>1. state[a] \in {"new", "stamped"}
    BY DEF ReqPublish, At, Known, KnownJob, Live
  <2>2. PICK t \in Groups[a][i] : TRUE
    BY RequestsAssumption
  <2>3. owner[t] = a /\ t \in Targets
    BY <1>2 DEF ReqPublish, ownership
  <2> QED BY <2>1, <2>3 DEF Known, KnownData, Asked, Served
<1>4. state[a] = "queued"
  BY <1>3, StateMoves
<1>5. CASE \E t \in Targets : Granting(p, t) /\ job[p].got = a
  <2>1. job'[p].pc = "calc_lock" /\ job'[p].got = a
    BY <1>5, RunMoves DEF Granting
  <2> QED BY <2>1 DEF Seen, Computes, At
<1>6. CASE ~\E t \in Targets : Granting(p, t) /\ job[p].got = a
  <2>1. \A t \in Targets : owner'[t] = a => owner[t] = a
    BY <1>2, <1>6, OwnerMoves
  <2>2. Complete(a, i, Held(a))
    BY <1>2, <2>1 DEF Complete, Held
  <2>3. PICK q \in Procs : Computes(q, a, i) \/ a \in stale[q]
    BY <1>4, <2>2 DEF SeenInv, Seen
  <2>4. CASE a \in stale[q]
    <3>1. a \in stale'[q]
      BY <1>1, <1>3, <2>4, CacheMoves
    <3> QED BY <3>1 DEF Seen
  <2>5. CASE Computes(q, a, i) /\ q = p
    BY <1>1, <1>4, <2>2, <2>5, ComputesOn DEF Seen
  <2>6. CASE Computes(q, a, i) /\ q # p
    <3>1. job'[q] = job[q]
      BY <2>6, TurnOthers
    <3>2. Computes(q, a, i)'
      BY <2>6, <3>1 DEF Computes, At
    <3> QED BY <3>2 DEF Seen
  <2> QED BY <2>3, <2>4, <2>5, <2>6
<1> QED BY <1>5, <1>6

\* An allocation that holds a whole group and is not activated is one that somebody
\* cached too early: as long as nobody dies and no lock file times out, that is the
\* only way to miss it, whoever else releases, evicts or removes meanwhile.
THEOREM NoneMissed ==
    ASSUME ~Timeouts, MaxCrashes = 0
    PROVE  Spec => []NoMissedActivation
<1>1. Init => SeenInv
  <2> SUFFICES ASSUME Init PROVE SeenInv
    OBVIOUS
  <2>1. \A a \in Allocs : state[a] # "queued"
    BY DEF Init
  <2> QED BY <2>1 DEF SeenInv
<1>2. Basis /\ SeenInv /\ [Next]_vars => SeenInv'
  <2> SUFFICES ASSUME Basis, SeenInv, [Next]_vars PROVE SeenInv'
    OBVIOUS
  <2>1. CASE UNCHANGED vars
    BY <2>1 DEF vars, SeenInv, Seen, Computes, Held, At
  <2> QED BY <2>1, SeenTurn, Turns
<1>3. SeenInv => NoMissedActivation
  <2> SUFFICES ASSUME SeenInv, NEW a \in Allocs, state[a] = "queued",
                      NEW i \in DOMAIN Groups[a], Complete(a, i, Held(a)),
                      \A p \in Procs : job[p].got # a
               PROVE  \E p \in Procs : a \in stale[p]
    BY DEF NoMissedActivation
  <2> QED BY DEF SeenInv, Seen, Computes
<1> QED BY <1>1, <1>2, <1>3, BasisInvariant, PTL DEF Spec

-----------------------------------------------------------------------------
\* Nobody gives up a target of an allocation that waits: extras are those of one that
\* was active, and so are the targets a removal wipes.
PlaceInv ==
    /\ PlaceKept
    /\ \A p \in Procs : At(p, "extras") =>
         state[job[p].got] \in {"active", "restart-needed", "gone"}
    /\ \A p \in Procs : job[p].pc \in {"del_check", "del_id", "del_meta"} =>
         state[job[p].cur] \in {"active", "restart-needed", "gone"}

\* What was active does not wait again.
LEMMA StaysActive ==
    ASSUME Basis, NEW p \in Procs, Turn(p), NEW a \in Allocs,
           state[a] \in {"active", "restart-needed", "gone"}
    PROVE  state'[a] \in {"active", "restart-needed", "gone"}
<1>1. ~(ReqStamp(p) /\ job[p].cur = a /\ Live(a))
  BY DEF Basis, Known, KnownJob, ReqStamp, At, Live
<1>2. ~(ReqPublish(p) /\ job[p].cur = a /\ Live(a))
  BY DEF Basis, Known, KnownJob, ReqPublish, At, Live
<1> QED BY <1>1, <1>2, StateMoves DEF Basis

\* Handlers that give up targets are of allocations that were active.
LEMMA PlaceJobs ==
    ASSUME Basis, PlaceInv, NEW p \in Procs, Turn(p), NEW q \in Procs
    PROVE  /\ At(q, "extras")' => state'[job'[q].got] \in {"active", "restart-needed", "gone"}
           /\ job'[q].pc \in {"del_check", "del_id", "del_meta"} =>
                state'[job'[q].cur] \in {"active", "restart-needed", "gone"}
<1> USE DEF Basis
<1>0. job[q] \in Job /\ Placed(job[q])
  BY DEF TypeInv, JobTyped
<1>1. CASE job'[q] = job[q]
  <2>1. At(q, "extras") => job[q].got \in Allocs
    BY <1>0 DEF At, Placed
  <2>2. job[q].pc \in {"del_check", "del_id", "del_meta"} => job[q].cur \in Allocs
    BY <1>0 DEF Placed
  <2> QED BY <1>1, <2>1, <2>2, StaysActive DEF PlaceInv, At
<1>2. CASE q = p /\ Ends(p)
  BY <1>2, EndsRest DEF Rest, At
<1>3. CASE q = p /\ CalcActivate(p)
  <2>1. job'[p].pc = "extras" /\ state'[job'[p].got] = "active"
    BY <1>3, ActivateMoves DEF CalcActivate, TypeInv, RecordsTyped
  <2> QED BY <1>3, <2>1
<1>4. CASE q = p /\ ReleaseExtra(p)
  <2>1. /\ job[p].pc = "extras" /\ job'[p].pc = "extras"
        /\ job'[p].got = job[p].got /\ job[p].got \in Allocs
    BY <1>4, CalcMoves
  <2> QED BY <1>4, <2>1, StaysActive DEF PlaceInv, At
<1>5. CASE q = p /\ DelActive(p)
  <2>1. /\ job'[p].pc = "del_check" /\ job'[p].cur = job[p].cur /\ job[p].cur \in Allocs
        /\ state[job[p].cur] = "active"
    BY <1>5, RemovalMoves DEF DelActive
  <2> QED BY <1>5, <2>1, StaysActive DEF At
<1>6. CASE q = p /\ (DelCheck(p) \/ DelWipeId(p) \/ DelWipeMeta(p))
  <2>1. /\ job[p].pc \in {"del_check", "del_id", "del_meta"}
        /\ job'[p].pc \in {"del_check", "del_id", "del_meta"}
        /\ job'[p].cur = job[p].cur /\ job[p].cur \in Allocs
    BY <1>6, RemovalMoves
  <2> QED BY <1>6, <2>1, StaysActive DEF PlaceInv, At
<1>7. CASE q = p /\ (ReqStamp(p) \/ ReqPublish(p) \/ ReqEnqueue(p) \/ ReqResult(p)
                     \/ RunLoad(p) \/ RunTake(p) \/ Grant(p) \/ CalcLock(p) \/ CalcRead(p)
                     \/ CalcCounted(p) \/ DelOther(p) \/ DelUnlock(p) \/ MaintVisit(p)
                     \/ \E a \in Allocs : Request(p, a) \/ ClientDelete(p, a))
  <2>1. job'[p].pc \notin {"extras", "del_check", "del_id", "del_meta"}
    BY <1>7, RequestMoves, EnqueueMoves, RunMoves, CalcMoves, RemovalStarts, RemovalMoves
  <2> QED BY <1>7, <2>1 DEF At
<1>8. ASSUME NEW a \in Allocs, Query(p, a) PROVE job'[q] = job[q]
  BY <1>8 DEF Query
<1>9. ASSUME NEW t \in Targets, OwnerCheck(p, t) PROVE job'[q] = job[q]
  BY <1>9 DEF OwnerCheck
<1>10. ASSUME NEW t \in Targets, NEW forced \in BOOLEAN, Release(p, t, forced)
       PROVE  job'[q] = job[q]
  BY <1>10 DEF Release
<1>11. q # p => job'[q] = job[q]
  BY TurnOthers
<1> QED
  BY <1>1, <1>2, <1>3, <1>4, <1>5, <1>6, <1>7, <1>8, <1>9, <1>10, <1>11 DEF Turn, Step, Ends

\* Who still has to put a in the queue of t does so, or goes on to the next target.
LEMMA EnqueuesOn ==
    ASSUME Basis, NEW p \in Procs, Turn(p), ~(At(p, "enqueue") /\ Crash(p)),
           NEW a \in Allocs, NEW t \in Targets, Enqueuing(a, t)
    PROVE  Enqueuing(a, t)' \/ a \in queue'[t]
<1> USE DEF Basis
<1>1. PICK q \in Procs : At(q, "enqueue") /\ job[q].cur = a /\ t \in job[q].todo
  BY DEF Enqueuing
<1>2. CASE q # p
  <2>1. job'[q] = job[q]
    BY <1>2, TurnOthers
  <2> QED BY <1>1, <2>1 DEF Enqueuing, At
<1>3. CASE q = p
  <2>1. ReqEnqueue(p)
    BY <1>1, <1>3
       DEF Turn, Step, At, ReqStamp, ReqPublish, ReqRun, ReqResult, RunLoad, RunDone,
         RunSkip, RunTake, Grant, GrantFails, CalcLock, CalcRead, CalcCounted, CalcActivate,
         CalcWait, ReleaseExtra, ExtrasDone, DelActive, DelOther,
         DelCheck, DelWipeId, DelWipeMeta, DelUnlock, DelRemove, MaintVisit, MaintRun,
         RecordGone, LockTimeout, Waiting,
         DelTimeout, MaintStart, Request, Query, ClientDelete, OwnerCheck, Release
  <2>2. PICK r \in job[p].todo : /\ job'[p].todo = job[p].todo \ {r}
                                 /\ queue' = [queue EXCEPT ![r] = @ \cup {a}]
    BY <1>1, <1>3, <2>1, EnqueueMoves
  <2>3. CASE r = t
    BY <2>2, <2>3 DEF TypeInv, OwnershipTyped
  <2>4. CASE r # t
    <3>1. job'[p].pc = "enqueue" /\ job'[p].cur = a /\ t \in job'[p].todo
      BY <1>1, <1>3, <2>1, <2>2, <2>4, EnqueueMoves
    <3> QED BY <3>1 DEF Enqueuing, At
  <2> QED BY <2>3, <2>4
<1> QED BY <1>2, <1>3

\* A waiting allocation leaves a queue with the target, and loses a target to nobody.
LEMMA PlaceTurn ==
    ASSUME Basis, PlaceInv, ~Releases, NEW p \in Procs, Turn(p),
           ~(At(p, "enqueue") /\ Crash(p)),
           DelWipeId(p) => owner[job[p].tgt] \in {job[p].cur, NoAlloc}
    PROVE  PlaceInv'
<1> USE DEF Basis
<1>1. ASSUME NEW a \in Allocs, state'[a] = "queued", NEW t \in TargetsOf(a)
      PROVE  a \in queue'[t] \/ owner'[t] = a \/ Enqueuing(a, t)'
  <2>1. t \in Targets
    BY GroupsTyped
  <2>2. CASE ReqPublish(p) /\ job[p].cur = a
    <3>1. job'[p].pc = "enqueue" /\ job'[p].cur = a /\ t \in job'[p].todo
      BY <2>2, RequestMoves
    <3> QED BY <3>1 DEF Enqueuing, At
  <2>3. CASE ~(ReqPublish(p) /\ job[p].cur = a)
    <3>1. state[a] = "queued" /\ Live(a) /\ a # NoAlloc
      BY <1>1, <2>3, StateMoves, NamesAssumption DEF Live, States
    <3>2. a \in queue[t] \/ owner[t] = a \/ Enqueuing(a, t)
      BY <3>1 DEF PlaceInv, PlaceKept
    <3>3. CASE a \in queue[t]
      <4>1. a \in queue'[t] \/ (Granting(p, t) /\ job[p].got = a)
        BY <2>1, <3>1, <3>3, QueueMoves
      <4> QED BY <2>1, <4>1, GrantedPriority
    <3>4. CASE owner[t] = a
      <4>1. ~Granting(p, t) \/ job[p].got = a
        <5> SUFFICES ASSUME Granting(p, t) PROVE job[p].got = a
          OBVIOUS
        <5>1. owner[t] = job[p].prev
          BY <3>1, <3>4 DEF Granting, GrantInv, Decided, Grant
        <5>2. state'[a] = "restart-needed"
          BY <3>1, <3>4, <5>1 DEF Granting, Grant, Evicts, TypeInv, RecordsTyped
        <5> QED BY <1>1, <5>2
      <4>2. ~(ReleaseExtra(p) /\ job[p].got = owner[t])
        BY <3>1, <3>4 DEF PlaceInv, ReleaseExtra, At
      <4>3. ~(DelWipeId(p) /\ job[p].tgt = t)
        BY <3>1, <3>4 DEF PlaceInv, DelWipeId, At
      <4> QED BY <2>1, <3>1, <3>4, <4>1, <4>2, <4>3, OwnerMoves
    <3>5. CASE Enqueuing(a, t)
      BY <2>1, <3>5, EnqueuesOn
    <3> QED BY <3>2, <3>3, <3>4, <3>5
  <2> QED BY <2>2, <2>3
<1>2. PlaceKept'
  BY <1>1 DEF PlaceKept
<1> QED BY <1>2, PlaceJobs DEF PlaceInv

\* A waiting allocation keeps its place on every target it asked for, through
\* evictions, lock timeouts, removals and deaths, unless owners give single targets
\* back, a request dies half way through its queues, or a removal wipes a target that
\* moved meanwhile.
THEOREM PlacesKept ==
    ASSUME ~Releases
    PROVE  /\ Spec /\ DeleteKeepsNewOwner
           /\ [][\A p \in Procs : At(p, "enqueue") => ~Crash(p)]_vars
           => []PlaceKept
<1> DEFINE Own == \A p \in Procs : DelWipeId(p) => owner[job[p].tgt] \in {job[p].cur, NoAlloc}
           Lives == \A p \in Procs : At(p, "enqueue") => ~Crash(p)
<1>1. Init => PlaceInv
  <2> SUFFICES ASSUME Init PROVE PlaceInv
    OBVIOUS
  <2>1. \A p \in Procs : job[p].pc = "idle"
    BY DEF Init, Idle
  <2>2. \A a \in Allocs : state[a] # "queued"
    BY DEF Init
  <2> QED BY <2>1, <2>2 DEF PlaceInv, PlaceKept, At
<1>2. Basis /\ PlaceInv /\ [Next]_vars /\ [Own]_vars /\ [Lives]_vars => PlaceInv'
  <2> SUFFICES ASSUME Basis, PlaceInv, [Next]_vars, [Own]_vars, [Lives]_vars PROVE PlaceInv'
    OBVIOUS
  <2>1. CASE UNCHANGED vars
    BY <2>1 DEF vars, PlaceInv, PlaceKept, Enqueuing, At
  <2>2. CASE Own /\ Lives
    BY <2>1, <2>2, PlaceTurn, Turns
  <2> QED BY <2>1, <2>2
<1>3. PlaceInv => PlaceKept
  BY DEF PlaceInv
<1> QED BY <1>1, <1>2, <1>3, BasisInvariant, PTL DEF Spec, DeleteKeepsNewOwner

-----------------------------------------------------------------------------
\* Nobody has a later stamp than the clock, and who goes into queues has the clock's;
\* a queue looked at before the lock misses only requests that are not earlier than
\* those it shows; nobody in the queue of a target being given asked for it before the
\* chosen one with its priority.
OrderInv ==
    /\ \A a \in Allocs : stamp[a] <= clock
    /\ \A p \in Procs : job[p].pc \in {"publish", "enqueue"} => stamp[job[p].cur] = clock
    /\ \A p \in Procs : At(p, "run_lock") =>
         \A b \in job[p].wq : \A a \in queue[job[p].tgt] : stamp[a] < stamp[b] => a \in job[p].wq
    /\ \A p \in Procs : At(p, "grant") =>
         \A a \in queue[job[p].tgt] :
            Live(a) /\ Prio[a] = Prio[job[p].got] => stamp[a] >= stamp[job[p].got]

\* The stamp of a request whose record is complete does not change.
LEMMA StampKept ==
    ASSUME Basis, NEW p \in Procs, Turn(p), NEW a \in Allocs, Served(a)
    PROVE  stamp'[a] = stamp[a]
<1> USE DEF Basis
<1>1. CASE ReqStamp(p)
  <2>1. job[p].cur # a
    BY <1>1 DEF Known, KnownJob, ReqStamp, At, Live, Served
  <2> QED BY <1>1, <2>1 DEF ReqStamp, TypeInv, RecordsTyped
<1> QED BY <1>1, RecordMoves

\* The clock goes on with a new stamp only, which is the clock's.
LEMMA ClockMoves ==
    ASSUME Basis, OrderInv, NEW p \in Procs, Turn(p)
    PROVE  /\ clock <= clock' /\ clock \in Nat /\ clock' \in Nat
           /\ \A a \in Allocs : stamp[a] \in Nat /\ stamp'[a] \in Nat /\ stamp'[a] <= clock'
           /\ ReqStamp(p) => stamp'[job[p].cur] = clock'
<1> USE DEF Basis
<1>1. clock \in Nat /\ \A a \in Allocs : stamp[a] \in Nat /\ stamp[a] <= clock
  BY BoundsAssumption DEF TypeInv, RestTyped, RecordsTyped, OrderInv
<1>2. CASE UNCHANGED <<stamp, clock>>
  <2>1. ~ReqStamp(p) \/ stamp'[job[p].cur] = clock'
    <3>1. ReqStamp(p) => job[p].cur \in Allocs
      BY RequestMoves
    <3> QED BY <1>2, <3>1 DEF ReqStamp, TypeInv, RecordsTyped
  <2> QED BY <1>1, <1>2, <2>1
<1>3. CASE ReqStamp(p)
  <2>1. PICK now \in clock .. MaxClock :
               clock' = now /\ stamp' = [stamp EXCEPT ![job[p].cur] = now]
    BY <1>3 DEF ReqStamp
  <2>2. job[p].cur \in Allocs /\ now \in Nat /\ clock <= now
    BY <1>1, <1>3, <2>1, RequestMoves, BoundsAssumption
  <2> QED BY <1>1, <2>1, <2>2 DEF TypeInv, RecordsTyped
<1> QED BY <1>2, <1>3, RecordMoves

\* While one worker serves requests, the one it puts into queues has the last stamp.
LEMMA LastStamp ==
    ASSUME Basis, OrderInv, \A v, w \in Workers : v = w,
           NEW p \in Procs, Turn(p), NEW q \in Procs,
           job'[q].pc \in {"publish", "enqueue"}
    PROVE  stamp'[job'[q].cur] = clock'
<1> USE DEF Basis
<1>1. CASE q = p
  <2>1. CASE ReqStamp(p)
    BY <1>1, <2>1, ClockMoves, RequestMoves
  <2>2. CASE ReqPublish(p)
    <3>1. job'[p].cur = job[p].cur /\ stamp' = stamp /\ clock' = clock /\ job[p].pc = "publish"
      BY <2>2, RequestMoves DEF ReqPublish
    <3> QED BY <1>1, <3>1 DEF OrderInv
  <2>3. CASE ReqEnqueue(p)
    <3>1. job'[p].cur = job[p].cur /\ stamp' = stamp /\ clock' = clock /\ job[p].pc = "enqueue"
      BY <2>3, EnqueueMoves DEF ReqEnqueue, records
    <3> QED BY <1>1, <3>1 DEF OrderInv
  <2>4. CASE Ends(p)
    BY <1>1, <2>4, EndsRest DEF Rest
  <2>5. ~(ReqResult(p) \/ RunLoad(p) \/ RunTake(p) \/ Grant(p) \/ CalcLock(p) \/ CalcRead(p)
          \/ CalcCounted(p) \/ CalcActivate(p) \/ ReleaseExtra(p) \/ DelActive(p)
          \/ DelOther(p) \/ DelCheck(p) \/ DelWipeId(p) \/ DelWipeMeta(p) \/ DelUnlock(p)
          \/ MaintVisit(p) \/ \E a \in Allocs : Request(p, a) \/ ClientDelete(p, a))
    BY <1>1, RequestMoves, RunMoves, CalcMoves, ActivateMoves, RemovalStarts, RemovalMoves
  <2>6. ASSUME UNCHANGED <<job, stamp, clock>> PROVE stamp'[job'[q].cur] = clock'
    BY <2>6 DEF OrderInv
  <2>7. ASSUME NEW a \in Allocs, Query(p, a) PROVE UNCHANGED <<job, stamp, clock>>
    BY <2>7 DEF Query, records
  <2>8. ASSUME NEW t \in Targets, OwnerCheck(p, t) PROVE UNCHANGED <<job, stamp, clock>>
    BY <2>8 DEF OwnerCheck, records
  <2>9. ASSUME NEW t \in Targets, NEW forced \in BOOLEAN, Release(p, t, forced)
        PROVE  UNCHANGED <<job, stamp, clock>>
    BY <2>9 DEF Release
  <2> QED
    BY <2>1, <2>2, <2>3, <2>4, <2>5, <2>6, <2>7, <2>8, <2>9 DEF Turn, Step, Ends
<1>2. CASE q # p
  <2>1. job'[q] = job[q] /\ q \in Workers
    BY <1>2, TurnOthers DEF Known, KnownJob
  <2>2. ~ReqStamp(p)
    BY <1>2, <2>1 DEF Known, KnownJob, ReqStamp, At
  <2>3. UNCHANGED <<stamp, clock>>
    BY <2>2, RecordMoves
  <2> QED BY <2>1, <2>3 DEF OrderInv
<1> QED BY <1>1, <1>2

\* A new entry of a queue is the last.
LEMMA NewIsLast ==
    ASSUME Basis, OrderInv, NEW p \in Procs, Turn(p), NEW t \in Targets,
           NEW a \in queue'[t], NEW b \in Allocs
    PROVE  a \in queue[t] \/ stamp'[a] >= stamp'[b]
<1> USE DEF Basis
<1>1. a \in queue[t] \/ (ReqEnqueue(p) /\ a = job[p].cur)
  BY QueueMoves
<1>2. ASSUME ReqEnqueue(p), a = job[p].cur PROVE stamp'[a] >= stamp'[b]
  <2>1. job[p].pc = "enqueue" /\ a \in Allocs
    BY <1>2, EnqueueMoves
  <2>2. stamp' = stamp /\ clock' = clock
    BY <1>2 DEF ReqEnqueue, records
  <2>3. stamp[a] = clock /\ stamp[b] <= clock /\ stamp[b] \in Nat
    BY <1>2, <2>1, ClockMoves DEF OrderInv
  <2> QED BY <2>2, <2>3
<1> QED BY <1>1, <1>2

\* What a process read of a queue before the lock stays right for the order.
LEMMA ReadOrder ==
    ASSUME Basis, OrderInv, NEW p \in Procs, Turn(p), NEW q \in Procs, At(q, "run_lock")',
           NEW b \in job'[q].wq, NEW a \in queue'[job'[q].tgt], stamp'[a] < stamp'[b]
    PROVE  a \in job'[q].wq
<1> USE DEF Basis
<1>1. CASE job'[q] = job[q]
  <2>1. /\ At(q, "run_lock") /\ job[q].tgt \in Targets /\ b \in job[q].wq /\ b \in Allocs
        /\ a \in queue'[job[q].tgt]
    BY <1>1 DEF At, TypeInv, JobTyped, Placed, Job
  <2>2. stamp'[a] \in Nat /\ stamp'[b] \in Nat /\ a \in queue[job[q].tgt] /\ a \in Allocs
    <3>1. a \in queue[job[q].tgt]
      <4>1. ~(stamp'[a] >= stamp'[b])
        <5>1. a \in Allocs
          BY <2>1, QueueMoves, EnqueueMoves DEF TypeInv, OwnershipTyped
        <5> QED BY <2>1, <5>1, ClockMoves
      <4> QED BY <2>1, <4>1, NewIsLast
    <3>2. a \in Allocs
      BY <2>1, <3>1 DEF TypeInv, OwnershipTyped
    <3> QED BY <2>1, <3>1, <3>2, ClockMoves
  <2>3. stamp'[a] = stamp[a] /\ stamp'[b] = stamp[b]
    <3>1. Served(a) /\ Served(b)
      BY <2>1, <2>2 DEF Known, KnownData, KnownJob, Asked
    <3> QED BY <2>1, <2>2, <3>1, StampKept
  <2> QED BY <1>1, <2>1, <2>2, <2>3 DEF OrderInv
<1>2. CASE job'[q] # job[q]
  <2>1. q = p
    BY <1>2, TurnOthers
  <2>2. ~Ends(p)
    BY <2>1, EndsRest DEF Rest, At
  <2>3. ~(\/ ReqStamp(p) \/ ReqPublish(p) \/ ReqEnqueue(p)
          \/ ReqResult(p) \/ RunTake(p) \/ Grant(p) \/ CalcLock(p) \/ CalcRead(p)
          \/ CalcCounted(p) \/ CalcActivate(p) \/ ReleaseExtra(p) \/ DelActive(p)
          \/ DelOther(p) \/ DelCheck(p) \/ DelWipeId(p) \/ DelWipeMeta(p) \/ DelUnlock(p)
          \/ MaintVisit(p) \/ \E c \in Allocs : Request(p, c) \/ ClientDelete(p, c))
    BY <2>1, RequestMoves, EnqueueMoves, RunMoves, CalcMoves, ActivateMoves, RemovalStarts,
       RemovalMoves DEF At
  <2>4. ASSUME NEW c \in Allocs PROVE ~Query(p, c)
    BY <1>2 DEF Query
  <2>5. ASSUME NEW t \in Targets PROVE ~OwnerCheck(p, t)
    BY <1>2 DEF OwnerCheck
  <2>6. ASSUME NEW t \in Targets, NEW forced \in BOOLEAN PROVE ~Release(p, t, forced)
    BY <1>2 DEF Release
  <2>7. RunLoad(p)
    BY <2>2, <2>3, <2>4, <2>5, <2>6 DEF Turn, Step, Ends
  <2>8. job'[p].tgt \in Targets /\ job'[p].wq = queue[job'[p].tgt] /\ queue' = queue
    BY <2>7, RunMoves DEF RunLoad, ownership
  <2> QED BY <2>1, <2>8
<1> QED BY <1>1, <1>2

\* Nobody who asked before the chosen one waits for the target when it is chosen, nor
\* comes to wait for it until the grant.
LEMMA ChosenOrder ==
    ASSUME Basis, OrderInv, NEW p \in Procs, Turn(p), NEW q \in Procs, At(q, "grant")',
           NEW a \in queue'[job'[q].tgt], Live(a)', Prio[a] = Prio[job'[q].got]
    PROVE  stamp'[a] >= stamp'[job'[q].got]
<1> USE DEF Basis
<1>1. CASE job'[q] = job[q]
  <2> DEFINE t == job[q].tgt
             w == job[q].got
  <2>1. At(q, "grant") /\ t \in Targets /\ w \in Allocs /\ a \in queue'[t]
    BY <1>1 DEF At, TypeInv, JobTyped, Placed
  <2>2. CASE a \in queue[t]
    <3>1. a \in Allocs /\ Served(a) /\ Served(w)
      BY <2>1, <2>2 DEF Known, KnownData, KnownJob, Asked, TypeInv, OwnershipTyped
    <3>2. Live(a)
      BY <3>1, StateMoves DEF Live, Served, States
    <3>3. stamp[a] >= stamp[w]
      BY <1>1, <2>1, <2>2, <3>2 DEF OrderInv
    <3> QED BY <1>1, <2>1, <3>1, <3>3, StampKept
  <2>3. CASE a \notin queue[t]
    BY <1>1, <2>1, <2>3, NewIsLast
  <2> QED BY <2>2, <2>3
<1>2. CASE job'[q] # job[q]
  <2>1. q = p /\ job[q].pc # "grant"
    <3>1. q = p
      BY <1>2, TurnOthers
    <3>2. Step(p) => RunTake(p)
      BY <3>1, SelfHolds
    <3>3. ~Crash(p) /\ ~MaintStart(p)
      BY <3>1, EndsRest DEF Ends, Rest, At
    <3>4. ~(\E c \in Allocs : Request(p, c) \/ ClientDelete(p, c))
      BY <3>1, RequestMoves, RemovalStarts DEF At
    <3>5. ASSUME NEW c \in Allocs PROVE ~Query(p, c)
      BY <1>2 DEF Query
    <3>6. ASSUME NEW t \in Targets PROVE ~OwnerCheck(p, t)
      BY <1>2 DEF OwnerCheck
    <3>7. ASSUME NEW t \in Targets, NEW forced \in BOOLEAN PROVE ~Release(p, t, forced)
      BY <1>2 DEF Release
    <3>8. RunTake(p)
      BY <3>2, <3>3, <3>4, <3>5, <3>6, <3>7 DEF Turn
    <3> QED BY <3>1, <3>8 DEF RunTake, At
  <2>2. RunTake(p)
    BY <1>2, <2>1, SelfHolds, EndsRest, RequestMoves, RemovalStarts
       DEF Turn, Ends, Rest, At, Query, OwnerCheck, Release
  <2>3. PICK w \in Allocs : /\ job'[p].got = w /\ w \in ValidWaiters(p) /\ FirstWaiter(p, w)
                            /\ job'[p].tgt = job[p].tgt /\ job[p].tgt \in Targets
                            /\ job[p].pc = "run_lock"
    BY <2>2, RunMoves
  <2> DEFINE t == job[p].tgt
  <2>4. stamp' = stamp /\ state' = state
    BY <2>2 DEF RunTake, records
  <2>5. a \in queue[t] /\ a \in Allocs /\ Live(a)
    BY <2>1, <2>2, <2>3, <2>4 DEF RunTake, TypeInv, OwnershipTyped, Live
  <2>6. stamp[a] \in Nat /\ stamp[w] \in Nat
    BY <2>5, ClockMoves
  <2>7. ASSUME stamp[a] < stamp[w] PROVE FALSE
    <3>1. a \in job[p].wq
      BY <2>3, <2>5, <2>7 DEF OrderInv, At, ValidWaiters
    <3>2. a \in ValidWaiters(p) \ {w}
      BY <2>5, <2>6, <2>7, <3>1 DEF ValidWaiters
    <3>3. Precedes(w, a) /\ Prio[a] = Prio[w]
      BY <2>1, <2>3, <3>2 DEF FirstWaiter
    <3>4. Prio[a] \in Nat
      BY <2>5, RequestsAssumption
    <3> QED BY <2>6, <2>7, <3>3, <3>4 DEF Precedes
  <2> QED BY <2>1, <2>3, <2>4, <2>6, <2>7
<1> QED BY <1>1, <1>2

\* While one worker serves requests, nobody is overtaken by a later request of its
\* priority: the queue the scheduler reads before it has the target's lock shows all who
\* asked before those it shows, and whoever comes while it waits for the lock came later.
THEOREM InOrder ==
    ASSUME \A v, w \in Workers : v = w
    PROVE  Spec => FirstComeFirstServed
<1> DEFINE Served1 ==
      \A t \in Targets, a, b \in Allocs :
         /\ a \in queue[t] /\ Live(a)
         /\ Prio[a] = Prio[b] /\ stamp[a] < stamp[b]
         => ~(owner'[t] = b /\ owner[t] # b)
<1>1. Init => OrderInv
  <2> SUFFICES ASSUME Init PROVE OrderInv
    OBVIOUS
  <2>1. \A p \in Procs : job[p].pc = "idle"
    BY DEF Init, Idle
  <2>2. \A a \in Allocs : stamp[a] <= clock
    BY DEF Init
  <2> QED BY <2>1, <2>2 DEF OrderInv, At
<1>2. Basis /\ OrderInv /\ [Next]_vars => OrderInv'
  <2> SUFFICES ASSUME Basis, OrderInv, [Next]_vars PROVE OrderInv'
    OBVIOUS
  <2>1. CASE UNCHANGED vars
    BY <2>1 DEF vars, OrderInv, Live, At
  <2>2. ASSUME NEW p \in Procs, Turn(p) PROVE OrderInv'
    <3>1. \A a \in Allocs : stamp'[a] <= clock'
      BY <2>2, ClockMoves
    <3> QED BY <2>2, <3>1, LastStamp, ReadOrder, ChosenOrder DEF OrderInv
  <2> QED BY <2>1, <2>2, Turns
<1>3. Basis /\ OrderInv /\ [Next]_vars => [Served1]_vars
  <2> SUFFICES ASSUME Basis, OrderInv, NEW p \in Procs, Turn(p), NEW t \in Targets,
                      NEW a \in Allocs, NEW b \in Allocs,
                      a \in queue[t], Live(a), Prio[a] = Prio[b], stamp[a] < stamp[b],
                      owner'[t] = b, owner[t] # b
               PROVE  FALSE
    BY Turns
  <2>1. Granting(p, t) /\ b = job[p].got
    BY NamesAssumption, OwnerMoves DEF Basis
  <2>2. stamp[a] >= stamp[b] /\ stamp[a] \in Nat /\ stamp[b] \in Nat
    BY <2>1, ClockMoves DEF OrderInv, Granting, Grant
  <2> QED BY <2>2
<1> QED BY <1>1, <1>2, <1>3, BasisInvariant, PTL DEF Spec, FirstComeFirstServed

-----------------------------------------------------------------------------
\* What the last theorems are about: nobody evicts or is made to give back, and when a
\* group is preferred to another it has one target at most that the other lacks.
SimpleChoice ==
    \A a \in Allocs : \A i, j \in DOMAIN Groups[a] :
        i < j => \A x, y \in Groups[a][i] \ Groups[a][j] : x = y

Peaceful == ~Releases /\ (\A a \in Allocs : ~Preempt[a]) /\ SimpleChoice

\* Removals that run at one time are of different allocations.
RemovedOnce ==
    \A p, q \in Procs : Removes(p) /\ Removes(q) /\ job[p].cur = job[q].cur => p = q

\* The record of a is there, and nobody has wiped what it had to remove it.
Stays(a) == Live(a) /\ ~\E p \in Procs : At(p, "del_rm") /\ job[p].cur = a

\* Group i is the one a uses, by the first of its names.
Chosen(a, i) ==
    Groups[a][i] = group[a] /\ \A j \in DOMAIN Groups[a] : j < i => Groups[a][j] # group[a]

\* Every group of a that has target x comes after the one it uses.
Spare(a, x) ==
    \A i \in DOMAIN Groups[a] : x \in Groups[a][i] =>
        \E j \in DOMAIN Groups[a] : j < i /\ Groups[a][j] = group[a]

-----------------------------------------------------------------------------
\* Only who computes an allocation has targets of it counted.
Counting(p) ==
    /\ job[p].held = {} \/ job[p].pc \in {"calc_read", "calc_write"}
    /\ At(p, "calc_write") => job[p].left = {}

\* Nobody is evicted.
Undisputed ==
    /\ \A p \in Procs : At(p, "grant") => job[p].prev = NoAlloc
    /\ \A a \in Allocs : state[a] # "restart-needed"

\* Who removes an active allocation wipes targets of its group that it still owns.
Removing(p) ==
    /\ Removes(p) => Live(job[p].cur)
    /\ job[p].pc \in {"del_check", "del_id", "del_meta"} =>
         state[job[p].cur] = "active" /\ job[p].left \subseteq group[job[p].cur]
    /\ job[p].pc \in {"del_id", "del_meta"} => job[p].tgt \in job[p].left
    /\ At(p, "del_id") => owner[job[p].tgt] = job[p].cur

\* An active allocation uses one of its groups.
UsesGroup ==
    \A a \in Allocs : state[a] = "active" => \E i \in DOMAIN Groups[a] : Chosen(a, i)

\* Extras are targets its present group does not need, nor any that could replace it.
Giving(p) ==
    At(p, "extras") =>
      LET a == job[p].got IN
      /\ state[a] \in {"active", "gone"}
      /\ Stays(a) => \A x \in job[p].left : Spare(a, x)

\* What was counted is still owned, or was an extra; the group in use is among what
\* was counted or is to be, unless the process has the allocation cached without any.
Measuring(p) ==
    LET a == job[p].got IN
    job[p].pc \in {"calc_read", "calc_write"} /\ Stays(a) =>
      /\ \A t \in job[p].held : owner[t] = a \/ (state[a] = "active" /\ Spare(a, t))
      /\ state[a] = "active" =>
           \/ job[p].left \cup job[p].held = {}
           \/ group[a] \subseteq job[p].left \cup job[p].held

Calm ==
    /\ \A p \in Procs : Counting(p) /\ Removing(p) /\ Giving(p) /\ Measuring(p)
    /\ Undisputed /\ UsesGroup /\ ActiveOwnsGroup

\* What a turn may rely on.
CalmTurn(p) == Turn(p) /\ RemovedOnce /\ ~(Removes(p) /\ Crash(p))

-----------------------------------------------------------------------------
\* Groups are numbered, and none is empty.
LEMMA GroupsNumbered ==
    ASSUME NEW a \in Allocs
    PROVE  \A i \in DOMAIN Groups[a] :
             i \in Nat /\ Groups[a][i] # {} /\ Groups[a][i] \subseteq TargetsOf(a)
  BY RequestsAssumption DEF TargetsOf

\* No extra is in the group in use.
LEMMA SpareUnused ==
    ASSUME UsesGroup, NEW a \in Allocs, state[a] = "active", NEW t, Spare(a, t)
    PROVE  t \notin group[a]
  BY DEF UsesGroup, Chosen, Spare

\* A removal goes on until the record is gone, unless the process dies.
LEMMA RemovalTurns ==
    ASSUME NEW p \in Procs, Turn(p)
    PROVE  /\ At(p, "del_lock") => DelActive(p) \/ DelOther(p) \/ RecordGone(p) \/ DelTimeout(p)
                                   \/ Crash(p)
           /\ At(p, "del_check") => DelCheck(p) \/ DelUnlock(p) \/ Crash(p)
           /\ At(p, "del_id") => DelWipeId(p) \/ Crash(p)
           /\ At(p, "del_meta") => DelWipeMeta(p) \/ Crash(p)
           /\ At(p, "del_rm") => DelRemove(p) \/ Crash(p)
<1> SUFFICES ASSUME job[p].pc \in Removal
             PROVE  /\ At(p, "del_lock") => DelActive(p) \/ DelOther(p) \/ RecordGone(p)
                                            \/ DelTimeout(p) \/ Crash(p)
                    /\ At(p, "del_check") => DelCheck(p) \/ DelUnlock(p) \/ Crash(p)
                    /\ At(p, "del_id") => DelWipeId(p) \/ Crash(p)
                    /\ At(p, "del_meta") => DelWipeMeta(p) \/ Crash(p)
                    /\ At(p, "del_rm") => DelRemove(p) \/ Crash(p)
  BY DEF At, Removal
<1>1. \/ DelActive(p) \/ DelOther(p) \/ DelCheck(p) \/ DelWipeId(p) \/ DelWipeMeta(p)
      \/ DelUnlock(p) \/ DelRemove(p) \/ RecordGone(p) \/ DelTimeout(p) \/ Crash(p)
  BY DEF Turn, Step, At, Removal, ReqStamp, ReqPublish, ReqEnqueue, ReqRun, ReqResult, RunLoad,
         RunDone, RunSkip, RunTake, Grant, GrantFails, CalcLock, CalcRead, CalcCounted,
         CalcActivate, CalcWait, ReleaseExtra, ExtrasDone, MaintVisit, MaintRun,
         LockTimeout, Waiting, MaintStart, Request, Query, ClientDelete, OwnerCheck, Release
<1> QED
  BY <1>1 DEF At, DelActive, DelOther, DelCheck, DelWipeId, DelWipeMeta, DelUnlock, DelRemove,
              RecordGone, DelTimeout

\* The lock of an allocation keeps its removal and its computation apart.
LEMMA LockedOut ==
    ASSUME TypeInv, LockInv, NEW p \in Procs, NEW q \in Procs, p # q
    PROVE  Locks(p) \cap Locks(q) = {}
<1>1. HoldsLocks(p) /\ HoldsLocks(q)
  BY DEF LockInv
<1> QED BY <1>1 DEF HoldsLocks

\* Without evictions the record of an allocation goes forward only, and it is removed
\* by who removes it.
LEMMA CalmState ==
    ASSUME Basis, Peaceful, Calm, NEW p \in Procs, CalmTurn(p), NEW a \in Allocs
    PROVE  \/ state'[a] = state[a]
           \/ state[a] \in {"none", "new", "stamped"} /\ state'[a] \in {"new", "stamped", "queued"}
           \/ /\ CalcActivate(p) /\ job[p].got = a
              /\ state[a] \in {"queued", "active"} /\ state'[a] = "active"
           \/ /\ DelRemove(p) \/ DelTimeout(p)
              /\ Removes(p) /\ job[p].cur = a /\ Live(a) /\ state'[a] = "gone"
<1> USE DEF Basis, CalmTurn
<1>1. ~(Grant(p) /\ job[p].prev = a /\ Evicts(p))
  BY NamesAssumption DEF Calm, Undisputed, Grant
<1>2. ~Forced(p, a)
  BY DEF Peaceful, Forced, Release
<1>3. CASE ReqStamp(p) /\ job[p].cur = a /\ Live(a)
  <2>1. state[a] \in {"new", "stamped"}
    BY <1>3 DEF Known, KnownJob, ReqStamp, At, Live
  <2> QED BY <2>1, <1>3, StateMoves DEF ReqStamp, TypeInv, RecordsTyped
<1>4. CASE ReqPublish(p) /\ job[p].cur = a /\ Live(a)
  <2>1. state[a] \in {"new", "stamped"}
    BY <1>4 DEF Known, KnownJob, ReqPublish, At, Live
  <2> QED BY <2>1, <1>4, StateMoves DEF ReqPublish, TypeInv, RecordsTyped
<1>5. CASE CalcActivate(p) /\ job[p].got = a /\ Live(a)
  <2>1. state[a] \in {"queued", "active"}
    BY <1>5 DEF Known, KnownJob, CalcActivate, At, Served, Live, Calm, Undisputed
  <2>2. state'[a] = "active"
    BY <1>5 DEF CalcActivate, TypeInv, RecordsTyped
  <2> QED BY <2>1, <2>2, <1>5
<1>6. CASE (DelRemove(p) \/ DelTimeout(p)) /\ job[p].cur = a /\ state'[a] = "gone"
  <2>1. Removes(p)
    BY <1>6, RemovalMoves DEF Removes, Removal
  <2> QED BY <1>6, <2>1 DEF Calm, Removing
<1> QED BY <1>1, <1>2, <1>3, <1>4, <1>5, <1>6, StateMoves

\* An active allocation stays so until it is gone.
LEMMA ActiveOn ==
    ASSUME Basis, Peaceful, Calm, NEW p \in Procs, CalmTurn(p), NEW a \in Allocs
    PROVE  /\ state[a] = "active" => state'[a] \in {"active", "gone"}
           /\ state[a] = "gone" => state'[a] = "gone"
           /\ state'[a] # "restart-needed"
           /\ state'[a] = "active" /\ state[a] # "active" => CalcActivate(p) /\ job[p].got = a
           /\ Live(a) => \/ Live(a)'
                         \/ /\ Removes(p) /\ job[p].cur = a
                            /\ DelRemove(p) \/ DelTimeout(p)
<1>1. state[a] \in States /\ state[a] # "restart-needed"
  BY DEF Basis, TypeInv, RecordsTyped, Calm, Undisputed
<1>2. Live(a) => state[a] \in {"new", "stamped", "queued", "active", "restart-needed"}
  BY DEF Live, States
<1>3. state'[a] \in {"new", "stamped", "queued", "active"} => Live(a)'
  BY DEF Live, States
<1>4. CASE state'[a] = state[a]
  BY <1>1, <1>4 DEF Live
<1>5. CASE /\ state[a] \in {"none", "new", "stamped"}
           /\ state'[a] \in {"new", "stamped", "queued"}
  BY <1>3, <1>5
<1>6. CASE /\ CalcActivate(p) /\ job[p].got = a
           /\ state[a] \in {"queued", "active"} /\ state'[a] = "active"
  BY <1>3, <1>6
<1>7. CASE /\ DelRemove(p) \/ DelTimeout(p)
           /\ Removes(p) /\ job[p].cur = a /\ Live(a) /\ state'[a] = "gone"
  BY <1>2, <1>7
<1> QED BY <1>4, <1>5, <1>6, <1>7, CalmState

\* Nobody goes back on a removal: an allocation that is about to vanish does so next.
LEMMA StaysBack ==
    ASSUME Basis, Peaceful, Calm, NEW p \in Procs, CalmTurn(p), NEW a \in Allocs,
           Served(a), Stays(a)'
    PROVE  Stays(a)
<1> USE DEF Basis, CalmTurn
<1>1. Live(a)' /\ state'[a] # "gone"
  BY DEF Stays, Live
<1>2. Live(a)
  <2>1. state[a] # "gone"
    BY <1>1, ActiveOn
  <2> QED BY <2>1 DEF Served, Live, States
<1>3. ASSUME NEW q \in Procs, At(q, "del_rm"), job[q].cur = a PROVE FALSE
  <2>1. CASE q = p
    <3>1. DelRemove(p)
      BY <1>3, <2>1, RemovalTurns DEF Removes, Removal, At
    <3>2. state'[a] = "gone"
      BY <1>3, <2>1, <3>1 DEF DelRemove, TypeInv, RecordsTyped
    <3> QED BY <1>1, <3>2
  <2>2. CASE q # p
    <3>1. job'[q] = job[q]
      BY <2>2, TurnOthers
    <3> QED BY <1>3, <3>1 DEF Stays, At
  <2> QED BY <2>1, <2>2
<1> QED BY <1>2, <1>3 DEF Stays

\* A removal that wipes goes on with it as long as the record is there.
LEMMA DeletingOn ==
    ASSUME Basis, Peaceful, Calm, NEW p \in Procs, CalmTurn(p), NEW a \in Allocs,
           Deleting(a), state'[a] # "gone"
    PROVE  Deleting(a)'
<1> USE DEF Basis, CalmTurn
<1>1. PICK q \in Procs : /\ job[q].cur = a
                         /\ job[q].pc \in {"del_check", "del_id", "del_meta", "del_rm"}
  BY DEF Deleting
<1>2. CASE q # p
  <2>1. job'[q] = job[q]
    BY <1>2, TurnOthers
  <2> QED BY <1>1, <2>1 DEF Deleting
<1>3. CASE q = p
  <2>1. ~Crash(p)
    BY <1>1, <1>3 DEF Removes, Removal
  <2>2. ~DelRemove(p)
    BY <1>1, <1>3 DEF DelRemove, TypeInv, RecordsTyped
  <2>3. DelCheck(p) \/ DelUnlock(p) \/ DelWipeId(p) \/ DelWipeMeta(p)
    BY <1>1, <1>3, <2>1, <2>2, RemovalTurns DEF At
  <2>4. /\ job'[p].cur = a
        /\ job'[p].pc \in {"del_check", "del_id", "del_meta", "del_rm"}
    BY <1>1, <1>3, <2>3, RemovalMoves
  <2> QED BY <2>4 DEF Deleting
<1> QED BY <1>2, <1>3

\* A target is given when nobody has it; its owner loses it as an extra, or when it is
\* removed.
LEMMA CalmOwner ==
    ASSUME Basis, Peaceful, Calm, NEW p \in Procs, CalmTurn(p),
           NEW t \in Targets, NEW a \in Allocs, owner[t] = a, Live(a)
    PROVE  \/ owner'[t] = a
           \/ ReleaseExtra(p) /\ job[p].got = a /\ t \in job[p].left
           \/ DelWipeId(p) /\ job[p].tgt = t /\ job[p].cur = a
<1> USE DEF Basis, CalmTurn
<1>1. ~Granting(p, t)
  <2> SUFFICES ASSUME Granting(p, t) PROVE FALSE
    OBVIOUS
  <2>1. At(p, "grant") /\ job[p].tgt = t
    BY DEF Granting, Grant
  <2>2. owner[t] \in {job[p].prev, NoAlloc} /\ job[p].prev = NoAlloc
    BY <2>1 DEF GrantInv, Decided, Calm, Undisputed
  <2> QED BY <2>2, NamesAssumption
<1>2. DelWipeId(p) /\ job[p].tgt = t => job[p].cur = a
  BY DEF DelWipeId, Calm, Removing
<1>3. ~Releases
  BY DEF Peaceful
<1> QED BY <1>1, <1>2, <1>3, OwnerMoves

\* The groups of an allocation are those it had, but where it is activated.
LEMMA GroupKept ==
    ASSUME Basis, NEW p \in Procs, Turn(p), NEW a \in Allocs,
           ~(CalcActivate(p) /\ job[p].got = a)
    PROVE  /\ group'[a] = group[a]
           /\ \A x : Spare(a, x) <=> Spare(a, x)'
           /\ \A i : Chosen(a, i) <=> Chosen(a, i)'
<1>1. group'[a] = group[a]
  BY RecordMoves, ActivateMoves DEF Basis, TypeInv, RecordsTyped
<1> QED BY <1>1 DEF Spare, Chosen

\* An active allocation has the targets of the first of its groups that was counted:
\* no later than the group it used before.
LEMMA Rechosen ==
    ASSUME Basis, Peaceful, Calm, NEW p \in Procs, CalcActivate(p),
           NEW a \in Allocs, job[p].got = a, Stays(a)
    PROVE  \E i \in DOMAIN Groups[a] :
             /\ FirstComplete(a, i, job[p].held)
             /\ group'[a] = Groups[a][i]
             /\ job'[p].got = a /\ job'[p].left = job[p].held \ Groups[a][i]
             /\ \A t \in Groups[a][i] : owner[t] = a
             /\ state[a] = "active" =>
                  \A j \in DOMAIN Groups[a] : Groups[a][j] = group[a] => i <= j
<1> USE DEF Basis
<1>1. PICK i \in DOMAIN Groups[a] :
             /\ FirstComplete(a, i, job[p].held)
             /\ group' = [group EXCEPT ![a] = Groups[a][i]]
             /\ job'[p].got = a /\ job'[p].left = job[p].held \ Groups[a][i]
  BY ActivateMoves
<1>2. group'[a] = Groups[a][i]
  BY <1>1 DEF TypeInv, RecordsTyped
<1>3. /\ Groups[a][i] \subseteq job[p].held
      /\ \A j \in DOMAIN Groups[a] : Groups[a][j] \subseteq job[p].held => i <= j
  BY <1>1, GroupsNumbered DEF FirstComplete, Complete
<1>4. At(p, "calc_write") /\ job[p].left = {}
  BY DEF CalcActivate, Calm, Counting
<1>5. /\ \A t \in job[p].held : owner[t] = a \/ (state[a] = "active" /\ Spare(a, t))
      /\ state[a] = "active" => job[p].held = {} \/ group[a] \subseteq job[p].held
  BY <1>4 DEF Calm, Measuring, At
<1>6. state[a] = "active" => group[a] \subseteq job[p].held
  BY <1>3, <1>5, GroupsNumbered
<1>7. state[a] = "active" => \A j \in DOMAIN Groups[a] : Groups[a][j] = group[a] => i <= j
  BY <1>3, <1>6
<1>8. ASSUME NEW t \in Groups[a][i] PROVE owner[t] = a
  <2> SUFFICES ASSUME state[a] = "active", Spare(a, t) PROVE FALSE
    BY <1>3, <1>5
  <2>1. PICK j \in DOMAIN Groups[a] : j < i /\ Groups[a][j] = group[a]
    BY DEF Spare
  <2> QED BY <1>7, <2>1, GroupsNumbered
<1> QED BY <1>1, <1>2, <1>7, <1>8

-----------------------------------------------------------------------------
\* Whoever does not compute an allocation has what he had counted, or nothing; only who
\* made a request has it to answer.
LEMMA HeldMoves ==
    ASSUME TypeInv, NEW p \in Procs, Turn(p)
    PROVE  /\ \/ job[p].pc \in {"calc_read", "calc_write"}
              \/ job'[p].held \in {job[p].held, {}}
           /\ \/ ReqRun(p)
              \/ job'[p].cont \in {job[p].cont, "idle", "scan"}
<1>0. job[p] \in Job /\ JobTyped
  BY DEF TypeInv, JobTyped
<1>1. CASE UNCHANGED job
  BY <1>1
<1>2. CASE ReqStamp(p) \/ ReqPublish(p) \/ ReqRun(p)
  <2>1. \/ job'[p] = [job[p] EXCEPT !.pc = "publish"]
        \/ job'[p] = [job[p] EXCEPT !.pc = "enqueue", !.todo = TargetsOf(job[p].cur)]
        \/ /\ ReqRun(p)
           /\ job'[p] = [job[p] EXCEPT !.pc = "run", !.cont = "result",
                                      !.todo = TargetsOf(job[p].cur)]
    BY <1>0, <1>2, GotoSelf DEF ReqStamp, ReqPublish, ReqRun
  <2> QED BY <1>0, <2>1 DEF Job
<1>3. CASE ReqEnqueue(p)
  BY <1>0, <1>3, GotoSelf DEF ReqEnqueue, Job
<1>4. CASE ReqResult(p)
  <2>1. CASE job'[p] = Idle
    BY <2>1 DEF Idle
  <2>2. CASE job'[p] = [job[p] EXCEPT !.pc = "del_lock", !.cont = "idle"]
    BY <1>0, <2>2 DEF Job
  <2> QED BY <1>0, <1>4, <2>1, <2>2, GotoSelf DEF ReqResult
<1>5. CASE RunLoad(p)
  <2>1. PICK t \in job[p].todo :
               job'[p] = [job[p] EXCEPT !.pc = "run_lock", !.tgt = t, !.wq = queue[t]]
    BY <1>0, <1>5, GotoSelf DEF RunLoad
  <2> QED BY <1>0, <2>1 DEF Job
<1>6. CASE RunDone(p)
  <2>1. \/ job'[p] = Idle
        \/ job'[p] = [job[p] EXCEPT !.pc = "result"]
        \/ job'[p] = [job[p] EXCEPT !.pc = "scan", !.cur = NoAlloc, !.cont = "idle"]
    BY <1>0, <1>6, GotoSelf DEF RunDone, Job
  <2>2. CASE job'[p] = Idle
    BY <2>2 DEF Idle
  <2>3. CASE job'[p] = [job[p] EXCEPT !.pc = "result"]
    BY <1>0, <2>3 DEF Job
  <2>4. CASE job'[p] = [job[p] EXCEPT !.pc = "scan", !.cur = NoAlloc, !.cont = "idle"]
    BY <1>0, <2>4 DEF Job
  <2> QED BY <2>1, <2>2, <2>3, <2>4
<1>7. CASE RunSkip(p) \/ ExtrasDone(p)
  <2>1. job'[p] = NextTarget(p)
    BY <1>0, <1>7, GotoSelf DEF RunSkip, ExtrasDone
  <2> QED BY <1>0, <2>1 DEF NextTarget, Job
<1>8. CASE RunTake(p)
  <2>1. PICK w \in ValidWaiters(p) :
               job'[p] = [job[p] EXCEPT !.pc = "grant", !.got = w,
                                        !.prev = ValidOwner(job[p].tgt)]
    BY <1>0, <1>8, GotoSelf DEF RunTake
  <2> QED BY <1>0, <2>1 DEF Job
<1>9. CASE Grant(p)
  BY <1>0, <1>9, GotoSelf DEF Grant, Job
<1>10. CASE GrantFails(p) \/ RecordGone(p) \/ LockTimeout(p) \/ DelTimeout(p) \/ Crash(p)
  <2>1. Goto(p, Idle)
    BY <1>10 DEF GrantFails, RecordGone, LockTimeout, DelTimeout, Crash, Unwind
  <2> QED BY <1>0, <2>1, GotoSelf DEF Idle
<1>11. CASE CalcLock(p)
  <2>1. job'[p] = [job[p] EXCEPT !.pc = "calc_read", !.left = Counted(p)]
    BY <1>0, <1>11, GotoSelf DEF CalcLock
  <2> QED BY <1>0, <2>1 DEF Job
<1>12. CASE CalcRead(p) \/ CalcCounted(p) \/ CalcActivate(p) \/ CalcWait(p)
  <2>1. job[p].pc \in {"calc_read", "calc_write"}
    BY <1>12 DEF CalcRead, CalcCounted, CalcActivate, CalcWait, At
  <2>2. \/ \E left, held : job'[p] = [job[p] EXCEPT !.left = left, !.held = held]
        \/ job'[p] = [job[p] EXCEPT !.pc = "calc_write"]
        \/ \E left : job'[p] = [job[p] EXCEPT !.pc = "extras", !.held = {}, !.left = left]
        \/ job'[p] = NextTarget(p)
    <3>1. CASE CalcRead(p)
      BY <1>0, <3>1, GotoSelf DEF CalcRead
    <3>2. CASE CalcCounted(p)
      BY <1>0, <3>2, GotoSelf DEF CalcCounted
    <3>3. CASE CalcActivate(p)
      BY <1>0, <3>3, GotoSelf DEF CalcActivate
    <3>4. CASE CalcWait(p)
      BY <1>0, <3>4, GotoSelf DEF CalcWait
    <3> QED BY <1>12, <3>1, <3>2, <3>3, <3>4
  <2>3. job'[p].cont = job[p].cont
    BY <1>0, <2>2 DEF Job, NextTarget
  <2> QED BY <2>1, <2>3
<1>13. CASE ReleaseExtra(p)
  <2>1. PICK t \in job[p].left : job'[p] = [job[p] EXCEPT !.left = @ \ {t}]
    BY <1>0, <1>13, GotoSelf DEF ReleaseExtra
  <2> QED BY <1>0, <2>1 DEF Job
<1>14. CASE DelActive(p) \/ DelUnlock(p) \/ DelRemove(p) \/ DelWipeId(p)
  <2>1. \/ job'[p] = [job[p] EXCEPT !.pc = "del_check", !.todo = group[job[p].cur],
                                   !.left = group[job[p].cur]]
        \/ \E loc \in PCs : job'[p] = [job[p] EXCEPT !.pc = loc]
    BY <1>0, <1>14, GotoSelf DEF DelActive, DelUnlock, DelRemove, DelWipeId, PCs
  <2> QED BY <1>0, <2>1 DEF Job
<1>15. CASE DelOther(p)
  <2>1. job'[p] = [job[p] EXCEPT !.pc = "del_rm",
                 !.todo = IF job[p].cur \in stale[p] THEN {} ELSE TargetsOf(job[p].cur)]
    BY <1>0, <1>15, GotoSelf DEF DelOther
  <2> QED BY <1>0, <2>1 DEF Job
<1>16. CASE DelCheck(p)
  <2>1. PICK t \in job[p].left :
               \/ job'[p] = [job[p] EXCEPT !.pc = "del_id", !.tgt = t]
               \/ job'[p] = [job[p] EXCEPT !.left = @ \ {t}]
    BY <1>0, <1>16, GotoSelf DEF DelCheck
  <2> QED BY <1>0, <2>1 DEF Job
<1>17. CASE DelWipeMeta(p)
  <2>1. job'[p] = [job[p] EXCEPT !.pc = "del_check", !.tgt = NoTarget,
                                 !.left = @ \ {job[p].tgt}]
    BY <1>0, <1>17, GotoSelf DEF DelWipeMeta
  <2> QED BY <1>0, <2>1 DEF Job
<1>18. CASE MaintVisit(p)
  <2>1. PICK a \in job[p].scan :
               \/ job'[p] = [job[p] EXCEPT !.scan = @ \ {a}]
               \/ job'[p] = [job[p] EXCEPT !.scan = @ \ {a}, !.pc = "del_lock",
                                          !.cur = a, !.cont = "scan"]
    BY <1>0, <1>18, GotoSelf DEF MaintVisit
  <2> QED BY <1>0, <2>1 DEF Job
<1>19. CASE MaintRun(p) \/ MaintStart(p)
  <2>1. \/ job'[p] = [job[p] EXCEPT !.pc = "run", !.todo = Targets]
        \/ job'[p] = [job[p] EXCEPT !.pc = "scan", !.scan = {a \in Allocs : Live(a)}]
    BY <1>0, <1>19, GotoSelf DEF MaintRun, MaintStart
  <2> QED BY <1>0, <2>1 DEF Job
<1>20. ASSUME NEW a \in Allocs, Request(p, a) \/ ClientDelete(p, a)
       PROVE  job'[p].held = job[p].held /\ job'[p].cont = job[p].cont
  <2>1. \/ job'[p] = [job[p] EXCEPT !.pc = "stamp", !.cur = a]
        \/ job'[p] = [job[p] EXCEPT !.pc = "del_lock", !.cur = a]
    BY <1>0, <1>20, GotoSelf DEF Request, ClientDelete
  <2> QED BY <1>0, <2>1 DEF Job
<1>21. ASSUME NEW a \in Allocs, Query(p, a) PROVE UNCHANGED job
  BY <1>21 DEF Query
<1>22. ASSUME NEW t \in Targets, OwnerCheck(p, t) PROVE UNCHANGED job
  BY <1>22 DEF OwnerCheck
<1>23. ASSUME NEW t \in Targets, NEW forced \in BOOLEAN, Release(p, t, forced)
       PROVE  UNCHANGED job
  BY <1>23 DEF Release
<1> QED
  BY <1>1, <1>2, <1>3, <1>4, <1>5, <1>6, <1>7, <1>8, <1>9, <1>10, <1>11, <1>12, <1>13, <1>14,
     <1>15, <1>16, <1>17, <1>18, <1>19, <1>20, <1>21, <1>22, <1>23 DEF Turn, Step

\* The places where an allocation is computed, its extras are given back or targets are
\* wiped are reached by the steps of the code that lead there, and no others.
LEMMA Arrivals ==
    ASSUME TypeInv, NEW p \in Procs, Turn(p), ~UNCHANGED job
    PROVE  /\ At(p, "calc_read")' => CalcLock(p) \/ CalcRead(p)
           /\ At(p, "calc_write")' => CalcCounted(p)
           /\ At(p, "extras")' => CalcActivate(p) \/ ReleaseExtra(p)
           /\ At(p, "grant")' => RunTake(p)
           /\ At(p, "result")' => job[p].cont = "result"
           /\ At(p, "del_lock")' => \/ ReqResult(p) \/ MaintVisit(p)
                                    \/ \E a \in Allocs : ClientDelete(p, a)
           /\ At(p, "del_id")' => DelCheck(p)
           /\ At(p, "del_meta")' => DelWipeId(p)
           /\ At(p, "del_check")' => DelActive(p) \/ DelCheck(p) \/ DelWipeMeta(p)
           /\ At(p, "del_rm")' => DelOther(p) \/ DelUnlock(p)
<1> DEFINE Loc == job'[p].pc
<1>1. CASE Ends(p)
  <2>1. Loc \in Rest
    BY <1>1, EndsRest
  <2>2. Loc = "result" => job[p].cont = "result"
    BY <1>1, EndsRest
  <2> QED BY <2>1, <2>2 DEF Rest, At
<1>2. CASE ReqStamp(p) \/ ReqPublish(p) \/ ReqEnqueue(p) \/ ReqResult(p)
  <2>1. \/ Loc \in {"publish", "enqueue", "idle"}
        \/ Loc = "del_lock" /\ ReqResult(p)
    BY <1>2, RequestMoves, EnqueueMoves
  <2> QED BY <2>1 DEF At
<1>3. CASE RunLoad(p) \/ RunTake(p) \/ Grant(p)
  <2>1. \/ Loc \in {"run_lock", "calc_lock"}
        \/ Loc = "grant" /\ RunTake(p)
    BY <1>3, RunMoves
  <2> QED BY <2>1 DEF At
<1>4. CASE CalcLock(p) \/ CalcRead(p) \/ CalcCounted(p) \/ CalcActivate(p) \/ ReleaseExtra(p)
  <2>1. \/ Loc = "calc_read" /\ (CalcLock(p) \/ CalcRead(p))
        \/ Loc = "calc_write" /\ CalcCounted(p)
        \/ Loc = "extras" /\ (CalcActivate(p) \/ ReleaseExtra(p))
    BY <1>4, CalcMoves, ActivateMoves
  <2> QED BY <2>1 DEF At
<1>5. CASE DelActive(p) \/ DelOther(p) \/ DelCheck(p) \/ DelWipeId(p) \/ DelWipeMeta(p)
           \/ DelUnlock(p)
  <2>1. \/ Loc = "del_id" /\ DelCheck(p)
        \/ Loc = "del_meta" /\ DelWipeId(p)
        \/ Loc = "del_check" /\ (DelActive(p) \/ DelCheck(p) \/ DelWipeMeta(p))
        \/ Loc = "del_rm" /\ (DelOther(p) \/ DelUnlock(p))
    BY <1>5, RemovalMoves
  <2> QED BY <2>1 DEF At
<1>6. CASE MaintVisit(p) \/ \E a \in Allocs : Request(p, a) \/ ClientDelete(p, a)
  <2>1. \/ Loc \in {"stamp", "scan"}
        \/ Loc = "del_lock" /\ (MaintVisit(p) \/ \E a \in Allocs : ClientDelete(p, a))
    BY <1>6, RequestMoves, RemovalStarts
  <2> QED BY <2>1 DEF At
<1>7. ASSUME NEW a \in Allocs PROVE ~Query(p, a)
  BY DEF Query
<1>8. ASSUME NEW t \in Targets PROVE ~OwnerCheck(p, t)
  BY DEF OwnerCheck
<1>9. ASSUME NEW t \in Targets, NEW forced \in BOOLEAN PROVE ~Release(p, t, forced)
  BY DEF Release
<1> QED
  BY <1>1, <1>2, <1>3, <1>4, <1>5, <1>6, <1>7, <1>8, <1>9 DEF Turn, Step, Ends

-----------------------------------------------------------------------------
\* Counting, and what is counted, stay with who computes.
LEMMA CountingOn ==
    ASSUME Basis, Calm, NEW p \in Procs, Turn(p), NEW q \in Procs
    PROVE  Counting(q)'
<1> USE DEF Basis
<1>0. Counting(p) /\ Counting(q)
  BY DEF Calm
<1>1. CASE job'[q] = job[q]
  BY <1>0, <1>1 DEF Counting, At
<1>2. CASE q = p /\ job'[p] # job[p]
  <2>1. At(p, "calc_write")' => job'[p].left = {}
    BY <1>2, Arrivals, CalcMoves
  <2>2. CASE job[p].pc \notin {"calc_read", "calc_write"}
    <3>1. job'[p].held = {}
      BY <1>0, <2>2, HeldMoves DEF Counting
    <3> QED BY <1>2, <2>1, <3>1 DEF Counting
  <2>3. CASE At(p, "calc_read")
    <3>1. job'[p].pc \in {"calc_read", "calc_write"} \/ job'[p].held = {}
      <4>1. CASE CalcRead(p) \/ CalcCounted(p)
        BY <4>1, CalcMoves
      <4>2. CASE Crash(p)
        BY <4>2, GotoSelf DEF Crash, Unwind, Idle, TypeInv
      <4> QED BY <2>3, <4>1, <4>2, CalcTurns
    <3> QED BY <1>2, <2>1, <3>1 DEF Counting
  <2>4. CASE At(p, "calc_write")
    <3>0. job[p] \in Job /\ JobTyped
      BY DEF TypeInv, JobTyped
    <3>1. job'[p].held = {}
      <4>1. CASE CalcActivate(p)
        <5>1. PICK i \in DOMAIN Groups[job[p].got] :
                job'[p] = [job[p] EXCEPT !.pc = "extras", !.held = {},
                                      !.left = job[p].held \ Groups[job[p].got][i]]
          BY <3>0, <4>1, GotoSelf DEF CalcActivate
        <5> QED BY <3>0, <5>1 DEF Job
      <4>2. CASE CalcWait(p)
        <5>1. job'[p] = NextTarget(p)
          BY <3>0, <4>2, GotoSelf DEF CalcWait
        <5> QED BY <3>0, <5>1 DEF NextTarget, Job
      <4>3. CASE RecordGone(p) \/ Crash(p)
        BY <3>0, <4>3, GotoSelf DEF RecordGone, Crash, Unwind, Idle
      <4> QED BY <2>4, <4>1, <4>2, <4>3, CalcTurns
    <3> QED BY <1>2, <2>1, <3>1 DEF Counting
  <2> QED BY <2>2, <2>3, <2>4 DEF At
<1> QED BY <1>1, <1>2, TurnOthers

\* Who takes a target finds it free.
LEMMA UndisputedOn ==
    ASSUME Basis, Peaceful, Calm, NEW p \in Procs, CalmTurn(p)
    PROVE  Undisputed'
<1> USE DEF Basis, CalmTurn
<1>1. ASSUME NEW q \in Procs, At(q, "grant")' PROVE job'[q].prev = NoAlloc
  <2>1. CASE job'[q] = job[q]
    BY <1>1, <2>1 DEF Calm, Undisputed, At
  <2>2. CASE q = p /\ RunTake(p)
    <3>1. job'[p].prev = ValidOwner(job[p].tgt) /\ MayTake(p, job'[p].got)
      BY <2>2, RunMoves
    <3>2. job[p].wq \subseteq Allocs
      BY DEF TypeInv, JobTyped, Job
    <3> QED BY <2>2, <3>1, <3>2 DEF MayTake, Peaceful
  <2> QED BY <1>1, <2>1, <2>2, Arrivals, TurnOthers
<1> QED BY <1>1, ActiveOn DEF Undisputed

\* A group in use is one of those asked for.
LEMMA UsesGroupOn ==
    ASSUME Basis, Peaceful, Calm, NEW p \in Procs, CalmTurn(p)
    PROVE  UsesGroup'
<1> USE DEF Basis, CalmTurn
<1> SUFFICES ASSUME NEW a \in Allocs, state'[a] = "active"
             PROVE  \E i \in DOMAIN Groups[a] : Chosen(a, i)'
  BY DEF UsesGroup
<1>1. CASE CalcActivate(p) /\ job[p].got = a
  <2>1. PICK i \in DOMAIN Groups[a] : /\ FirstComplete(a, i, job[p].held)
                                      /\ group' = [group EXCEPT ![a] = Groups[a][i]]
    BY <1>1, ActivateMoves
  <2>2. group'[a] = Groups[a][i]
    BY <2>1 DEF TypeInv, RecordsTyped
  <2>3. \A j \in DOMAIN Groups[a] : j < i => Groups[a][j] # Groups[a][i]
    BY <2>1 DEF FirstComplete, Complete
  <2>4. Chosen(a, i)'
    BY <2>2, <2>3 DEF Chosen
  <2> QED BY <2>4
<1>2. CASE ~(CalcActivate(p) /\ job[p].got = a)
  <2>1. state[a] = "active"
    BY <1>2, ActiveOn
  <2>2. PICK i \in DOMAIN Groups[a] : Chosen(a, i)
    BY <2>1 DEF Calm, UsesGroup
  <2>3. Chosen(a, i)'
    BY <1>2, <2>2, GroupKept
  <2> QED BY <2>3
<1> QED BY <1>1, <1>2

\* An active allocation has its group until a removal wipes it.
LEMMA OwnsGroupOn ==
    ASSUME Basis, Peaceful, Calm, NEW p \in Procs, CalmTurn(p)
    PROVE  ActiveOwnsGroup'
<1> USE DEF Basis, CalmTurn
<1> SUFFICES ASSUME NEW a \in Allocs, state'[a] = "active", ~Deleting(a)',
                    NEW t \in group'[a]
             PROVE  owner'[t] = a
  BY DEF ActiveOwnsGroup
<1>1. ~Deleting(a)
  BY DeletingOn
<1>2. CASE CalcActivate(p) /\ job[p].got = a
  <2>1. Stays(a)
    BY <1>1, <1>2 DEF Stays, Deleting, CalcActivate, At
  <2>2. owner[t] = a
    BY <1>2, <2>1, Rechosen
  <2> QED BY <1>2, <2>2 DEF CalcActivate, ownership
<1>3. CASE ~(CalcActivate(p) /\ job[p].got = a)
  <2>1. state[a] = "active" /\ t \in group[a] /\ Live(a)
    BY <1>3, ActiveOn, GroupKept DEF Live, States
  <2>2. owner[t] = a /\ t \in Targets
    BY <1>1, <2>1 DEF Calm, ActiveOwnsGroup, TypeInv, RecordsTyped
  <2>3. Stays(a)
    BY <1>1, <2>1 DEF Stays, Deleting, At
  <2>4. ~(ReleaseExtra(p) /\ job[p].got = a /\ t \in job[p].left)
    BY <2>1, <2>3, SpareUnused DEF Calm, Giving, ReleaseExtra
  <2>5. ~(DelWipeId(p) /\ job[p].tgt = t /\ job[p].cur = a)
    BY <1>1 DEF Deleting, DelWipeId, At
  <2> QED BY <2>1, <2>2, <2>4, <2>5, CalmOwner
<1> QED BY <1>2, <1>3

\* What a removal is about to wipe nobody else gives away.
LEMMA RemovingOn ==
    ASSUME Basis, Peaceful, Calm, NEW p \in Procs, CalmTurn(p), NEW q \in Procs
    PROVE  Removing(q)'
<1> USE DEF Basis, CalmTurn
<1>0. Removing(q) /\ Removing(p) /\ job[q] \in Job /\ Placed(job[q])
  BY DEF Calm, TypeInv, JobTyped
<1>1. CASE job'[q] = job[q] /\ ~(q = p /\ ~UNCHANGED job)
  <2>1. ASSUME NEW a \in Allocs, Removes(q), job[q].cur = a PROVE Live(a)'
    <3>2. ~(Removes(p) /\ job[p].cur = a /\ (DelRemove(p) \/ DelTimeout(p)))
      <4> SUFFICES ASSUME Removes(p), job[p].cur = a, DelRemove(p) \/ DelTimeout(p)
                   PROVE  FALSE
        OBVIOUS
      <4>1. p = q
        BY <2>1 DEF RemovedOnce
      <4>2. job'[p].pc \in Rest
        BY EndsRest DEF Ends
      <4> QED BY <1>1, <2>1, <4>1, <4>2 DEF Removes, Removal, Rest
    <3> QED BY <1>0, <2>1, <3>2, ActiveOn DEF Removing
  <2>2. ASSUME NEW a \in Allocs, job[q].cur = a,
               job[q].pc \in {"del_check", "del_id", "del_meta"}
        PROVE  state'[a] = "active" /\ job[q].left \subseteq group'[a]
    <3>1. Removes(q) /\ state[a] = "active" /\ job[q].left \subseteq group[a]
      BY <1>0, <2>2 DEF Removes, Removal, Removing
    <3>2. state'[a] = "active"
      BY <2>1, <2>2, <3>1, ActiveOn DEF Live
    <3>3. ~(CalcActivate(p) /\ job[p].got = a)
      <4> SUFFICES ASSUME CalcActivate(p), job[p].got = a PROVE FALSE
        OBVIOUS
      <4>1. job[p].pc = "calc_write" /\ p # q
        BY <2>2 DEF CalcActivate, At
      <4>2. a \in Locks(p) \cap Locks(q)
        BY <2>2, <4>1 DEF Locks
      <4> QED BY <4>1, <4>2, LockedOut
    <3> QED BY <3>1, <3>2, <3>3, GroupKept
  <2>3. ASSUME At(q, "del_id") PROVE owner'[job[q].tgt] = job[q].cur
    <3> DEFINE a == job[q].cur
               t == job[q].tgt
    <3>1. /\ a \in Allocs /\ t \in Targets /\ Removes(q)
          /\ owner[t] = a /\ state[a] = "active" /\ Live(a) /\ t \in group[a]
      BY <1>0, <2>3 DEF Removes, Removal, Removing, Placed, At
    <3>2. Stays(a)
      <4> SUFFICES ASSUME NEW r \in Procs, At(r, "del_rm"), job[r].cur = a PROVE FALSE
        BY <3>1 DEF Stays
      <4>1. r = q
        BY <3>1 DEF RemovedOnce, Removes, Removal, At
      <4> QED BY <2>3, <4>1 DEF At
    <3>3. ~(ReleaseExtra(p) /\ job[p].got = a /\ t \in job[p].left)
      BY <3>1, <3>2, SpareUnused DEF Calm, Giving, ReleaseExtra
    <3>4. ~(DelWipeId(p) /\ job[p].tgt = t /\ job[p].cur = a)
      <4> SUFFICES ASSUME DelWipeId(p), job[p].cur = a PROVE FALSE
        OBVIOUS
      <4>1. job[p].pc = "del_id" /\ job'[p].pc = "del_meta"
        BY RemovalMoves
      <4>2. p = q
        BY <3>1, <4>1 DEF RemovedOnce, Removes, Removal
      <4> QED BY <1>1, <4>1, <4>2
    <3> QED BY <3>1, <3>3, <3>4, CalmOwner
  <2>4. Removes(q) => job[q].cur \in Allocs
    BY <1>0 DEF Removes, Removal, Placed
  <2>5. PICK a : job[q].cur = a
    OBVIOUS
  <2>6. Removes(q) => a \in Allocs /\ Live(a)'
    BY <2>1, <2>4, <2>5
  <2>7. job[q].pc \in {"del_check", "del_id", "del_meta"} =>
          state'[a] = "active" /\ job[q].left \subseteq group'[a]
    BY <2>2, <2>4, <2>5 DEF Removes, Removal
  <2> QED BY <1>0, <1>1, <2>3, <2>5, <2>6, <2>7 DEF Removing, Removes, At, Live
<1>2. CASE q = p /\ ~UNCHANGED job
  <2>0. PICK a : job'[p].cur = a
    OBVIOUS
  <2>1. CASE DelActive(p)
    <3>1. /\ job'[p].pc = "del_check" /\ job'[p].cur = job[p].cur /\ job[p].cur \in Allocs
          /\ job'[p].left = group[job[p].cur] /\ state[job[p].cur] = "active"
          /\ UNCHANGED records
      BY <2>1, RemovalMoves DEF DelActive
    <3>2. state'[job'[p].cur] = "active" /\ job'[p].left \subseteq group'[job'[p].cur]
      BY <3>1 DEF records
    <3> QED BY <1>2, <3>1, <3>2 DEF Removing, Removes, Removal, Live, States, At
  <2>2. CASE DelOther(p) \/ DelUnlock(p)
    <3>1. /\ job'[p].pc = "del_rm" /\ job'[p].cur = job[p].cur /\ UNCHANGED records
          /\ Removes(p)
      BY <2>2, RemovalMoves DEF DelOther, DelUnlock, Removes, Removal
    <3>2. Live(a)'
      BY <1>0, <2>0, <3>1 DEF Removing, Live, records
    <3> QED BY <1>2, <2>0, <3>1, <3>2 DEF Removing, Removes, Removal, At, Live
  <2>3. CASE DelCheck(p) \/ DelWipeId(p) \/ DelWipeMeta(p)
    <3>1. /\ job[p].pc \in {"del_check", "del_id", "del_meta"} /\ job'[p].cur = job[p].cur
          /\ job'[p].left \subseteq job[p].left
          /\ UNCHANGED records
      BY <2>3, RemovalMoves DEF DelCheck, DelWipeId, DelWipeMeta
    <3>2. state'[job'[p].cur] = "active" /\ job'[p].left \subseteq group'[job'[p].cur]
      BY <1>0, <1>2, <3>1 DEF Removing, records
    <3>3. /\ job'[p].pc \in {"del_id", "del_meta"} => job'[p].tgt \in job'[p].left
          /\ job'[p].pc = "del_id" => owner'[job'[p].tgt] = job'[p].cur
      <4>1. CASE DelCheck(p)
        <5>1. UNCHANGED owner
          BY <4>1 DEF DelCheck, ownership
        <5> QED BY <4>1, <5>1, RemovalMoves
      <4>2. CASE DelWipeId(p)
        BY <1>0, <1>2, <4>2, RemovalMoves DEF Removing
      <4>3. CASE DelWipeMeta(p)
        BY <4>3, RemovalMoves
      <4> QED BY <2>3, <4>1, <4>2, <4>3
    <3>4. job'[p].pc # "del_rm" /\ job'[p].pc # "del_lock"
      BY <2>3, RemovalMoves
    <3> QED BY <1>2, <3>2, <3>3, <3>4 DEF Removing, At, Live, States
  <2>4. CASE At(p, "del_lock")'
    <3>1. ReqResult(p) \/ MaintVisit(p) \/ \E b \in Allocs : ClientDelete(p, b)
      BY <1>2, <2>4, Arrivals
    <3>2. Live(a)
      BY <2>0, <2>4, <3>1, RequestMoves, RemovalStarts DEF At
    <3>3. UNCHANGED records
      BY <3>1 DEF ReqResult, MaintVisit, ClientDelete
    <3>4. Live(a)'
      BY <3>2, <3>3 DEF Live, records
    <3> QED BY <1>2, <2>0, <2>4, <3>4 DEF Removing, Removes, Removal, At, Live
  <2>5. CASE job'[p].pc \notin Removal
    BY <1>2, <2>5 DEF Removing, Removes, Removal, At
  <2> QED BY <1>2, <2>1, <2>2, <2>3, <2>4, <2>5, Arrivals DEF Removal, At
<1> QED BY <1>1, <1>2, TurnOthers

\* Extras stay extras: who chooses a group again chooses no later one.
LEMMA SpareOn ==
    ASSUME Basis, Peaceful, Calm, NEW p \in Procs, CalmTurn(p),
           NEW a \in Allocs, Stays(a), state[a] = "active", NEW x, Spare(a, x)
    PROVE  Spare(a, x)'
<1>1. CASE CalcActivate(p) /\ job[p].got = a
  <2>1. PICK i \in DOMAIN Groups[a] :
               /\ group'[a] = Groups[a][i]
               /\ \A j \in DOMAIN Groups[a] : Groups[a][j] = group[a] => i <= j
    BY <1>1, Rechosen
  <2>2. ASSUME NEW k \in DOMAIN Groups[a], x \in Groups[a][k] PROVE i < k
    <3>1. PICK j \in DOMAIN Groups[a] : j < k /\ Groups[a][j] = group[a]
      BY <2>2 DEF Spare
    <3> QED BY <2>1, <3>1, GroupsNumbered
  <2>3. \A k \in DOMAIN Groups[a] : x \in Groups[a][k] =>
          \E j \in DOMAIN Groups[a] : j < k /\ Groups[a][j] = group'[a]
    BY <2>1, <2>2
  <2> QED BY <2>3 DEF Spare
<1>2. CASE ~(CalcActivate(p) /\ job[p].got = a)
  BY <1>2, GroupKept DEF CalmTurn
<1> QED BY <1>1, <1>2

\* What is beyond the first complete group is only in groups that come after it: one
\* before it would be complete, being all of it held but for that one target.
LEMMA ExtrasSpare ==
    ASSUME Peaceful, NEW p \in Procs, NEW a \in Allocs, NEW i \in DOMAIN Groups[a],
           FirstComplete(a, i, job[p].held), group'[a] = Groups[a][i],
           NEW x \in job[p].held \ Groups[a][i]
    PROVE  Spare(a, x)'
<1>1. ASSUME NEW k \in DOMAIN Groups[a], x \in Groups[a][k] PROVE i < k
  <2> SUFFICES ASSUME k < i PROVE FALSE
    BY <1>1, GroupsNumbered
  <2>1. \A y \in Groups[a][k] \ Groups[a][i] : y = x
    BY <1>1 DEF Peaceful, SimpleChoice
  <2>2. Groups[a][i] \subseteq job[p].held
    BY DEF FirstComplete, Complete
  <2>3. Groups[a][k] \subseteq job[p].held
    BY <2>1, <2>2
  <2> QED BY <2>3 DEF FirstComplete, Complete
<1>2. \A k \in DOMAIN Groups[a] : x \in Groups[a][k] =>
        \E j \in DOMAIN Groups[a] : j < k /\ Groups[a][j] = group'[a]
  BY <1>1
<1> QED BY <1>2 DEF Spare

\* Extras are given back by who found them so.
LEMMA GivingOn ==
    ASSUME Basis, Peaceful, Calm, NEW p \in Procs, CalmTurn(p), NEW q \in Procs
    PROVE  Giving(q)'
<1> USE DEF Basis, CalmTurn
<1> SUFFICES ASSUME At(q, "extras")', NEW a, a = job'[q].got
             PROVE  /\ state'[a] \in {"active", "gone"}
                    /\ Stays(a)' => \A x \in job'[q].left : Spare(a, x)'
  BY DEF Giving, Stays, Spare, Live
<1>0. Giving(q) /\ job[q] \in Job /\ Placed(job[q]) /\ KnownJob(q)
  BY DEF Calm, TypeInv, JobTyped, Known
<1>1. CASE At(q, "extras") /\ job'[q].got = job[q].got /\ job'[q].left \subseteq job[q].left
  <2>1. a \in Allocs /\ Served(a)
    BY <1>0, <1>1 DEF At, Placed, KnownJob
  <2>2. state[a] \in {"active", "gone"} /\ (Stays(a) => \A x \in job[q].left : Spare(a, x))
    BY <1>0, <1>1 DEF Giving
  <2>3. ASSUME Stays(a)', NEW x \in job'[q].left PROVE Spare(a, x)'
    <3>1. Stays(a)
      BY <2>1, <2>3, StaysBack
    <3>2. state[a] = "active" /\ Spare(a, x)
      BY <1>1, <2>2, <2>3, <3>1 DEF Stays, Live
    <3> QED BY <2>1, <3>1, <3>2, SpareOn
  <2> QED BY <2>1, <2>2, <2>3, ActiveOn
<1>2. CASE q = p /\ CalcActivate(p)
  <2>1. a \in Allocs /\ a = job[p].got /\ At(p, "calc_write") /\ state'[a] = "active"
    BY <1>2, ActivateMoves DEF CalcActivate, TypeInv, RecordsTyped
  <2>2. PICK i \in DOMAIN Groups[a] :
               /\ FirstComplete(a, i, job[p].held)
               /\ group' = [group EXCEPT ![a] = Groups[a][i]]
               /\ job'[p].left = job[p].held \ Groups[a][i]
    BY <1>2, <2>1, ActivateMoves
  <2>3. group'[a] = Groups[a][i]
    BY <2>1, <2>2 DEF TypeInv, RecordsTyped
  <2> QED BY <1>2, <2>1, <2>2, <2>3, ExtrasSpare
<1>3. job'[q] # job[q] => q = p /\ (CalcActivate(p) \/ ReleaseExtra(p))
  BY Arrivals, TurnOthers
<1>4. CASE job'[q] = job[q]
  BY <1>1, <1>4 DEF At
<1>5. CASE q = p /\ ReleaseExtra(p)
  BY <1>1, <1>5, CalcMoves DEF At
<1> QED BY <1>2, <1>3, <1>4, <1>5

\* What another process computes is not changed under it but by who gives extras back.
LEMMA MeasuringOthers ==
    ASSUME Basis, Peaceful, Calm, NEW p \in Procs, CalmTurn(p), NEW q \in Procs, q # p,
           job[q].pc \in {"calc_read", "calc_write"}, NEW a \in Allocs, a = job[q].got,
           Stays(a)'
    PROVE  /\ \A t \in job[q].held : owner'[t] = a \/ (state'[a] = "active" /\ Spare(a, t)')
           /\ state'[a] = "active" =>
                \/ job[q].left \cup job[q].held = {}
                \/ group'[a] \subseteq job[q].left \cup job[q].held
<1> USE DEF Basis, CalmTurn
<1>0. Measuring(q) /\ job[q] \in Job /\ KnownJob(q)
  BY DEF Calm, TypeInv, JobTyped, Known
<1>1. Served(a)
  BY <1>0 DEF KnownJob
<1>2. Stays(a) /\ Live(a)
  BY <1>1, StaysBack DEF Stays
<1>3. /\ \A t \in job[q].held : owner[t] = a \/ (state[a] = "active" /\ Spare(a, t))
      /\ state[a] = "active" => \/ job[q].left \cup job[q].held = {}
                                \/ group[a] \subseteq job[q].left \cup job[q].held
  BY <1>0, <1>2 DEF Measuring
<1>4. a \in Locks(q)
  BY DEF Locks
<1>5. ~(CalcActivate(p) /\ job[p].got = a)
  <2> SUFFICES ASSUME CalcActivate(p), job[p].got = a PROVE FALSE
    OBVIOUS
  <2>1. a \in Locks(p)
    BY ActivateMoves DEF Locks
  <2> QED BY <1>4, <2>1, LockedOut
<1>6. group'[a] = group[a] /\ (state'[a] = "active" <=> state[a] = "active")
  <2>1. state'[a] # "gone"
    BY DEF Stays, Live
  <2> QED BY <1>5, <2>1, GroupKept, ActiveOn
<1>7. ASSUME NEW t \in job[q].held
      PROVE  owner'[t] = a \/ (state'[a] = "active" /\ Spare(a, t)')
  <2>1. CASE state[a] = "active" /\ Spare(a, t)
    BY <1>2, <1>6, <2>1, SpareOn
  <2>2. CASE owner[t] = a
    <3>1. t \in Targets
      BY <1>0 DEF Job
    <3>2. ~(DelWipeId(p) /\ job[p].cur = a)
      <4> SUFFICES ASSUME DelWipeId(p), job[p].cur = a PROVE FALSE
        OBVIOUS
      <4>1. a \in Locks(p)
        BY RemovalMoves DEF Locks
      <4> QED BY <1>4, <4>1, LockedOut
    <3>3. CASE ReleaseExtra(p) /\ job[p].got = a /\ t \in job[p].left
      <4>1. state[a] = "active" /\ Spare(a, t)
        BY <1>2, <3>3 DEF Calm, Giving, ReleaseExtra, Live
      <4> QED BY <1>2, <1>6, <4>1, SpareOn
    <3> QED BY <1>2, <2>2, <3>1, <3>2, <3>3, CalmOwner
  <2> QED BY <1>3, <2>1, <2>2
<1> QED BY <1>3, <1>6, <1>7

\* Who computes an allocation counts the targets of its group: it has them, as its
\* lock keeps removals away.
LEMMA MeasuringOn ==
    ASSUME Basis, Peaceful, Calm, NEW p \in Procs, CalmTurn(p), NEW q \in Procs
    PROVE  Measuring(q)'
<1> USE DEF Basis, CalmTurn
<1> SUFFICES ASSUME job'[q].pc \in {"calc_read", "calc_write"}, NEW a, a = job'[q].got,
                    Stays(a)'
             PROVE  /\ \A t \in job'[q].held :
                         owner'[t] = a \/ (state'[a] = "active" /\ Spare(a, t)')
                    /\ state'[a] = "active" =>
                         \/ job'[q].left \cup job'[q].held = {}
                         \/ group'[a] \subseteq job'[q].left \cup job'[q].held
  BY DEF Measuring, Stays, Spare, Live
<1>0. /\ Measuring(q) /\ Counting(q) /\ job[q] \in Job /\ Placed(job[q]) /\ KnownJob(q)
  BY DEF Calm, TypeInv, JobTyped, Known
<1>1. CASE q # p
  <2>1. job'[q] = job[q]
    BY <1>1, TurnOthers
  <2>2. a \in Allocs
    BY <1>0, <2>1 DEF Placed
  <2> QED BY <1>1, <2>1, <2>2, MeasuringOthers
<1>2. CASE q = p /\ UNCHANGED <<state, owner, group>>
  <2>1. ASSUME a \in Allocs, Served(a) PROVE Stays(a) /\ Live(a)
    BY <2>1, StaysBack DEF Stays
  <2>2. CASE UNCHANGED job
    <3>1. a \in Allocs /\ Served(a)
      BY <1>0, <2>2 DEF Placed, KnownJob
    <3> QED BY <1>0, <1>2, <2>1, <2>2, <3>1 DEF Measuring, Spare
  <2>3. CASE CalcLock(p)
    <3>1. /\ job[p].pc = "calc_lock" /\ job'[p].left = Counted(p) /\ job'[p].held = job[p].held
          /\ a = job[p].got /\ a \in Allocs
      BY <1>2, <2>3, CalcMoves
    <3>2. job'[p].held = {} /\ job'[p].left \in {{}, TargetsOf(a)}
      BY <1>0, <1>2, <3>1 DEF Counting, Counted
    <3>3. state[a] = "active" => group[a] \subseteq TargetsOf(a)
      BY <3>1, GroupsNumbered DEF Calm, UsesGroup, Chosen
    <3> QED BY <1>2, <3>2, <3>3
  <2>4. CASE CalcCounted(p)
    <3>1. /\ job[p].pc = "calc_read" /\ job'[p].left = job[p].left
          /\ job'[p].held = job[p].held
          /\ a = job[p].got /\ a \in Allocs
      BY <1>2, <2>4, CalcMoves
    <3>2. Stays(a)
      BY <1>0, <1>2, <2>1, <3>1 DEF KnownJob
    <3> QED BY <1>0, <1>2, <3>1, <3>2 DEF Measuring, Spare
  <2>5. CASE CalcRead(p)
    <3>1. job[p].pc = "calc_read" /\ a = job[p].got /\ a \in Allocs
      BY <1>2, <2>5, CalcMoves
    <3>2. PICK t \in job[p].left :
                 /\ job'[p].left = job[p].left \ {t}
                 /\ job'[p].held = IF owner[t] = a THEN job[p].held \cup {t} ELSE job[p].held
      BY <1>2, <2>5, <3>1, CalcMoves
    <3>3. Stays(a)
      BY <1>0, <1>2, <2>1, <3>1 DEF KnownJob
    <3>4. /\ \A x \in job[p].held : owner[x] = a \/ (state[a] = "active" /\ Spare(a, x))
          /\ state[a] = "active" => group[a] \subseteq job[p].left \cup job[p].held
      BY <1>0, <1>2, <3>1, <3>2, <3>3 DEF Measuring
    <3>5. state[a] = "active" /\ t \in group[a] => owner[t] = a
      <4>1. ~Deleting(a)
        <5> SUFFICES ASSUME NEW r \in Procs, job[r].cur = a,
                            job[r].pc \in {"del_check", "del_id", "del_meta"}
                     PROVE  FALSE
          BY <3>3 DEF Stays, Deleting, At
        <5>1. r # p /\ a \in Locks(r) /\ a \in Locks(p)
          BY <3>1 DEF Locks
        <5> QED BY <5>1, LockedOut
      <4> QED BY <3>1, <4>1 DEF Calm, ActiveOwnsGroup
    <3>6. state[a] = "active" => group[a] \subseteq job'[p].left \cup job'[p].held
      BY <3>2, <3>4, <3>5
    <3>7. \A x \in job'[p].held : owner[x] = a \/ (state[a] = "active" /\ Spare(a, x))
      BY <3>2, <3>4
    <3> QED BY <1>2, <3>6, <3>7 DEF Spare
  <2> QED BY <1>2, <2>2, <2>3, <2>4, <2>5, Arrivals DEF At
<1>3. q = p => UNCHANGED <<state, owner, group>>
  <2>1. CASE CalcLock(p) \/ CalcRead(p) \/ CalcCounted(p)
    BY <2>1 DEF CalcLock, CalcRead, CalcCounted, records, ownership
  <2>2. ASSUME q = p, UNCHANGED job PROVE CalcRead(p) \/ CalcCounted(p)
    <3>1. ~CalcActivate(p)
      BY <2>2, ActivateMoves
    <3>2. ~(CalcWait(p) \/ RecordGone(p) \/ Crash(p))
      BY <2>2, EndsRest DEF Ends, Rest
    <3> QED BY <2>2, <3>1, <3>2, CalcTurns DEF At
  <2> QED BY <2>1, <2>2, Arrivals DEF At
<1> QED BY <1>1, <1>2, <1>3

\* Every turn keeps all of it.
LEMMA CalmStep ==
    ASSUME Basis, Peaceful, Calm, NEW p \in Procs, CalmTurn(p)
    PROVE  Calm'
BY CountingOn, RemovingOn, GivingOn, MeasuringOn, UndisputedOn, UsesGroupOn, OwnsGroupOn
   DEF Calm, CalmTurn

\* Nothing is owned, active or under way at the start.
LEMMA CalmInit == Init => Calm
<1> SUFFICES ASSUME Init PROVE Calm
  OBVIOUS
<1>1. \A p \in Procs : job[p].pc = "idle" /\ job[p].held = {}
  BY DEF Init, Idle
<1>2. \A a \in Allocs : state[a] = "none"
  BY DEF Init
<1> QED
  BY <1>1, <1>2
     DEF Calm, Counting, Removing, Giving, Measuring, Undisputed, UsesGroup, ActiveOwnsGroup,
         Removes, Removal, At

\* A removal that dies leaves an active allocation with part of its targets.
RemovalsSurvive == \A p \in Procs : Removes(p) => ~Crash(p)

\* Without evictions, releases of single targets, two removals of one allocation at a
\* time or deaths in the middle of one: what handlers do in separate steps, under
\* different locks or none, fits together.
THEOREM CalmInvariant ==
    ASSUME Peaceful
    PROVE  Spec /\ []RemovedOnce /\ [][RemovalsSurvive]_vars => [](Basis /\ Calm)
<1>1. Basis /\ Calm /\ RemovedOnce /\ [Next]_vars /\ [RemovalsSurvive]_vars => Calm'
  <2> SUFFICES ASSUME Basis, Calm, RemovedOnce, [Next]_vars, [RemovalsSurvive]_vars
               PROVE  Calm'
    OBVIOUS
  <2>1. CASE UNCHANGED vars
    BY <2>1
       DEF vars, Calm, Counting, Removing, Giving, Measuring, Undisputed, UsesGroup,
           ActiveOwnsGroup, Deleting, Removes, At, Live, Stays, Spare, Chosen
  <2>2. CASE RemovalsSurvive
    BY <2>1, <2>2, CalmStep, Turns DEF CalmTurn, RemovalsSurvive
  <2> QED BY <2>1, <2>2
<1> QED BY <1>1, CalmInit, BasisInvariant, PTL DEF Spec

\* "active: all the targets in a group have been succesfully allocated": the targets of
\* the group an active allocation uses are its own, although they are counted without
\* their locks and extras are given back after the lock of the allocation was dropped.
THEOREM GroupOwned ==
    ASSUME Peaceful
    PROVE  Spec /\ []RemovedOnce /\ [][RemovalsSurvive]_vars => []ActiveOwnsGroup
<1>1. Calm => ActiveOwnsGroup
  BY DEF Calm
<1> QED BY <1>1, CalmInvariant, PTL

\* A removal takes no target from another allocation between its check and its wipe,
\* which happen without the target's lock.
THEOREM RemovalTakesItsOwn ==
    ASSUME Peaceful
    PROVE  Spec /\ []RemovedOnce /\ [][RemovalsSurvive]_vars => DeleteKeepsNewOwner
<1>1. Calm => [\A p \in Procs : DelWipeId(p) => owner[job[p].tgt] \in {job[p].cur, NoAlloc}]_vars
  BY DEF Calm, Removing, DelWipeId
<1> QED BY <1>1, CalmInvariant, PTL DEF DeleteKeepsNewOwner

\* The group an allocation in use was told about changes only to one that comes first.
THEOREM GroupOnlyImproves ==
    ASSUME Peaceful
    PROVE  Spec /\ []RemovedOnce /\ [][RemovalsSurvive]_vars => FirstGroupKept
<1> DEFINE Better(a) ==
      \E i, j \in DOMAIN Groups[a] :
        i < j /\ Groups[a][i] = group'[a] /\ Groups[a][j] = group[a]
<1>1. Basis /\ Calm /\ RemovedOnce /\ [Next]_vars
      => [\A a \in Allocs : InUse(a) /\ InUse(a)' /\ group'[a] # group[a] => Better(a)]_vars
  <2> SUFFICES ASSUME Basis, Calm, Next, NEW a \in Allocs, InUse(a), group'[a] # group[a]
               PROVE  Better(a)
    OBVIOUS
  <2> USE DEF Basis
  <2>1. PICK p \in Procs : Turn(p)
    <3>1. ~UNCHANGED vars
      BY DEF vars
    <3> QED BY <3>1, Turns
  <2>2. CalcActivate(p) /\ job[p].got = a
    BY <2>1, RecordMoves, ActivateMoves DEF TypeInv, RecordsTyped
  <2>3. Stays(a) /\ state[a] = "active"
    BY DEF InUse, Stays, Live, States
  <2>4. PICK i \in DOMAIN Groups[a] :
               /\ group'[a] = Groups[a][i]
               /\ \A j \in DOMAIN Groups[a] : Groups[a][j] = group[a] => i <= j
    BY <2>2, <2>3, Rechosen
  <2>5. PICK j \in DOMAIN Groups[a] : Groups[a][j] = group[a]
    BY <2>3 DEF Calm, UsesGroup, Chosen
  <2>6. i < j
    BY <2>4, <2>5, GroupsNumbered
  <2> QED BY <2>4, <2>5, <2>6
<1> QED BY <1>1, CalmInvariant, PTL DEF Spec, FirstGroupKept

\* Who removes allocations: when asked to, as idle, or one that it must not keep waiting.
MayRemove == Removers \cup IF \A a \in Allocs : Queue[a] THEN {} ELSE Workers

\* The hypotheses on removals hold where one process at most removes allocations and
\* none dies, as in the runs.
THEOREM OneRemover ==
    ASSUME \A p, q \in MayRemove : p = q, MaxCrashes = 0
    PROVE  Spec => []RemovedOnce /\ [][RemovalsSurvive]_vars
<1> DEFINE Answers(p) == At(p, "result") \/ job[p].cont = "result"
           Allowed(p) == /\ Removes(p) => p \in MayRemove
                         /\ Answers(p) => p \in Workers
           AllAllowed == \A p \in Procs : Allowed(p)
<1>1. Init => AllAllowed
  <2> SUFFICES ASSUME Init PROVE AllAllowed
    OBVIOUS
  <2>1. \A p \in Procs : job[p].pc = "idle" /\ job[p].cont = "idle"
    BY DEF Init, Idle
  <2> QED BY <2>1 DEF Removes, Removal, At
<1>2. Basis /\ AllAllowed /\ [Next]_vars => AllAllowed'
  <2> SUFFICES ASSUME Basis, AllAllowed, [Next]_vars, NEW q \in Procs PROVE Allowed(q)'
    OBVIOUS
  <2> USE DEF Basis
  <2>1. CASE job'[q] = job[q]
    BY <2>1 DEF Removes, At
  <2>2. ASSUME NEW p \in Procs, Turn(p), job'[q] # job[q] PROVE Allowed(q)'
    <3>1. q = p /\ ~UNCHANGED job
      BY <2>2, TurnOthers
    <3>2. At(p, "del_lock")' => p \in MayRemove
      <4>1. ReqResult(p) /\ At(p, "del_lock")' => p \in Workers /\ \E a \in Allocs : ~Queue[a]
        BY RequestMoves DEF ReqResult, At
      <4> QED BY <2>2, <3>1, <4>1, Arrivals, RemovalStarts DEF At, MayRemove
    <3>3. Removes(p)' /\ ~At(p, "del_lock")' => Removes(p)
      BY <2>2, <3>1, Arrivals, RemovalMoves DEF At, Removes, Removal
    <3>4. ReqRun(p) => p \in Workers
      BY DEF ReqRun, At, Known, KnownJob
    <3>5. Answers(p)' => p \in Workers
      BY <2>2, <3>1, <3>4, Arrivals, HeldMoves
    <3> QED BY <3>1, <3>2, <3>3, <3>5
  <2>3. CASE UNCHANGED vars
    BY <2>1, <2>3 DEF vars
  <2> QED BY <2>1, <2>2, <2>3, Turns
<1>3. AllAllowed => RemovedOnce
  BY DEF RemovedOnce
<1>4. TypeInv => [RemovalsSurvive]_vars
  BY DEF TypeInv, RestTyped, RemovalsSurvive, Crash
<1> HIDE DEF AllAllowed
<1> QED BY <1>1, <1>2, <1>3, <1>4, BasisInvariant, TypeInvariant, PTL DEF Spec

-----------------------------------------------------------------------------
\* How an allocation looks to its user follows from its record and from whether a
\* removal wipes it.
PhaseFacts(a) ==
    /\ state[a] = "none" <=> Phase(a) = "none"
    /\ state[a] = "gone" <=> Phase(a) = "gone"
    /\ Live(a) /\ Deleting(a) <=> Phase(a) = "ending"
    /\ state[a] \in {"new", "stamped", "queued"} /\ ~Deleting(a) <=> Phase(a) = "waiting"
    /\ state[a] = "active" /\ ~Deleting(a) <=> Phase(a) = "active"

\* The phases are told apart before and after a step.
LEMMA PhasesTold ==
    ASSUME NEW a \in Allocs
    PROVE  PhaseFacts(a) /\ PhaseFacts(a)'
<1>1. PhaseFacts(a)
  BY DEF PhaseFacts, Phase, Live, States
<1>2. PhaseFacts(a)'
  BY DEF PhaseFacts, Phase, Live, States
<1> QED BY <1>1, <1>2

\* The group its user was told about.
Uses(a) == IF Phase(a) = "active" THEN group[a] ELSE {}

\* A removal starts to wipe in its own step, and ends with the record.
LEMMA DeletingMoves ==
    ASSUME Basis, Peaceful, Calm, ~Timeouts, NEW p \in Procs, CalmTurn(p), NEW a \in Allocs
    PROVE  /\ Deleting(a) => Live(a)
           /\ Deleting(a)' /\ ~Deleting(a) => (DelActive(p) \/ DelOther(p)) /\ job[p].cur = a
           /\ Deleting(a) /\ ~Deleting(a)' => DelRemove(p) /\ job[p].cur = a
<1> USE DEF Basis, CalmTurn
<1>1. Deleting(a) => Live(a)
  BY DEF Deleting, Calm, Removing, Removes, Removal
<1>2. ASSUME Deleting(a)', ~Deleting(a)
      PROVE  (DelActive(p) \/ DelOther(p)) /\ job[p].cur = a
  <2>1. PICK q \in Procs : /\ job'[q].cur = a
                           /\ job'[q].pc \in {"del_check", "del_id", "del_meta", "del_rm"}
    BY <1>2 DEF Deleting
  <2>2. job'[q] # job[q]
    BY <1>2, <2>1 DEF Deleting
  <2>3. q = p
    BY <2>2, TurnOthers
  <2>4. \/ DelActive(p) \/ DelOther(p) \/ DelCheck(p) \/ DelWipeId(p) \/ DelWipeMeta(p)
        \/ DelUnlock(p)
    BY <2>1, <2>2, <2>3, Arrivals DEF At
  <2>5. job'[p].cur = job[p].cur
    BY <2>4, RemovalMoves
  <2>6. ~(DelCheck(p) \/ DelWipeId(p) \/ DelWipeMeta(p) \/ DelUnlock(p))
    BY <1>2, <2>1, <2>3, <2>5, RemovalMoves DEF Deleting
  <2> QED BY <2>1, <2>3, <2>4, <2>5, <2>6
<1>3. ASSUME Deleting(a), ~Deleting(a)' PROVE DelRemove(p) /\ job[p].cur = a
  <2>1. state'[a] = "gone" /\ state[a] # "gone"
    BY <1>1, <1>3, DeletingOn DEF Live
  <2>2. ~DelTimeout(p)
    BY DEF DelTimeout
  <2> QED BY <2>1, <2>2, CalmState
<1> QED BY <1>1, <1>2, <1>3

\* A user sees an allocation ask, be activated, end and be forgotten, and no more.
LEMMA PhaseMoves ==
    ASSUME Basis, Peaceful, Calm, ~Timeouts, NEW p \in Procs, CalmTurn(p), NEW a \in Allocs
    PROVE  \/ Phase(a)' = Phase(a) /\ Uses(a)' = Uses(a)
           \/ /\ Request(p, a) /\ Phase(a) = "none" /\ Phase(a)' = "waiting"
              /\ Uses(a)' = Uses(a)
           \/ /\ CalcActivate(p) /\ job[p].got = a
              /\ Phase(a) \in {"waiting", "active"} /\ Phase(a)' = "active"
              /\ \E i \in DOMAIN Groups[a] :
                    /\ \A t \in Groups[a][i] : owner[t] = a
                    /\ Uses(a)' = Groups[a][i]
           \/ /\ DelActive(p) \/ DelOther(p)
              /\ job[p].cur = a /\ Phase(a) \in {"waiting", "active"}
              /\ Phase(a)' = "ending" /\ Uses(a)' = {}
           \/ /\ DelRemove(p) /\ job[p].cur = a
              /\ Phase(a) = "ending" /\ Phase(a)' = "gone" /\ Uses(a)' = Uses(a)
<1> USE DEF Basis, CalmTurn
<1>0. /\ PhaseFacts(a) /\ PhaseFacts(a)'
      /\ state[a] \in States /\ state[a] # "restart-needed"
  BY PhasesTold DEF TypeInv, RecordsTyped, Calm, Undisputed
<1>1. CASE CalcActivate(p) /\ job[p].got = a /\ ~Deleting(a)
  <2>1. At(p, "calc_write") /\ Live(a) /\ state'[a] = "active"
    BY <1>1 DEF CalcActivate, TypeInv, RecordsTyped
  <2>2. state[a] \in {"queued", "active"}
    BY <1>0, <1>1, <2>1 DEF Known, KnownJob, Served, Live, At
  <2>3. ~Deleting(a)'
    BY <1>1, <2>1, DeletingMoves DEF DelActive, DelOther, At
  <2>4. Stays(a)
    BY <1>1, <2>1 DEF Stays, Deleting, At
  <2>5. PICK i \in DOMAIN Groups[a] :
               /\ group'[a] = Groups[a][i]
               /\ \A t \in Groups[a][i] : owner[t] = a
    BY <1>1, <2>4, Rechosen
  <2>6. Phase(a) \in {"waiting", "active"} /\ Phase(a)' = "active"
    BY <1>0, <1>1, <2>1, <2>2, <2>3 DEF PhaseFacts
  <2>7. Uses(a)' = Groups[a][i]
    BY <2>5, <2>6 DEF Uses
  <2> QED BY <1>1, <2>5, <2>6, <2>7
<1>2. CASE ~(CalcActivate(p) /\ job[p].got = a /\ ~Deleting(a))
  <2>1. CASE state'[a] = state[a] /\ (Deleting(a)' <=> Deleting(a))
    <3>1. Phase(a)' = Phase(a)
      BY <1>0, <2>1 DEF PhaseFacts, Live, States
    <3>2. Phase(a) = "active" => group'[a] = group[a]
      <4>1. Phase(a) = "active" => ~Deleting(a)
        BY <1>0 DEF PhaseFacts
      <4> QED BY <1>2, <4>1, GroupKept
    <3> QED BY <3>1, <3>2 DEF Uses
  <2>2. CASE state'[a] # state[a] /\ (Deleting(a)' <=> Deleting(a))
    <3>1. CASE state[a] = "none"
      <4>1. ~Live(a)
        BY <3>1 DEF Live
      <4>2. ~(DelRemove(p) /\ job[p].cur = a)
        BY <4>1, RemovalMoves DEF Calm, Removing, Removes, Removal
      <4>3. Request(p, a) /\ state'[a] = "new"
        <5>1. ~Forced(p, a) \/ ~Live(a)
          BY <4>1
        <5> QED BY <2>2, <4>1, <4>2, StateMoves
      <4>4. ~Deleting(a)
        BY <4>1, DeletingMoves
      <4>5. Phase(a) = "none" /\ Phase(a)' = "waiting"
        BY <1>0, <2>2, <3>1, <4>3, <4>4 DEF PhaseFacts
      <4> QED BY <4>3, <4>5 DEF Uses
    <3>2. CASE state[a] # "none" /\ state'[a] # "gone"
      <4>1. Phase(a)' = Phase(a) /\ Phase(a) # "active"
        <5>1. CASE Deleting(a)
          BY <1>0, <2>2, <3>2, <5>1, CalmState DEF PhaseFacts, Live, States
        <5>2. CASE ~Deleting(a)
          BY <1>0, <1>2, <2>2, <3>2, <5>2, CalmState DEF PhaseFacts, Live, States
        <5> QED BY <5>1, <5>2
      <4> QED BY <4>1 DEF Uses
    <3>3. CASE state'[a] = "gone"
      <4>1. DelRemove(p) /\ job[p].cur = a
        <5>1. ~DelTimeout(p)
          BY DEF DelTimeout
        <5> QED BY <2>2, <3>3, <5>1, CalmState
      <4>2. Deleting(a)
        BY <4>1 DEF Deleting, DelRemove, At
      <4>3. Phase(a) = "ending" /\ Phase(a)' = "gone"
        BY <1>0, <3>3, <4>2, DeletingMoves DEF PhaseFacts
      <4> QED BY <4>1, <4>3 DEF Uses
    <3> QED BY <3>1, <3>2, <3>3
  <2>3. CASE Deleting(a)' /\ ~Deleting(a)
    <3>1. (DelActive(p) \/ DelOther(p)) /\ job[p].cur = a
      BY <2>3, DeletingMoves
    <3>2. Live(a) /\ state'[a] = state[a]
      BY <3>1, RemovalMoves
         DEF Calm, Removing, Removes, Removal, DelActive, DelOther, records
    <3>3. Phase(a) \in {"waiting", "active"} /\ Phase(a)' = "ending"
      BY <1>0, <2>3, <3>2 DEF PhaseFacts, Live, States
    <3> QED BY <3>1, <3>3 DEF Uses
  <2>4. CASE Deleting(a) /\ ~Deleting(a)'
    <3>1. DelRemove(p) /\ job[p].cur = a /\ Live(a)
      BY <2>4, DeletingMoves
    <3>2. state'[a] = "gone"
      BY <3>1 DEF DelRemove, TypeInv, RecordsTyped
    <3>3. Phase(a) = "ending" /\ Phase(a)' = "gone"
      BY <1>0, <2>4, <3>1, <3>2 DEF PhaseFacts
    <3> QED BY <3>1, <3>3 DEF Uses
  <2> QED BY <2>1, <2>2, <2>3, <2>4
<1> QED BY <1>1, <1>2

\* The actions that change owners change that of one target.
LEMMA OneOwner ==
    ASSUME TypeInv, NEW p \in Procs, Turn(p), owner' # owner
    PROVE  \/ Releases \/ GrantFails(p)
           \/ \E t \in Targets : ~Live(owner[t]) /\ owner' = [owner EXCEPT ![t] = NoAlloc]
           \/ Grant(p) /\ owner' = [owner EXCEPT ![job[p].tgt] = job[p].got]
           \/ /\ ReleaseExtra(p)
              /\ \E t \in job[p].left : /\ owner[t] = job[p].got
                                       /\ owner' = [owner EXCEPT ![t] = NoAlloc]
           \/ DelWipeId(p) /\ owner' = [owner EXCEPT ![job[p].tgt] = NoAlloc]
<1>1. ASSUME NEW t \in Targets, WipeOrphan(t)
      PROVE  ~Live(owner[t]) /\ owner' = [owner EXCEPT ![t] = NoAlloc]
  <2>1. owner' = [owner EXCEPT ![t] = ValidOwner(t)]
    BY <1>1 DEF WipeOrphan
  <2>2. ValidOwner(t) # owner[t]
    BY <2>1 DEF TypeInv, OwnershipTyped
  <2> QED BY <2>1, <2>2 DEF ValidOwner
<1>2. CASE RunSkip(p) \/ RunTake(p)
  <2>1. job[p].tgt \in Targets
    BY <1>2 DEF RunSkip, RunTake, At, TypeInv, JobTyped, Placed
  <2>2. WipeOrphan(job[p].tgt)
    BY <1>2 DEF RunSkip, RunTake
  <2> QED BY <1>1, <2>1, <2>2
<1>3. CASE \E t \in Targets : OwnerCheck(p, t)
  BY <1>1, <1>3 DEF OwnerCheck
<1>4. CASE \E t \in Targets : \E forced \in BOOLEAN : Release(p, t, forced)
  BY <1>4 DEF Release
<1>5. CASE Grant(p)
  BY <1>5 DEF Grant
<1>6. CASE ReleaseExtra(p)
  <2>1. PICK t \in job[p].left :
               owner' = [owner EXCEPT ![t] = IF @ = job[p].got THEN NoAlloc ELSE @]
    BY <1>6 DEF ReleaseExtra
  <2>2. t \in Targets
    BY DEF TypeInv, JobTyped, Job
  <2>3. owner[t] = job[p].got
    BY <2>1, <2>2 DEF TypeInv, OwnershipTyped
  <2> QED BY <1>6, <2>1, <2>3
<1>7. CASE DelWipeId(p)
  BY <1>7 DEF DelWipeId
<1>8. CASE \/ ReqStamp(p) \/ ReqPublish(p) \/ ReqEnqueue(p) \/ ReqRun(p) \/ ReqResult(p)
           \/ RunLoad(p) \/ RunDone(p) \/ CalcLock(p) \/ CalcRead(p) \/ CalcCounted(p)
           \/ CalcActivate(p) \/ CalcWait(p) \/ ExtrasDone(p) \/ DelActive(p)
           \/ DelOther(p) \/ DelCheck(p) \/ DelWipeMeta(p) \/ DelUnlock(p)
           \/ DelRemove(p) \/ MaintVisit(p) \/ MaintRun(p) \/ RecordGone(p)
           \/ LockTimeout(p) \/ DelTimeout(p) \/ Crash(p) \/ MaintStart(p)
           \/ \E a \in Allocs : Request(p, a) \/ Query(p, a) \/ ClientDelete(p, a)
  BY <1>8 DEF ReqStamp, ReqPublish, ReqEnqueue, ReqRun, ReqResult, RunLoad, RunDone,
              CalcLock, CalcRead, CalcCounted, CalcActivate, CalcWait, ExtrasDone,
              DelActive, DelOther, DelCheck, DelWipeMeta, DelUnlock, DelRemove, MaintVisit,
              MaintRun, RecordGone, LockTimeout, DelTimeout, Crash, MaintStart, Request,
              Query, ClientDelete, ownership
<1> QED BY <1>2, <1>3, <1>4, <1>5, <1>6, <1>7, <1>8 DEF Turn, Step

\* A target changes owner alone: it is given while free to one that asked for it, or
\* taken back from one that ended or does not use it.
LEMMA HolderMoves ==
    ASSUME Basis, Peaceful, Calm, NEW p \in Procs, CalmTurn(p), owner' # owner
    PROVE  \E t \in Targets, a \in Allocs :
             \/ /\ owner[t] = NoAlloc /\ owner' = [owner EXCEPT ![t] = a]
                /\ Phase(a) # "none" /\ t \in TargetsOf(a)
             \/ /\ owner[t] = a /\ owner' = [owner EXCEPT ![t] = NoAlloc]
                /\ \/ Phase(a) \in {"ending", "gone"}
                   \/ Phase(a) = "active" /\ t \notin Uses(a)
<1> USE DEF Basis, CalmTurn
<1>1. CASE Grant(p) /\ owner' = [owner EXCEPT ![job[p].tgt] = job[p].got]
  <2>1. /\ At(p, "grant") /\ job[p].got \in Allocs /\ job[p].tgt \in Targets
        /\ job[p].prev = NoAlloc
    BY <1>1, RunMoves DEF Calm, Undisputed, At
  <2>2. owner[job[p].tgt] = NoAlloc
    BY <2>1 DEF GrantInv, Decided
  <2>3. Asked(job[p].got, job[p].tgt)
    BY <2>1 DEF Known, KnownJob
  <2>4. Phase(job[p].got) # "none"
    BY <2>1, <2>3, PhasesTold DEF PhaseFacts, Asked, Served
  <2> QED BY <1>1, <2>1, <2>2, <2>3, <2>4 DEF Asked
<1>2. CASE \E t \in Targets : ~Live(owner[t]) /\ owner' = [owner EXCEPT ![t] = NoAlloc]
  <2>1. PICK t \in Targets : ~Live(owner[t]) /\ owner' = [owner EXCEPT ![t] = NoAlloc]
    BY <1>2
  <2>2. owner[t] \in Allocs
    BY <2>1 DEF TypeInv, OwnershipTyped
  <2>3. state[owner[t]] = "gone"
    <3>1. Served(owner[t])
      BY <2>2 DEF Known, KnownData, Asked
    <3> QED BY <2>1, <3>1 DEF Live, Served, States
  <2>4. Phase(owner[t]) = "gone"
    BY <2>2, <2>3, PhasesTold DEF PhaseFacts
  <2> QED BY <2>1, <2>2, <2>4
<1>3. CASE /\ ReleaseExtra(p)
           /\ \E t \in job[p].left : /\ owner[t] = job[p].got
                                    /\ owner' = [owner EXCEPT ![t] = NoAlloc]
  <2>1. PICK t \in job[p].left : /\ owner[t] = job[p].got
                                 /\ owner' = [owner EXCEPT ![t] = NoAlloc]
    BY <1>3
  <2> DEFINE a == job[p].got
  <2>2. At(p, "extras") /\ a \in Allocs /\ t \in Targets
    BY <1>3, CalcMoves DEF At, TypeInv, JobTyped, Job
  <2>3. /\ state[a] \in {"active", "gone"}
        /\ Stays(a) => Spare(a, t)
    BY <2>2 DEF Calm, Giving
  <2> HIDE DEF a
  <2>4. CASE state[a] = "gone"
    <3>1. Phase(a) = "gone"
      BY <2>2, <2>4, PhasesTold DEF PhaseFacts
    <3> QED BY <2>1, <2>2, <3>1 DEF a
  <2>5. CASE state[a] = "active" /\ Deleting(a)
    <3>1. Phase(a) = "ending"
      BY <2>2, <2>5, PhasesTold DEF PhaseFacts, Live, States
    <3> QED BY <2>1, <2>2, <3>1 DEF a
  <2>6. CASE state[a] = "active" /\ ~Deleting(a)
    <3>1. Stays(a)
      BY <2>6 DEF Stays, Live, States, Deleting, At
    <3>2. t \notin group[a]
      BY <2>2, <2>3, <2>6, <3>1, SpareUnused DEF Calm
    <3>3. Phase(a) = "active"
      BY <2>2, <2>6, PhasesTold DEF PhaseFacts
    <3> QED BY <2>1, <2>2, <3>2, <3>3 DEF a, Uses
  <2> QED BY <2>3, <2>4, <2>5, <2>6
<1>4. CASE DelWipeId(p) /\ owner' = [owner EXCEPT ![job[p].tgt] = NoAlloc]
  <2>1. /\ At(p, "del_id") /\ job[p].tgt \in Targets /\ job[p].cur \in Allocs
        /\ owner[job[p].tgt] = job[p].cur
    BY <1>4, RemovalMoves DEF Calm, Removing, At
  <2>2. Deleting(job[p].cur) /\ Live(job[p].cur)
    BY <2>1 DEF Deleting, At, Calm, Removing, Removes, Removal
  <2>3. Phase(job[p].cur) = "ending"
    BY <2>1, <2>2, PhasesTold DEF PhaseFacts
  <2> QED BY <1>4, <2>1, <2>3
<1>5. ~GrantFails(p)
  BY DEF GrantFails, Evicts, Calm, Undisputed
<1> QED BY <1>1, <1>2, <1>3, <1>4, <1>5, OneOwner DEF Peaceful

-----------------------------------------------------------------------------
\* The users' allocator starts as this one does.
LEMMA PromisedInit == Init => User!AInit
<1> SUFFICES ASSUME Init PROVE User!AInit
  OBVIOUS
<1>1. ASSUME NEW a \in Allocs PROVE Phase(a) = "none"
  <2>1. state[a] = "none"
    BY DEF Init
  <2> QED BY <2>1, PhasesTold DEF PhaseFacts
<1>2. owner = [t \in Targets |-> NoAlloc]
  BY DEF Init
<1> QED BY <1>1, <1>2 DEF User!AInit

\* Who changes an owner shows nobody another phase.
LEMMA HolderPhases ==
    ASSUME Basis, Peaceful, Calm, ~Timeouts, NEW p \in Procs, CalmTurn(p), owner' # owner,
           NEW a \in Allocs
    PROVE  Phase(a)' = Phase(a) /\ Uses(a)' = Uses(a)
<1>1. /\ ~CalcActivate(p) /\ ~DelActive(p) /\ ~DelOther(p) /\ ~DelRemove(p)
      /\ ~Request(p, a)
  BY DEF CalcActivate, DelActive, DelOther, DelRemove, Request, ownership
<1> QED BY <1>1, PhaseMoves

\* One allocation at a time changes its phase.
LEMMA OnePhase ==
    ASSUME Basis, Peaceful, Calm, ~Timeouts, NEW p \in Procs, CalmTurn(p),
           NEW a \in Allocs, ~(Phase(a)' = Phase(a) /\ Uses(a)' = Uses(a)),
           NEW b \in Allocs, b # a
    PROVE  Phase(b)' = Phase(b) /\ Uses(b)' = Uses(b)
<1> USE DEF Basis, CalmTurn
<1>1. CASE Request(p, a)
  <2>1. ~Request(p, b)
    BY <1>1, RequestMoves
  <2>2. ~(CalcActivate(p) \/ DelActive(p) \/ DelOther(p) \/ DelRemove(p))
    BY <1>1 DEF Request, CalcActivate, DelActive, DelOther, DelRemove, At
  <2> QED BY <2>1, <2>2, PhaseMoves
<1>2. CASE CalcActivate(p) /\ job[p].got = a
  <2>1. ~(Request(p, b) \/ DelActive(p) \/ DelOther(p) \/ DelRemove(p))
    BY <1>2 DEF Request, CalcActivate, DelActive, DelOther, DelRemove, At
  <2> QED BY <1>2, <2>1, PhaseMoves
<1>3. CASE (DelActive(p) \/ DelOther(p) \/ DelRemove(p)) /\ job[p].cur = a
  <2>1. ~(Request(p, b) \/ CalcActivate(p))
    BY <1>3 DEF Request, CalcActivate, DelActive, DelOther, DelRemove, At
  <2> QED BY <1>3, <2>1, PhaseMoves
<1> QED BY <1>1, <1>2, <1>3, PhaseMoves

\* Every step is one its users know of, or none to them.
LEMMA PromisedTurn ==
    ASSUME Basis, Peaceful, Calm, ~Timeouts, NEW p \in Procs, CalmTurn(p)
    PROVE  [User!ANext]_(User!avars)
<1> DEFINE phase == [a \in Allocs |-> Phase(a)]
           using == [a \in Allocs |-> IF Phase(a) = "active" THEN group[a] ELSE {}]
<1>1. \A a \in Allocs : phase[a] = Phase(a) /\ using[a] = Uses(a)
  BY DEF Uses
<1>2. \A a \in Allocs : phase'[a] = Phase(a)' /\ using'[a] = Uses(a)'
  BY DEF Uses
<1>3. CASE owner' # owner
  <2>1. phase' = phase /\ using' = using
    BY <1>1, <1>2, <1>3, HolderPhases
  <2>2. PICK t \in Targets, a \in Allocs :
             \/ /\ owner[t] = NoAlloc /\ owner' = [owner EXCEPT ![t] = a]
                /\ Phase(a) # "none" /\ t \in TargetsOf(a)
             \/ /\ owner[t] = a /\ owner' = [owner EXCEPT ![t] = NoAlloc]
                /\ \/ Phase(a) \in {"ending", "gone"}
                   \/ Phase(a) = "active" /\ t \notin Uses(a)
    BY <1>3, HolderMoves
  <2>3. User!Give(t, a) \/ User!Reclaim(t, a) \/ User!GiveBack(t, a)
    BY <1>1, <2>1, <2>2 DEF User!Give, User!Reclaim, User!GiveBack, User!AsksFor, TargetsOf
  <2> QED BY <2>3 DEF User!ANext
<1>4. CASE owner' = owner /\ \A a \in Allocs : Phase(a)' = Phase(a) /\ Uses(a)' = Uses(a)
  <2>1. phase' = phase /\ using' = using
    BY <1>1, <1>2, <1>4
  <2> QED BY <1>4, <2>1 DEF User!avars
<1>5. ASSUME owner' = owner, NEW a \in Allocs, ~(Phase(a)' = Phase(a) /\ Uses(a)' = Uses(a))
      PROVE  User!ANext
  <2>1. \A b \in Allocs : b # a => Phase(b)' = Phase(b) /\ Uses(b)' = Uses(b)
    BY <1>5, OnePhase
  <2>2. /\ phase' = [phase EXCEPT ![a] = phase'[a]]
        /\ using' = [using EXCEPT ![a] = using'[a]]
    <3>1. \A b \in Allocs : b # a => phase'[b] = phase[b] /\ using'[b] = using[b]
      BY <1>1, <1>2, <2>1
    <3> QED BY <3>1
  <2>3. Uses(a)' = Uses(a) => using' = using
    BY <1>1, <1>2, <2>1
  <2>4. CASE Phase(a) = "none" /\ Phase(a)' = "waiting" /\ Uses(a)' = Uses(a)
    <3>1. User!Ask(a)
      BY <1>1, <1>2, <1>5, <2>2, <2>3, <2>4 DEF User!Ask
    <3> QED BY <3>1 DEF User!ANext
  <2>5. CASE /\ Phase(a) \in {"waiting", "active"} /\ Phase(a)' = "active"
             /\ \E i \in DOMAIN Groups[a] :
                   /\ \A t \in Groups[a][i] : owner[t] = a
                   /\ Uses(a)' = Groups[a][i]
    <3>1. PICK i \in DOMAIN Groups[a] : /\ \A t \in Groups[a][i] : owner[t] = a
                                       /\ Uses(a)' = Groups[a][i]
      BY <2>5
    <3>2. /\ phase[a] \in {"waiting", "preempted", "active"}
          /\ phase' = [phase EXCEPT ![a] = "active"]
          /\ using' = [using EXCEPT ![a] = Groups[a][i]]
      BY <1>1, <1>2, <2>2, <2>5, <3>1
    <3> HIDE DEF phase, using
    <3>3. User!Activate(a)
      BY <1>5, <3>1, <3>2 DEF User!Activate, phase, using
    <3> QED BY <3>3 DEF User!ANext
  <2>6. CASE Phase(a) \in {"waiting", "active"} /\ Phase(a)' = "ending" /\ Uses(a)' = {}
    <3>1. User!End(a)
      BY <1>1, <1>2, <1>5, <2>2, <2>6 DEF User!End
    <3> QED BY <3>1 DEF User!ANext
  <2>7. CASE Phase(a) = "ending" /\ Phase(a)' = "gone" /\ Uses(a)' = Uses(a)
    <3>1. User!Forget(a)
      BY <1>1, <1>2, <1>5, <2>2, <2>3, <2>7 DEF User!Forget
    <3> QED BY <3>1 DEF User!ANext
  <2>8. User!ANext
    BY <1>5, <2>4, <2>5, <2>6, <2>7, PhaseMoves
  <2> QED BY <2>8
<1> QED BY <1>3, <1>4, <1>5

\* Where nobody evicts, is made to give back or gives up on a lock, and removals neither
\* collide nor die, all that queues, locks and unlocked reads show to the users is the
\* abstract allocator: whatever group an allocation is told to use is its own, a target
\* changes hands only by way of nobody, and no record ends that was not removed.
THEOREM Implementation ==
    ASSUME Peaceful, ~Timeouts
    PROVE  Spec /\ []RemovedOnce /\ [][RemovalsSurvive]_vars => Implements
<1>1. Basis /\ Calm /\ RemovedOnce /\ [Next]_vars /\ [RemovalsSurvive]_vars
      => [User!ANext]_(User!avars)
  <2> SUFFICES ASSUME Basis, Calm, RemovedOnce, [Next]_vars, [RemovalsSurvive]_vars
               PROVE  [User!ANext]_(User!avars)
    OBVIOUS
  <2>1. CASE UNCHANGED vars
    BY <2>1 DEF vars, User!avars, Phase, Live, Deleting
  <2>2. CASE \E p \in Procs : Turn(p) /\ RemovalsSurvive
    BY <2>2, PromisedTurn DEF CalmTurn, RemovalsSurvive
  <2>3. CASE ~UNCHANGED vars
    BY <2>2, <2>3, Turns
  <2> QED BY <2>1, <2>3
<1> QED BY <1>1, CalmInvariant, PromisedInit, PTL DEF Spec, Implements, User!Promise
=============================================================================
