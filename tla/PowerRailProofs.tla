-------------------------- MODULE PowerRailProofs --------------------------
(* Theorems about PowerRail for any rail, drivers and users: which components *)
(* an operation touches, and the order it touches them in.                    *)
EXTENDS PowerRailProperties, WellFoundedInduction, TLAPS

Recovering == {"recover_off", "recover_on", "give_up"}

\* SkipsOn(), of the operation alone.
Skipped(j, c) ==
    \/ j.data[c] = "on"
    \/ j.whole /\ ~j.explicit /\ Explicit[c] \in {"on", "both"}

\* An operation on the rail asks for all of it, recovers a component that it was to
\* turn on, and powers the rail off again only for a retry.
JobInv(j) ==
    /\ j.whole => j.impls = Rail
    /\ j.pc \in Recovering => j.at \in Rail /\ ~Skipped(j, j.at)
    /\ j.pc \in {"undo_get", "undo"} => j.retries > 0

Inv == TypeOK /\ \A w \in Workers : JobInv(job[w])

\* What a power on found on still is, and so is what it passed, but for a retry.
Excused(lv, j, c) == lv[c] \/ (j.data[c] = "on" /\ j.retries > 0)
Asked(j, c) == j.explicit \/ Explicit[c] \in {"none", "off"}
Passed(j, c) == c < j.at \/ (c = j.at /\ j.pc = "on")

OnInv(lv, j) ==
    j.pc \in {"on", "recover_off", "recover_on"} =>
        \A c \in Rail \ OffOnRelease :
            \/ j.data[c] = "on"
            \/ j.whole /\ Asked(j, c) /\ Passed(j, c)
            => Excused(lv, j, c)

\* What a power off found off still is, and so is what it passed, but for what it
\* left alone and what did not obey.
Exempt(j, c) ==
    c \in j.stuck \/ (~j.explicit /\ Explicit[c] \in {"off", "both"})

OffInv(lv, j) ==
    j.pc = "off" =>
        \A c \in Rail :
            /\ j.data[c] = "off" => ~lv[c]
            /\ j.whole /\ c >= j.at => ~lv[c] \/ Exempt(j, c)

LevelInv == \A w \in Workers : OnInv(level, job[w]) /\ OffInv(level, job[w])

-----------------------------------------------------------------------------
(* Lemmas: what an action does to the rail and to the operation. *)

\* A call to a driver sets one component, whether it works or not.
LEMMA DriverCall ==
    ASSUME TypeOK, NEW c \in Rail, NEW power \in BOOLEAN, Drives(c, power) \/ Fails(c)
    PROVE  /\ level' \in [Rail -> BOOLEAN]
           /\ \A d \in Rail \ {c} : level'[d] = level[d]
BY DEF TypeOK, Drives, Fails

\* The components are read as they are, or not at all.
LEMMA Sampled ==
    ASSUME TypeOK, NEW S
    PROVE  /\ Sample(S) \in [Rail -> Readings]
           /\ \A c \in Rail : Sample(S)[c] = "on" => level[c]
           /\ \A c \in Rail : Sample(S)[c] = "off" => ~level[c]
BY DEF TypeOK, Sample, Read, Readings

\* No reading is one, too.
LEMMA Types ==
    /\ NoData \in [Rail -> Readings]
    /\ Idle \in Job /\ JobInv(Idle)
<1>1. NoData \in [Rail -> Readings]
  BY DEF NoData, Readings
<1>2. Idle \in Job
  BY <1>1, RailAssumption DEF Idle, Job, PCs, Rail, MaxRetries
<1> QED
  BY <1>1, <1>2 DEF Idle, JobInv, Recovering

\* The operation a request asks for.
LEMMA Begun ==
    ASSUME NEW u \in Users \cup {NoUser}, NEW o \in Operations
    PROVE  LET j == [Idle EXCEPT !.pc = "get", !.user = u, !.impls = o.impls,
                      !.whole = o.whole, !.explicit = o.explicit, !.ops = o.ops, !.at = 0]
           IN  j \in Job /\ JobInv(j) /\ j.pc = "get"
<1>1. /\ o.impls \in SUBSET Rail /\ o.whole \in BOOLEAN /\ o.explicit \in BOOLEAN
      /\ o.ops \in {"on", "off", "cycle"} /\ (o.whole => o.impls = Rail)
  BY DEF Operations
<1> DEFINE j == [Idle EXCEPT !.pc = "get", !.user = u, !.impls = o.impls,
                  !.whole = o.whole, !.explicit = o.explicit, !.ops = o.ops, !.at = 0]
<1>2. Idle \in Job
  BY Types
<1>3. 0 \in 0 .. RailLength + 1
  BY RailAssumption
<1>4. j \in Job
  BY <1>1, <1>2, <1>3 DEF Job, PCs
<1>5. j.pc = "get" /\ j.impls = o.impls /\ j.whole = o.whole
  BY <1>2 DEF Job
<1> QED
  BY <1>1, <1>4, <1>5 DEF JobInv, Recovering

\* An operation that ended.
LEMMA Finished ==
    ASSUME NEW w \in Workers, job[w] \in Job, JobInv(job[w]), NEW result \in {"ok", "error"},
           job \in [Workers -> Job], Finish(w, result)
    PROVE  /\ job' = [job EXCEPT ![w] = job'[w]] /\ job'[w] \in Job
           /\ JobInv(job'[w]) /\ job'[w].pc = "done"
<1>1. NoData \in [Rail -> Readings]
  BY Types
<1>2. job[w] \in Job /\ JobInv(job[w])
  OBVIOUS
<1> DEFINE d == job[w]
           j == [d EXCEPT !.pc = "done", !.result = result, !.data = NoData,
                  !.undo = NoData, !.at = 0, !.stuck = {}, !.retries = 0]
<1>3. job' = [job EXCEPT ![w] = j]
  BY DEF Finish, Goto
<1> HIDE DEF d
<1>4. d \in Job /\ JobInv(d)
  BY <1>2 DEF d
<1>5. 0 \in 0 .. RailLength + 1 /\ 0 \in 0 .. MaxRetries - 1
  BY RailAssumption DEF MaxRetries
<1>6. j \in Job
  BY <1>1, <1>4, <1>5 DEF Job, PCs
<1>7. j.pc = "done" /\ j.impls = d.impls /\ j.whole = d.whole
  BY <1>4 DEF Job
<1>8. JobInv(j)
  BY <1>4, <1>7 DEF JobInv, Recovering
<1> HIDE DEF j
<1> QED
  BY <1>3, <1>6, <1>7, <1>8

-----------------------------------------------------------------------------
(* Types, and what an operation knows of itself. *)

\* A process moves its own operation, and that alone.
Moves(w) ==
    /\ job' = [job EXCEPT ![w] = job'[w]]
    /\ job'[w] \in Job /\ JobInv(job'[w])

\* What the rail has, is published and is owned, as typed.
LevelsOK ==
    /\ level \in [Rail -> BOOLEAN]
    /\ published \in BOOLEAN
    /\ owner \in Users \cup {NoUser}

\* A step of an operation, whatever its drivers do.
LEMMA StepMoves ==
    ASSUME Inv, NEW w \in Workers, Step(w)
    PROVE  Moves(w) /\ LevelsOK'
<1> DEFINE d == job[w]
<1>1. /\ TypeOK /\ d \in Job /\ JobInv(d)
      /\ job \in [Workers -> Job]
  BY DEF Inv, TypeOK
<1>2. /\ NoData \in [Rail -> Readings]
      /\ \A S : Sample(S) \in [Rail -> Readings]
  BY <1>1, Types, Sampled
<1>3. /\ 0 \in 0 .. RailLength + 1 /\ RailLength + 1 \in 0 .. RailLength + 1
      /\ \A c \in Rail : c \in 0 .. RailLength + 1
  BY RailAssumption DEF Rail
<1>4. d.retries \in 0 .. 2
  BY <1>1 DEF Job, MaxRetries
<1>5. \A r \in {"ok", "error"} : Finish(w, r) => Moves(w)
  BY <1>1, Finished DEF Moves
<1>6. \A j : j \in Job /\ JobInv(j) /\ Goto(w, j) => Moves(w)
  BY <1>1 DEF Goto, Moves
<1>7. \A loc : At(w, loc) <=> d.pc = loc
  BY DEF At
<1>8. LevelsOK
  BY <1>1 DEF TypeOK, LevelsOK
<1> HIDE DEF d
<1>9. CASE Get(w)
  <2> DEFINE j == [d EXCEPT !.pc = IF d.ops = "on" THEN "on" ELSE "off",
                    !.data = Sample(d.impls), !.at = IF d.ops = "on" THEN 0 ELSE RailLength + 1]
  <2>1. Goto(w, j)
    BY <1>9 DEF Get, d
  <2>2. j \in Job /\ JobInv(j)
    BY <1>1, <1>2, <1>3 DEF Job, PCs, JobInv, Recovering
  <2>3. LevelsOK'
    BY <1>9, <1>8 DEF Get, LevelsOK, RailOn
  <2> QED
    BY <1>6, <2>1, <2>2, <2>3
<1>10. CASE GetFails(w)
  <2>1. Finish(w, "error") /\ LevelsOK'
    BY <1>10, <1>8 DEF GetFails, LevelsOK
  <2> QED
    BY <1>5, <2>1
<1>11. CASE OffStep(w)
  <2> DEFINE j(c) == [d EXCEPT !.at = c]
  <2>1. PICK c \in Rail : Drives(c, FALSE) /\ Goto(w, j(c))
    BY <1>11 DEF OffStep, d
  <2>2. d.pc = "off"
    BY <1>11, <1>7 DEF OffStep
  <2>3. j(c) \in Job /\ JobInv(j(c))
    BY <1>1, <1>3, <2>1, <2>2 DEF Job, PCs, JobInv, Recovering
  <2>4. LevelsOK'
    BY <1>11, <1>1, <1>8, <2>1, DriverCall DEF OffStep, LevelsOK
  <2> QED
    BY <1>6, <2>1, <2>3, <2>4
<1>12. CASE OffSkipsFailed(w)
  <2> DEFINE j(c) == [d EXCEPT !.at = c, !.stuck = @ \cup {c}]
  <2>1. PICK c \in Rail : Fails(c) /\ Goto(w, j(c))
    BY <1>12 DEF OffSkipsFailed, d
  <2>2. d.pc = "off"
    BY <1>12, <1>7 DEF OffSkipsFailed
  <2>3. j(c) \in Job /\ JobInv(j(c))
    BY <1>1, <1>3, <2>1, <2>2 DEF Job, PCs, JobInv, Recovering
  <2>4. LevelsOK'
    BY <1>12, <1>1, <1>8, <2>1, DriverCall DEF OffSkipsFailed, LevelsOK
  <2> QED
    BY <1>6, <2>1, <2>3, <2>4
<1>13. CASE OffDone(w)
  <2> DEFINE j == [d EXCEPT !.pc = "get", !.ops = "on", !.at = 0, !.data = NoData, !.stuck = {}]
  <2>1. Goto(w, j) \/ Finish(w, "ok")
    BY <1>13 DEF OffDone, d
  <2>2. j \in Job /\ JobInv(j)
    BY <1>1, <1>2, <1>3 DEF Job, PCs, JobInv, Recovering
  <2>3. LevelsOK'
    BY <1>13, <1>8 DEF OffDone, LevelsOK
  <2> QED
    BY <1>5, <1>6, <2>1, <2>2, <2>3
<1>14. CASE OnStep(w)
  <2> DEFINE j(c) == [d EXCEPT !.at = c]
  <2>1. PICK c \in Rail : Drives(c, TRUE) /\ Goto(w, j(c))
    BY <1>14 DEF OnStep, d
  <2>2. d.pc = "on"
    BY <1>14, <1>7 DEF OnStep
  <2>3. j(c) \in Job /\ JobInv(j(c))
    BY <1>1, <1>3, <2>1, <2>2 DEF Job, PCs, JobInv, Recovering
  <2>4. LevelsOK'
    BY <1>14, <1>1, <1>8, <2>1, DriverCall DEF OnStep, LevelsOK
  <2> QED
    BY <1>6, <2>1, <2>3, <2>4
<1>15. CASE OnFails(w)
  <2> DEFINE j(c) == [d EXCEPT !.pc = "recover_off", !.at = c]
             k == RetryAll(w)
  <2>1. PICK c \in Rail :
          /\ Fails(c) /\ ~Skipped(d, c)
          /\ Goto(w, k) \/ Goto(w, j(c)) \/ Finish(w, "error")
    BY <1>15 DEF OnFails, NextOn, SkipsOn, Skipped, d
  <2>2. j(c) \in Job /\ JobInv(j(c))
    <3>1. j(c) \in Job
      BY <1>1, <1>3, <2>1 DEF Job, PCs
    <3>2. /\ j(c).pc = "recover_off" /\ j(c).at = c /\ j(c).impls = d.impls
          /\ j(c).whole = d.whole /\ j(c).explicit = d.explicit /\ j(c).data = d.data
      BY <1>1 DEF Job
    <3> QED
      BY <1>1, <2>1, <3>1, <3>2 DEF JobInv, Recovering, Skipped
  <2>3. k \in Job /\ JobInv(k)
    <3> DEFINE ended == [Idle EXCEPT !.pc = "done", !.user = d.user, !.ops = d.ops,
                          !.impls = d.impls, !.whole = d.whole,
                          !.explicit = d.explicit, !.result = "error"]
               again == [d EXCEPT !.pc = "undo_get", !.retries = @ + 1]
    <3>1. k = IF d.retries + 1 >= MaxRetries THEN ended ELSE again
      BY DEF RetryAll, d
    <3>2. ended \in Job
      BY <1>1, Types DEF Job, PCs
    <3>3. ended.pc = "done" /\ ended.impls = d.impls /\ ended.whole = d.whole
      BY Types DEF Job
    <3>4. JobInv(ended)
      BY <1>1, <3>3 DEF JobInv, Recovering
    <3>5. ASSUME ~(d.retries + 1 >= MaxRetries)
          PROVE  d.retries + 1 \in 0 .. MaxRetries - 1 /\ d.retries + 1 > 0
      BY <1>4, <3>5 DEF MaxRetries
    <3>6. ASSUME ~(d.retries + 1 >= MaxRetries)
          PROVE  again \in Job /\ JobInv(again)
      BY <1>1, <3>5, <3>6 DEF Job, PCs, JobInv, Recovering
    <3> QED
      BY <3>1, <3>2, <3>4, <3>6
  <2>4. LevelsOK'
    BY <1>15, <1>1, <1>8, <2>1, DriverCall DEF OnFails, LevelsOK
  <2> QED
    BY <1>5, <1>6, <2>1, <2>2, <2>3, <2>4
<1>16. CASE OnDone(w)
  <2>1. Finish(w, "ok") /\ LevelsOK'
    BY <1>16, <1>8 DEF OnDone, LevelsOK
  <2> QED
    BY <1>5, <2>1
<1>17. CASE RecoverOff(w)
  <2> DEFINE j == [d EXCEPT !.pc = "recover_on"]
  <2>1. d.pc = "recover_off" /\ d.at \in Rail /\ ~Skipped(d, d.at)
    BY <1>17, <1>1, <1>7 DEF RecoverOff, JobInv, Recovering
  <2>2. (Drives(d.at, FALSE) \/ Fails(d.at)) /\ Goto(w, j)
    BY <1>17 DEF RecoverOff, d
  <2>3. j \in Job /\ JobInv(j)
    BY <1>1, <2>1 DEF Job, PCs, JobInv, Recovering, Skipped
  <2>4. LevelsOK'
    BY <1>17, <1>1, <1>8, <2>1, <2>2, DriverCall DEF RecoverOff, LevelsOK
  <2> QED
    BY <1>6, <2>2, <2>3, <2>4
<1>18. CASE RecoverOn(w)
  <2> DEFINE j == [d EXCEPT !.pc = "on"]
  <2>1. d.pc = "recover_on" /\ d.at \in Rail /\ ~Skipped(d, d.at)
    BY <1>18, <1>1, <1>7 DEF RecoverOn, JobInv, Recovering
  <2>2. (Drives(d.at, TRUE)) /\ Goto(w, j)
    BY <1>18 DEF RecoverOn, d
  <2>3. j \in Job /\ JobInv(j)
    BY <1>1, <2>1 DEF Job, PCs, JobInv, Recovering, Skipped
  <2>4. LevelsOK'
    BY <1>18, <1>1, <1>8, <2>1, <2>2, DriverCall DEF RecoverOn, LevelsOK
  <2> QED
    BY <1>6, <2>2, <2>3, <2>4
<1>19. CASE RecoverFails(w)
  <2> DEFINE j == [d EXCEPT !.pc = "give_up"]
  <2>1. d.pc = "recover_on" /\ d.at \in Rail /\ ~Skipped(d, d.at)
    BY <1>19, <1>1, <1>7 DEF RecoverFails, JobInv, Recovering
  <2>2. (Fails(d.at)) /\ Goto(w, j)
    BY <1>19 DEF RecoverFails, d
  <2>3. j \in Job /\ JobInv(j)
    BY <1>1, <2>1 DEF Job, PCs, JobInv, Recovering, Skipped
  <2>4. LevelsOK'
    BY <1>19, <1>1, <1>8, <2>1, <2>2, DriverCall DEF RecoverFails, LevelsOK
  <2> QED
    BY <1>6, <2>2, <2>3, <2>4
<1>20. CASE GiveUp(w)
  <2>1. d.at \in Rail
    BY <1>20, <1>1, <1>7 DEF GiveUp, JobInv, Recovering
  <2>2. Finish(w, "error") /\ (Drives(d.at, FALSE) \/ Fails(d.at))
    BY <1>20 DEF GiveUp, d
  <2>3. LevelsOK'
    BY <1>20, <1>1, <1>8, <2>1, <2>2, DriverCall DEF GiveUp, LevelsOK
  <2> QED
    BY <1>5, <2>2, <2>3
<1>21. CASE UndoGet(w)
  <2> DEFINE j == [d EXCEPT !.pc = "undo", !.undo = Sample(d.impls), !.at = RailLength + 1]
             k == [d EXCEPT !.pc = "on", !.at = 0]
  <2>1. d.pc = "undo_get"
    BY <1>21, <1>7 DEF UndoGet
  <2>2. (Goto(w, j) \/ Goto(w, k)) /\ LevelsOK'
    BY <1>21, <1>8 DEF UndoGet, LevelsOK, d
  <2>3. j \in Job /\ JobInv(j)
    BY <1>1, <1>2, <1>3, <2>1 DEF Job, PCs, JobInv, Recovering
  <2>4. k \in Job /\ JobInv(k)
    BY <1>1, <1>3, <2>1 DEF Job, PCs, JobInv, Recovering
  <2> QED
    BY <1>6, <2>2, <2>3, <2>4
<1>22. CASE UndoStep(w)
  <2> DEFINE j(c) == [d EXCEPT !.at = c]
  <2>1. PICK c \in Rail : (Drives(c, FALSE) \/ Fails(c)) /\ Goto(w, j(c))
    BY <1>22 DEF UndoStep, d
  <2>2. d.pc = "undo"
    BY <1>22, <1>7 DEF UndoStep
  <2>3. j(c) \in Job /\ JobInv(j(c))
    BY <1>1, <1>3, <2>1, <2>2 DEF Job, PCs, JobInv, Recovering
  <2>4. LevelsOK'
    BY <1>22, <1>1, <1>8, <2>1, DriverCall DEF UndoStep, LevelsOK
  <2> QED
    BY <1>6, <2>1, <2>3, <2>4
<1>23. CASE UndoDone(w)
  <2> DEFINE j == [d EXCEPT !.pc = "on", !.at = 0, !.undo = NoData]
  <2>1. Goto(w, j) /\ LevelsOK'
    BY <1>23, <1>8 DEF UndoDone, LevelsOK, d
  <2>2. j \in Job /\ JobInv(j)
    BY <1>1, <1>2, <1>3 DEF Job, PCs, JobInv, Recovering
  <2> QED
    BY <1>6, <2>1, <2>2
<1>24. CASE Reply(w)
  <2>1. Goto(w, Idle) /\ LevelsOK'
    BY <1>24, <1>8 DEF Reply, LevelsOK
  <2> QED
    BY <1>6, <2>1, Types
<1> QED
  BY <1>9, <1>10, <1>11, <1>12, <1>13, <1>14, <1>15, <1>16, <1>17, <1>18, <1>19, <1>20,
     <1>21, <1>22, <1>23, <1>24 DEF Step

\* What the release does to the rail: it takes power from what must not keep it.
LEMMA Released ==
    ASSUME TypeOK, Release
    PROVE  /\ LevelsOK' /\ UNCHANGED job
           /\ \A c \in Rail : level'[c] => level[c]
           /\ \A c \in Rail \ OffOnRelease : level'[c] = level[c]
BY RailAssumption DEF TypeOK, LevelsOK, Release

\* Requests and sequences begin operations and leave the rail alone.
LEMMA BeginMoves ==
    ASSUME Inv, NEW w \in Workers, NEW u \in Users \cup {NoUser}, NEW o \in Operations,
           Begin(w, u, o)
    PROVE  Moves(w) /\ job'[w].pc = "get"
<1> DEFINE j == [Idle EXCEPT !.pc = "get", !.user = u, !.impls = o.impls,
                  !.whole = o.whole, !.explicit = o.explicit, !.ops = o.ops, !.at = 0]
<1>1. j \in Job /\ JobInv(j) /\ j.pc = "get"
  BY Begun
<1>2. job' = [job EXCEPT ![w] = j]
  BY DEF Begin, Goto
<1>3. job \in [Workers -> Job]
  BY DEF Inv, TypeOK
<1> HIDE DEF j
<1> QED
  BY <1>1, <1>2, <1>3 DEF Moves

\* What can happen: an operation takes a step or begins, the target is allocated or
\* released, or nothing that is modelled here.
LEMMA WhatHappens ==
    ASSUME Inv, [Next]_vars
    PROVE  /\ LevelsOK'
           /\ \/ \E w \in Workers : Step(w) /\ Moves(w)
              \/ \E w \in Workers : Moves(w) /\ job'[w].pc = "get" /\ UNCHANGED level
              \/ Release /\ UNCHANGED job
              \/ UNCHANGED <<job, level>>
<1>1. TypeOK /\ LevelsOK
  BY DEF Inv, TypeOK, LevelsOK
<1>2. CASE \E w \in Workers : Step(w)
  BY <1>2, StepMoves
<1>3. CASE \E w \in Workers, u \in Users, o \in Operations : Request(w, u, o)
  <2>1. PICK w \in Workers, u \in Users, o \in Operations : Request(w, u, o)
    BY <1>3
  <2>2. Begin(w, u, o) /\ UNCHANGED <<level, published, owner>>
    BY <2>1 DEF Request
  <2> QED
    BY <1>1, <2>2, BeginMoves DEF LevelsOK
<1>4. CASE \E w \in Workers, o \in Operations : NextInSequence(w, o)
  <2>1. PICK w \in Workers, o \in Operations : NextInSequence(w, o)
    BY <1>4
  <2>2. Begin(w, job[w].user, o) /\ UNCHANGED <<level, published, owner>>
    BY <2>1 DEF NextInSequence
  <2>3. job[w].user \in Users \cup {NoUser}
    BY <1>1 DEF TypeOK, Job
  <2> QED
    BY <1>1, <2>2, <2>3, BeginMoves DEF LevelsOK
<1>5. CASE \E u \in Users : Allocate(u)
  BY <1>1, <1>5 DEF Allocate, LevelsOK
<1>6. CASE Release
  BY <1>1, <1>6, Released
<1>7. CASE UNCHANGED vars
  BY <1>1, <1>7 DEF vars, LevelsOK
<1> QED
  BY <1>2, <1>3, <1>4, <1>5, <1>6, <1>7 DEF Next

\* (Types, and what each operation knows of itself)  For any number of processes,
\* any rail and drivers: power.py keeps to the components it was asked for, recovers
\* one that it was to turn on and nothing else, and counts its retries.
THEOREM Invariant == Spec => []Inv
<1>1. Init => Inv
  BY Types DEF Init, Inv, TypeOK
<1>2. Inv /\ [Next]_vars => Inv'
  <2> SUFFICES ASSUME Inv, [Next]_vars
               PROVE  Inv'
    OBVIOUS
  <2>1. job \in [Workers -> Job] /\ \A w \in Workers : JobInv(job[w])
    BY DEF Inv, TypeOK
  <2>2. LevelsOK' /\ (UNCHANGED job \/ \E w \in Workers : Moves(w))
    BY WhatHappens
  <2>3. job' \in [Workers -> Job] /\ \A w \in Workers : JobInv(job'[w])
    BY <2>1, <2>2 DEF Moves
  <2> QED
    BY <2>2, <2>3 DEF Inv, TypeOK, LevelsOK
<1> QED
  BY <1>1, <1>2, PTL DEF Spec

\* (TypeOK)  The variables keep their types.
THEOREM TypeCorrect == Spec => []TypeOK
<1>1. Inv => TypeOK
  BY DEF Inv
<1> QED
  BY <1>1, Invariant, PTL

-----------------------------------------------------------------------------
(* Which components an operation touches. *)

\* SkipsOff(), of the operation alone.
SkippedOff(j, c) ==
    \/ j.data[c] = "off"
    \/ j.whole /\ ~j.explicit /\ Explicit[c] \in {"off", "both"}

\* A step sets one component, which the operation was not to skip, or undoes.
LEMMA StepTouches ==
    ASSUME Inv, NEW w \in Workers, Step(w), NEW c \in Rail, level'[c] # level[c]
    PROVE  \/ job[w].pc = "off" /\ ~SkippedOff(job[w], c)
           \/ job[w].pc \in {"on"} \cup Recovering /\ ~Skipped(job[w], c)
           \/ job[w].pc = "undo"
<1>1. TypeOK /\ JobInv(job[w])
  BY DEF Inv
<1>2. \A d \in Rail, power \in BOOLEAN : Drives(d, power) \/ Fails(d) => d = c
  BY <1>1, DriverCall
<1>3. CASE OffStep(w)
  BY <1>2, <1>3 DEF OffStep, NextOff, SkipsOff, SkippedOff, At
<1>4. CASE OffSkipsFailed(w)
  BY <1>2, <1>4 DEF OffSkipsFailed, NextOff, SkipsOff, SkippedOff, At
<1>5. CASE OnStep(w)
  BY <1>2, <1>5 DEF OnStep, NextOn, SkipsOn, Skipped, At
<1>6. CASE OnFails(w)
  BY <1>2, <1>6 DEF OnFails, NextOn, SkipsOn, Skipped, At
<1>7. CASE RecoverOff(w)
  BY <1>1, <1>2, <1>7 DEF RecoverOff, JobInv, Recovering, At
<1>8. CASE RecoverOn(w)
  BY <1>1, <1>2, <1>8 DEF RecoverOn, JobInv, Recovering, At
<1>9. CASE RecoverFails(w)
  BY <1>1, <1>2, <1>9 DEF RecoverFails, JobInv, Recovering, At
<1>10. CASE GiveUp(w)
  BY <1>1, <1>2, <1>10 DEF GiveUp, JobInv, Recovering, At
<1>11. CASE UndoStep(w)
  BY <1>11 DEF UndoStep, At
<1>12. CASE UNCHANGED level
  BY <1>12
<1> QED
  BY <1>3, <1>4, <1>5, <1>6, <1>7, <1>8, <1>9, <1>10, <1>11, <1>12
  DEF Step, Get, GetFails, OffDone, OnDone, UndoGet, UndoDone, Reply

\* (ExplicitLeftAlone)  However many operations run on the rail and whoever releases
\* it meanwhile: one on the whole rail that did not ask for the explicit components
\* touches none, but for the power off of a retry, which names them all.
THEOREM ExplicitAlone == Spec => ExplicitLeftAlone
<1> DEFINE Alone ==
        \A w \in Workers, c \in Rail :
         /\ job[w].whole /\ ~job[w].explicit
         /\ job[w] # job'[w] /\ level[c] # level'[c]
         => \/ Explicit[c] = "none"
            \/ Explicit[c] = "on" /\ (At(w, "off") \/ At(w, "undo"))
            \/ Explicit[c] = "off" /\ ~At(w, "off")
            \/ At(w, "undo")
<1>1. Inv /\ [Next]_vars => Alone
  <2> SUFFICES ASSUME Inv, [Next]_vars, NEW w \in Workers, NEW c \in Rail,
                      job[w].whole, ~job[w].explicit,
                      job[w] # job'[w], level[c] # level'[c]
               PROVE  \/ Explicit[c] = "none"
                      \/ Explicit[c] = "on" /\ (At(w, "off") \/ At(w, "undo"))
                      \/ Explicit[c] = "off" /\ ~At(w, "off")
                      \/ At(w, "undo")
    OBVIOUS
  <2>1. PICK v \in Workers : Step(v) /\ Moves(v)
    BY WhatHappens
  <2>2. v = w
    BY <2>1 DEF Moves, Inv, TypeOK
  <2>3. \/ job[w].pc = "off" /\ ~SkippedOff(job[w], c)
        \/ job[w].pc \in {"on"} \cup Recovering /\ ~Skipped(job[w], c)
        \/ job[w].pc = "undo"
    BY <2>1, <2>2, StepTouches
  <2>4. Explicit[c] \in {"none", "on", "off", "both"}
    BY RailAssumption
  <2> QED
    BY <2>3, <2>4 DEF SkippedOff, Skipped, Recovering, At
<1>2. Inv /\ [Next]_vars => [Alone]_vars
  BY <1>1
<1>3. [][Alone]_vars => ExplicitLeftAlone
  BY PTL DEF ExplicitLeftAlone, At
<1> QED
  BY <1>2, <1>3, Invariant, PTL DEF Spec

-----------------------------------------------------------------------------
(* The order of the rail, while one operation runs at a time. *)

\* Fields of what an operation becomes that a step names.
LEMMA FieldsOf ==
    ASSUME NEW d \in Job
    PROVE  /\ \A c : LET j == [d EXCEPT !.at = c] IN
                j.pc = d.pc /\ j.at = c /\ j.data = d.data /\ j.stuck = d.stuck
                /\ j.whole = d.whole /\ j.explicit = d.explicit /\ j.retries = d.retries
           /\ \A c : LET j == [d EXCEPT !.at = c, !.stuck = @ \cup {c}] IN
                j.pc = d.pc /\ j.at = c /\ j.data = d.data /\ j.stuck = d.stuck \cup {c}
                /\ j.whole = d.whole /\ j.explicit = d.explicit /\ j.retries = d.retries
           /\ \A pc, c : LET j == [d EXCEPT !.pc = pc, !.at = c] IN
                j.pc = pc /\ j.at = c /\ j.data = d.data /\ j.stuck = d.stuck
                /\ j.whole = d.whole /\ j.explicit = d.explicit /\ j.retries = d.retries
           /\ \A pc : LET j == [d EXCEPT !.pc = pc] IN
                j.pc = pc /\ j.at = d.at /\ j.data = d.data /\ j.stuck = d.stuck
                /\ j.whole = d.whole /\ j.explicit = d.explicit /\ j.retries = d.retries
BY DEF Job

\* A power on passes a component once it has power, was read as on, or is not asked for.
LEMMA OnStepKeeps ==
    ASSUME Inv, NEW w \in Workers, OnInv(level, job[w]),
           OnStep(w) \/ OnFails(w)
    PROVE  OnInv(level', job'[w])
<1> DEFINE d == job[w]
<1>1. /\ TypeOK /\ d \in Job /\ JobInv(d) /\ d.pc = "on"
      /\ job \in [Workers -> Job]
  BY DEF Inv, TypeOK, OnStep, OnFails, At
<1>2. PICK c \in Rail :
        /\ c \in d.impls /\ d.at < c /\ ~Skipped(d, c)
        /\ \A e \in d.impls : d.at < e /\ e < c => Skipped(d, e)
        /\ \/ Drives(c, TRUE) /\ Goto(w, [d EXCEPT !.at = c])
           \/ Fails(c) /\ Goto(w, [d EXCEPT !.pc = "recover_off", !.at = c])
           \/ Fails(c) /\ (Goto(w, RetryAll(w)) \/ Finish(w, "error"))
  BY DEF OnStep, OnFails, NextOn, SkipsOn, Skipped
<1>3. /\ level' \in [Rail -> BOOLEAN]
      /\ \A e \in Rail \ {c} : level'[e] = level[e]
  BY <1>1, <1>2, DriverCall
<1>4. d.at \in Int /\ c \in Int /\ Rail \subseteq Int
  BY <1>1 DEF Job, Rail
<1>5. \A e \in Rail \ OffOnRelease :
        \/ d.data[e] = "on"
        \/ d.whole /\ Asked(d, e) /\ e < c
        => Excused(level', d, e)
  <2> SUFFICES ASSUME NEW e \in Rail \ OffOnRelease,
                      \/ d.data[e] = "on"
                      \/ d.whole /\ Asked(d, e) /\ e < c
               PROVE  Excused(level', d, e)
    OBVIOUS
  <2>1. e # c /\ level'[e] = level[e]
    BY <1>2, <1>3, <1>4 DEF Skipped
  <2>2. d.data[e] = "on" \/ (d.whole /\ Asked(d, e) /\ e <= d.at)
    <3>1. CASE d.whole /\ Asked(d, e) /\ e < c /\ ~(e <= d.at)
      <4>1. e \in d.impls /\ d.at < e
        BY <1>1, <1>4, <3>1 DEF JobInv
      <4>2. Skipped(d, e)
        BY <1>2, <3>1, <4>1
      <4> QED
        BY <3>1, <4>2, RailAssumption DEF Skipped, Asked
    <3> QED
      BY <3>1
  <2>3. Excused(level, d, e)
    BY <1>1, <1>4, <2>2 DEF OnInv, Passed
  <2> QED
    BY <2>1, <2>3 DEF Excused
<1>6. CASE Drives(c, TRUE) /\ Goto(w, [d EXCEPT !.at = c])
  <2> DEFINE j == [d EXCEPT !.at = c]
  <2>1. job'[w] = j
    BY <1>1, <1>6 DEF Goto
  <2>2. /\ j.pc = d.pc /\ j.at = c /\ j.data = d.data
        /\ j.whole = d.whole /\ j.explicit = d.explicit /\ j.retries = d.retries
    BY <1>1, FieldsOf
  <2> HIDE DEF j
  <2>3. level'[c] = TRUE
    BY <1>1, <1>6 DEF Drives, TypeOK
  <2> QED
    BY <1>4, <1>5, <2>1, <2>2, <2>3 DEF OnInv, Excused, Asked, Passed
<1>7. CASE Goto(w, [d EXCEPT !.pc = "recover_off", !.at = c])
  <2> DEFINE j == [d EXCEPT !.pc = "recover_off", !.at = c]
  <2>1. job'[w] = j
    BY <1>1, <1>7 DEF Goto
  <2>2. /\ j.pc = "recover_off" /\ j.at = c /\ j.data = d.data
        /\ j.whole = d.whole /\ j.explicit = d.explicit /\ j.retries = d.retries
    BY <1>1, FieldsOf
  <2> HIDE DEF j
  <2> QED
    BY <1>4, <1>5, <2>1, <2>2 DEF OnInv, Excused, Asked, Passed
<1>8. CASE Goto(w, RetryAll(w)) \/ Finish(w, "error")
  <2>1. Finish(w, "error") => job'[w].pc = "done"
    BY <1>1, Finished
  <2>2. RetryAll(w).pc \in {"done", "undo_get"}
    BY <1>1 DEF RetryAll, Idle, Job
  <2>3. Goto(w, RetryAll(w)) => job'[w] = RetryAll(w)
    BY <1>1 DEF Goto
  <2> QED
    BY <1>8, <2>1, <2>2, <2>3 DEF OnInv
<1> QED
  BY <1>2, <1>6, <1>7, <1>8

\* The recovery of a component leaves those before it as they were.
LEMMA RecoverKeeps ==
    ASSUME Inv, NEW w \in Workers, OnInv(level, job[w]),
           RecoverOff(w) \/ RecoverOn(w)
    PROVE  OnInv(level', job'[w])
<1> DEFINE d == job[w]
<1>1. /\ TypeOK /\ d \in Job /\ JobInv(d) /\ d.pc \in {"recover_off", "recover_on"}
      /\ job \in [Workers -> Job]
  BY DEF Inv, TypeOK, RecoverOff, RecoverOn, At
<1>2. d.at \in Rail /\ ~Skipped(d, d.at)
  BY <1>1 DEF JobInv, Recovering
<1>3. \E power \in BOOLEAN : Drives(d.at, power) \/ Fails(d.at)
  BY DEF RecoverOff, RecoverOn
<1>4. /\ level' \in [Rail -> BOOLEAN]
      /\ \A e \in Rail \ {d.at} : level'[e] = level[e]
  BY <1>1, <1>2, <1>3, DriverCall
<1>5. d.at \in Int /\ Rail \subseteq Int
  BY <1>1 DEF Job, Rail
<1>6. \A e \in Rail \ OffOnRelease :
        d.data[e] = "on" \/ (d.whole /\ Asked(d, e) /\ e < d.at) => Excused(level', d, e)
  BY <1>1, <1>2, <1>4, <1>5 DEF OnInv, Excused, Passed, Skipped
<1>7. CASE RecoverOff(w)
  <2> DEFINE j == [d EXCEPT !.pc = "recover_on"]
  <2>1. job'[w] = j
    BY <1>1, <1>7 DEF RecoverOff, Goto
  <2>2. /\ j.pc = "recover_on" /\ j.at = d.at /\ j.data = d.data
        /\ j.whole = d.whole /\ j.explicit = d.explicit /\ j.retries = d.retries
    BY <1>1, FieldsOf
  <2> HIDE DEF j
  <2> QED
    BY <1>5, <1>6, <2>1, <2>2 DEF OnInv, Excused, Asked, Passed
<1>8. CASE RecoverOn(w)
  <2> DEFINE j == [d EXCEPT !.pc = "on"]
  <2>1. job'[w] = j
    BY <1>1, <1>8 DEF RecoverOn, Goto
  <2>2. /\ j.pc = "on" /\ j.at = d.at /\ j.data = d.data
        /\ j.whole = d.whole /\ j.explicit = d.explicit /\ j.retries = d.retries
    BY <1>1, FieldsOf
  <2> HIDE DEF j
  <2>3. level'[d.at] = TRUE
    BY <1>1, <1>2, <1>8 DEF RecoverOn, Drives, TypeOK
  <2> QED
    BY <1>5, <1>6, <2>1, <2>2, <2>3 DEF OnInv, Excused, Asked, Passed
<1> QED
  BY <1>7, <1>8

\* A power off passes a component once it is off, read as off, not asked for, or stuck.
LEMMA OffStepKeeps ==
    ASSUME Inv, NEW w \in Workers, OffInv(level, job[w]),
           OffStep(w) \/ OffSkipsFailed(w)
    PROVE  OffInv(level', job'[w])
<1> DEFINE d == job[w]
<1>1. /\ TypeOK /\ d \in Job /\ JobInv(d) /\ d.pc = "off"
      /\ job \in [Workers -> Job]
  BY DEF Inv, TypeOK, OffStep, OffSkipsFailed, At
<1>2. PICK c \in Rail :
        /\ c \in d.impls /\ c < d.at /\ ~SkippedOff(d, c)
        /\ \A e \in d.impls : c < e /\ e < d.at => SkippedOff(d, e)
        /\ \/ Drives(c, FALSE) /\ Goto(w, [d EXCEPT !.at = c])
           \/ Fails(c) /\ Goto(w, [d EXCEPT !.at = c, !.stuck = @ \cup {c}])
  BY DEF OffStep, OffSkipsFailed, NextOff, SkipsOff, SkippedOff
<1>3. /\ level' \in [Rail -> BOOLEAN]
      /\ \A e \in Rail \ {c} : level'[e] = level[e]
  BY <1>1, <1>2, DriverCall
<1>4. d.at \in Int /\ c \in Int /\ Rail \subseteq Int
  BY <1>1 DEF Job, Rail
<1>5. \A e \in Rail : d.data[e] = "off" => ~level'[e]
  BY <1>1, <1>2, <1>3 DEF OffInv, SkippedOff
<1>6. \A e \in Rail : d.whole /\ e > c => ~level'[e] \/ Exempt(d, e)
  <2> SUFFICES ASSUME NEW e \in Rail, d.whole, e > c
               PROVE  ~level'[e] \/ Exempt(d, e)
    OBVIOUS
  <2>1. level'[e] = level[e]
    BY <1>3, <1>4
  <2>2. CASE e >= d.at
    BY <1>1, <2>1, <2>2 DEF OffInv
  <2>3. CASE ~(e >= d.at)
    <3>1. e \in d.impls /\ c < e /\ e < d.at
      BY <1>1, <1>4, <2>3 DEF JobInv
    <3>2. SkippedOff(d, e)
      BY <1>2, <3>1
    <3> QED
      BY <1>5, <3>2 DEF SkippedOff, Exempt
  <2> QED
    BY <2>2, <2>3
<1>7. CASE Drives(c, FALSE) /\ Goto(w, [d EXCEPT !.at = c])
  <2> DEFINE j == [d EXCEPT !.at = c]
  <2>1. job'[w] = j
    BY <1>1, <1>7 DEF Goto
  <2>2. /\ j.pc = d.pc /\ j.at = c /\ j.data = d.data /\ j.stuck = d.stuck
        /\ j.whole = d.whole /\ j.explicit = d.explicit
    BY <1>1, FieldsOf
  <2> HIDE DEF j
  <2>3. level'[c] = FALSE
    BY <1>1, <1>7 DEF Drives, TypeOK
  <2>4. \A e \in Rail : d.whole /\ e >= c => ~level'[e] \/ Exempt(d, e)
    <3> SUFFICES ASSUME NEW e \in Rail, d.whole, e >= c
                 PROVE  ~level'[e] \/ Exempt(d, e)
      OBVIOUS
    <3>1. e = c \/ e > c
      BY <1>4
    <3> QED
      BY <1>6, <2>3, <3>1
  <2>5. \A e \in Rail : Exempt(d, e) => Exempt(j, e)
    BY <2>2 DEF Exempt
  <2> QED
    BY <1>5, <2>1, <2>2, <2>4, <2>5 DEF OffInv
<1>8. CASE Goto(w, [d EXCEPT !.at = c, !.stuck = @ \cup {c}])
  <2> DEFINE j == [d EXCEPT !.at = c, !.stuck = @ \cup {c}]
  <2>1. job'[w] = j
    BY <1>1, <1>8 DEF Goto
  <2>2. /\ j.pc = d.pc /\ j.at = c /\ j.data = d.data /\ j.stuck = d.stuck \cup {c}
        /\ j.whole = d.whole /\ j.explicit = d.explicit
    BY <1>1, FieldsOf
  <2> HIDE DEF j
  <2> QED
    BY <1>4, <1>5, <1>6, <2>1, <2>2 DEF OffInv, Exempt
<1> QED
  BY <1>2, <1>7, <1>8

\* Each step of an operation keeps what it knows of the rail: it reads before it acts,
\* and the retry of a rail, which does not read again, is counted.
LEMMA StepKeeps ==
    ASSUME Inv, NEW w \in Workers, OnInv(level, job[w]), OffInv(level, job[w]), Step(w)
    PROVE  OnInv(level', job'[w]) /\ OffInv(level', job'[w])
<1> DEFINE d == job[w]
<1>1. /\ TypeOK /\ d \in Job /\ JobInv(d)
      /\ job \in [Workers -> Job]
  BY DEF Inv, TypeOK
<1>2. /\ ~(job'[w].pc \in {"on", "off", "recover_off", "recover_on"}) =>
            OnInv(level', job'[w]) /\ OffInv(level', job'[w])
      /\ job'[w].pc # "off" => OffInv(level', job'[w])
      /\ job'[w].pc = "off" => OnInv(level', job'[w])
  BY DEF OnInv, OffInv
<1>3. \A r \in {"ok", "error"} : Finish(w, r) => job'[w].pc = "done"
  BY <1>1, Finished
<1>4. CASE OnStep(w) \/ OnFails(w)
  <2>1. OnInv(level', job'[w])
    BY <1>4, OnStepKeeps
  <2>2. \A c : LET j == [d EXCEPT !.at = c] IN Goto(w, j) => job'[w].pc = d.pc
    BY <1>1, FieldsOf DEF Goto
  <2>3. \A c : LET j == [d EXCEPT !.pc = "recover_off", !.at = c] IN
                   Goto(w, j) => job'[w].pc = "recover_off"
    BY <1>1, FieldsOf DEF Goto
  <2>4. Goto(w, RetryAll(w)) => job'[w].pc # "off"
    BY <1>1 DEF Goto, RetryAll, Idle, Job
  <2>5. d.pc = "on"
    BY <1>4 DEF OnStep, OnFails, At
  <2>6. job'[w].pc # "off"
    BY <1>3, <1>4, <2>2, <2>3, <2>4, <2>5 DEF OnStep, OnFails
  <2> QED
    BY <1>2, <2>1, <2>6
<1>5. CASE RecoverOff(w) \/ RecoverOn(w)
  <2>1. OnInv(level', job'[w])
    BY <1>5, RecoverKeeps
  <2>2. \A pc : Goto(w, [d EXCEPT !.pc = pc]) => job'[w].pc = pc
    BY <1>1, FieldsOf DEF Goto
  <2>3. job'[w].pc # "off"
    BY <1>5, <2>2 DEF RecoverOff, RecoverOn
  <2> QED
    BY <1>2, <2>1, <2>3
<1>6. CASE OffStep(w) \/ OffSkipsFailed(w)
  <2>1. OffInv(level', job'[w])
    BY <1>6, OffStepKeeps
  <2>2. \A c : Goto(w, [d EXCEPT !.at = c]) => job'[w].pc = d.pc
    BY <1>1, FieldsOf DEF Goto
  <2>3. \A c : Goto(w, [d EXCEPT !.at = c, !.stuck = @ \cup {c}]) => job'[w].pc = d.pc
    BY <1>1, FieldsOf DEF Goto
  <2>4. job'[w].pc = "off"
    BY <1>6, <2>2, <2>3 DEF OffStep, OffSkipsFailed, At
  <2> QED
    BY <1>2, <2>1, <2>4
<1>7. CASE Get(w)
  <2> DEFINE data == Sample(d.impls)
             loc == IF d.ops = "on" THEN "on" ELSE "off"
             first == IF d.ops = "on" THEN 0 ELSE RailLength + 1
             j == [d EXCEPT !.pc = loc, !.data = data, !.at = first]
  <2>1. job'[w] = j /\ UNCHANGED level
    BY <1>1, <1>7 DEF Get, Goto
  <2>2. j.pc = loc /\ j.data = data /\ j.at = first
    BY <1>1 DEF Job
  <2>3. /\ \A c \in Rail : data[c] = "on" => level[c]
        /\ \A c \in Rail : data[c] = "off" => ~level[c]
    BY <1>1, Sampled
  <2> HIDE DEF j, data
  <2>4. \A c \in Rail : ~(c < 0) /\ c # 0 /\ ~(c >= RailLength + 1)
    BY RailAssumption DEF Rail
  <2>5. OnInv(level, j)
    BY <2>2, <2>3, <2>4 DEF OnInv, Excused, Passed
  <2>6. OffInv(level, j)
    BY <2>2, <2>3, <2>4 DEF OffInv
  <2> QED
    BY <2>1, <2>5, <2>6
<1>8. ASSUME NEW j, job'[w] = j, j.pc = "on", j.at = 0, j.retries > 0
      PROVE  OnInv(level', job'[w]) /\ OffInv(level', job'[w])
  <2>1. \A c \in Rail : ~(c < 0) /\ c # 0
    BY DEF Rail
  <2> QED
    BY <1>8, <2>1 DEF OnInv, OffInv, Excused, Passed
<1>9. CASE UndoGet(w)
  <2> DEFINE j == [d EXCEPT !.pc = "undo", !.undo = Sample(d.impls), !.at = RailLength + 1]
             k == [d EXCEPT !.pc = "on", !.at = 0]
  <2>1. job'[w] = j \/ job'[w] = k
    BY <1>1, <1>9 DEF UndoGet, Goto
  <2>2. j.pc = "undo" /\ k.pc = "on" /\ k.at = 0 /\ k.retries = d.retries
    BY <1>1 DEF Job
  <2>3. d.retries > 0
    BY <1>1, <1>9 DEF UndoGet, At, JobInv
  <2> HIDE DEF j, k
  <2> QED
    BY <1>2, <1>8, <2>1, <2>2, <2>3
<1>10. CASE UndoDone(w)
  <2> DEFINE j == [d EXCEPT !.pc = "on", !.at = 0, !.undo = NoData]
  <2>1. job'[w] = j
    BY <1>1, <1>10 DEF UndoDone, Goto
  <2>2. j.pc = "on" /\ j.at = 0 /\ j.retries = d.retries
    BY <1>1 DEF Job
  <2>3. d.retries > 0
    BY <1>1, <1>10 DEF UndoDone, At, JobInv
  <2> HIDE DEF j
  <2> QED
    BY <1>8, <2>1, <2>2, <2>3
<1>11. CASE OffDone(w)
  <2> DEFINE j == [d EXCEPT !.pc = "get", !.ops = "on", !.at = 0, !.data = NoData, !.stuck = {}]
  <2>1. job'[w] = j \/ Finish(w, "ok")
    BY <1>1, <1>11 DEF OffDone, Goto
  <2>2. j.pc = "get"
    BY <1>1 DEF Job
  <2> HIDE DEF j
  <2> QED
    BY <1>2, <1>3, <2>1, <2>2
<1>12. CASE UndoStep(w)
  <2>1. \A c : Goto(w, [d EXCEPT !.at = c]) => job'[w].pc = d.pc
    BY <1>1, FieldsOf DEF Goto
  <2>2. job'[w].pc = "undo"
    BY <1>12, <2>1 DEF UndoStep, At
  <2> QED
    BY <1>2, <2>2
<1>13. CASE RecoverFails(w)
  <2>1. \A pc : Goto(w, [d EXCEPT !.pc = pc]) => job'[w].pc = pc
    BY <1>1, FieldsOf DEF Goto
  <2>2. job'[w].pc = "give_up"
    BY <1>13, <2>1 DEF RecoverFails
  <2> QED
    BY <1>2, <2>2
<1>14. CASE Reply(w)
  <2>1. job'[w].pc = "idle"
    BY <1>1, <1>14 DEF Reply, Goto, Idle
  <2> QED
    BY <1>2, <2>1
<1>15. CASE GetFails(w) \/ OnDone(w) \/ GiveUp(w)
  <2>1. job'[w].pc = "done"
    BY <1>3, <1>15 DEF GetFails, OnDone, GiveUp
  <2> QED
    BY <1>2, <2>1
<1> QED
  BY <1>4, <1>5, <1>6, <1>7, <1>9, <1>10, <1>11, <1>12, <1>13, <1>14, <1>15 DEF Step

\* One operation runs on the rail at a time.  Nothing in the code sees to it.
Busy(w) == job[w].pc \notin {"idle", "done"}
OneAtATime == \A v, w \in Workers : Busy(v) /\ Busy(w) => v = w

\* The rail is as the operation that runs knows it, whatever is released meanwhile.
LEMMA LevelsKnown == Spec /\ []OneAtATime => []LevelInv
<1>1. Init => LevelInv
  BY DEF Init, LevelInv, OnInv, OffInv, Idle
<1>2. Inv /\ OneAtATime /\ LevelInv /\ [Next]_vars => LevelInv'
  <2> SUFFICES ASSUME Inv, OneAtATime, LevelInv, [Next]_vars, NEW w \in Workers
               PROVE  OnInv(level', job'[w]) /\ OffInv(level', job'[w])
    BY DEF LevelInv
  <2>1. /\ job \in [Workers -> Job] /\ TypeOK
        /\ OnInv(level, job[w]) /\ OffInv(level, job[w])
    BY DEF Inv, TypeOK, LevelInv
  <2>2. CASE \E v \in Workers : Step(v) /\ Moves(v)
    <3>1. PICK v \in Workers : Step(v) /\ Moves(v)
      BY <2>2
    <3>2. CASE v = w
      BY <2>1, <3>1, <3>2, StepKeeps
    <3>3. CASE v # w
      <4>1. job'[w] = job[w]
        BY <2>1, <3>1, <3>3 DEF Moves
      <4>2. CASE Reply(v)
        BY <2>1, <4>1, <4>2 DEF Reply
      <4>3. CASE ~Reply(v)
        <5>1. Busy(v)
          BY <3>1, <4>3
          DEF Busy, At, Step, Get, GetFails, OffStep, OffSkipsFailed, OffDone, OnStep, OnFails,
              OnDone, RecoverOff, RecoverOn, RecoverFails, GiveUp, UndoGet, UndoStep, UndoDone
        <5>2. ~Busy(w)
          BY <3>3, <5>1 DEF OneAtATime
        <5> QED
          BY <4>1, <5>2 DEF Busy, OnInv, OffInv
      <4> QED
        BY <4>2, <4>3
    <3> QED
      BY <3>2, <3>3
  <2>3. CASE \E v \in Workers : Moves(v) /\ job'[v].pc = "get" /\ UNCHANGED level
    BY <2>1, <2>3 DEF Moves, OnInv, OffInv
  <2>4. CASE Release /\ UNCHANGED job
    <3>1. /\ \A c \in Rail : level'[c] => level[c]
          /\ \A c \in Rail \ OffOnRelease : level'[c] = level[c]
      BY <2>1, <2>4, Released
    <3>2. OnInv(level', job[w])
      BY <2>1, <3>1 DEF OnInv, Excused
    <3>3. OffInv(level', job[w])
      BY <2>1, <3>1 DEF OffInv
    <3> QED
      BY <2>4, <3>2, <3>3
  <2>5. CASE UNCHANGED <<job, level>>
    BY <2>1, <2>5
  <2> QED
    BY <2>2, <2>3, <2>4, <2>5, WhatHappens
<1> QED
  BY <1>1, <1>2, Invariant, PTL DEF Spec

\* The hypothesis of what follows holds where the target's requests are served by one
\* worker, as in the run.
THEOREM OneWorker ==
    ASSUME \A v, w \in Workers : v = w
    PROVE  Spec => []OneAtATime
<1>1. OneAtATime
  BY DEF OneAtATime
<1> QED
  BY <1>1, PTL

\* (RailOrder)  What a power on of the rail turns on comes after what it wanted on
\* before it, whichever drivers fail, are recovered or ask for the rail again, and
\* whatever a release takes away meanwhile.
THEOREM PoweredInOrder == Spec /\ []OneAtATime => RailOrder
<1> DEFINE Ordered ==
        \A w \in Workers, c \in Rail :
         /\ job[w].whole
         /\ At(w, "on") /\ OnStep(w)
         /\ ~level[c] /\ level'[c]
         => \A d \in 1 .. c - 1 :
                Wanted(w, d) /\ d \notin OffOnRelease =>
                    level[d] \/ (job[w].data[d] = "on" /\ job[w].retries > 0)
<1>1. Inv /\ LevelInv => Ordered
  <2> SUFFICES ASSUME Inv, LevelInv, NEW w \in Workers, NEW c \in Rail, job[w].whole,
                      At(w, "on"), OnStep(w), ~level[c] /\ level'[c],
                      NEW e \in 1 .. c - 1, Wanted(w, e), e \notin OffOnRelease
               PROVE  level[e] \/ (job[w].data[e] = "on" /\ job[w].retries > 0)
    OBVIOUS
  <2> DEFINE d == job[w]
  <2>1. TypeOK /\ d \in Job /\ JobInv(d) /\ d.pc = "on" /\ OnInv(level, d)
    BY DEF Inv, TypeOK, LevelInv, At
  <2>2. PICK k \in Rail : NextOn(w, k) /\ Drives(k, TRUE)
    BY DEF OnStep
  <2>3. k = c
    BY <2>1, <2>2, DriverCall
  <2>4. /\ e \in Rail /\ e < c /\ d.at \in Int /\ e \in Int /\ e \in d.impls
        /\ (e < d.at \/ e = d.at \/ d.at < e)
    BY <2>1, RailAssumption DEF Rail, Job, JobInv
  <2>5. CASE e < d.at \/ e = d.at
    BY <2>1, <2>4, <2>5 DEF OnInv, Passed, Asked, Wanted, Excused
  <2>6. CASE d.at < e
    <3>1. SkipsOn(w, e)
      BY <2>2, <2>3, <2>4, <2>6 DEF NextOn
    <3>2. d.data[e] = "on"
      BY <3>1, <2>4, RailAssumption DEF SkipsOn, Wanted
    <3> QED
      BY <2>1, <2>4, <3>2 DEF OnInv, Excused
  <2> QED
    BY <2>4, <2>5, <2>6
<1>2. Inv /\ LevelInv => [Ordered]_vars
  BY <1>1
<1>3. [][Ordered]_vars => RailOrder
  BY PTL DEF RailOrder
<1> QED
  BY <1>2, <1>3, Invariant, LevelsKnown, PTL DEF Spec

\* (ReverseOrder)  What a power off of the rail turns off comes after what is behind
\* it: that is off, or explicit and not asked for, or did not obey twice.
THEOREM PoweredOffInReverse == Spec /\ []OneAtATime => ReverseOrder
<1> DEFINE Reversed ==
        \A w \in Workers, c \in Rail :
         /\ job[w].whole
         /\ At(w, "off") /\ OffStep(w)
         /\ level[c] /\ ~level'[c]
         => \A d \in c + 1 .. RailLength :
                ~level[d] \/ d \in job[w].stuck
                    \/ (~job[w].explicit /\ Explicit[d] \in {"off", "both"})
<1>1. Inv /\ LevelInv => Reversed
  <2> SUFFICES ASSUME Inv, LevelInv, NEW w \in Workers, NEW c \in Rail, job[w].whole,
                      At(w, "off"), OffStep(w), level[c] /\ ~level'[c],
                      NEW e \in c + 1 .. RailLength
               PROVE  ~level[e] \/ Exempt(job[w], e)
    BY DEF Exempt
  <2> DEFINE d == job[w]
  <2>1. TypeOK /\ d \in Job /\ JobInv(d) /\ d.pc = "off" /\ OffInv(level, d)
    BY DEF Inv, TypeOK, LevelInv, At
  <2>2. PICK k \in Rail : NextOff(w, k) /\ Drives(k, FALSE)
    BY DEF OffStep
  <2>3. k = c
    BY <2>1, <2>2, DriverCall
  <2>4. /\ e \in Rail /\ c < e /\ d.at \in Int /\ e \in Int /\ e \in d.impls
        /\ (e >= d.at \/ e < d.at)
    BY <2>1, RailAssumption DEF Rail, Job, JobInv
  <2>5. CASE e >= d.at
    BY <2>1, <2>4, <2>5 DEF OffInv
  <2>6. CASE e < d.at
    <3>1. SkipsOff(w, e)
      BY <2>2, <2>3, <2>4, <2>6 DEF NextOff
    <3> QED
      BY <2>1, <2>4, <3>1 DEF SkipsOff, OffInv, Exempt
  <2> QED
    BY <2>4, <2>5, <2>6
<1>2. Inv /\ LevelInv => [Reversed]_vars
  BY <1>1
<1>3. [][Reversed]_vars => ReverseOrder
  BY PTL DEF ReverseOrder
<1> QED
  BY <1>2, <1>3, Invariant, LevelsKnown, PTL DEF Spec

\* Of the components still to turn on, one is first.
LEMMA Least ==
    ASSUME NEW S, S \subseteq Nat, S # {}
    PROVE  \E x \in S : \A y \in S : x <= y
<1>1. PICK R : R = OpToRel(<, Nat)
  OBVIOUS
<1>2. IsWellFoundedOn(R, Nat)
  BY <1>1, NatLessThanWellFounded
<1>3. PICK x \in S : \A y \in S : ~(<<y, x>> \in R)
  BY <1>2, WFMin
<1>4. \A y, z \in Nat : y < z => <<y, z>> \in R
  BY <1>1 DEF OpToRel
<1>5. ASSUME NEW y \in S PROVE x <= y
  <2>1. x \in Nat /\ y \in Nat /\ ~(y < x)
    BY <1>3, <1>4
  <2> QED
    BY <2>1
<1> QED
  BY <1>5

\* (OnDelivers)  A power on of the rail that reports success leaves on what it wanted
\* on, whatever failed on the way, but for what a retry turned off without a new look.
THEOREM SuccessIsPower == Spec /\ []OneAtATime => OnDelivers
<1> DEFINE Delivered ==
        \A w \in Workers :
         /\ job[w].whole /\ OnDone(w)
         => \A c \in Rail : Wanted(w, c) /\ c \notin OffOnRelease =>
                level[c] \/ (job[w].data[c] = "on" /\ job[w].retries > 0)
<1>1. Inv /\ LevelInv => Delivered
  <2> SUFFICES ASSUME Inv, LevelInv, NEW w \in Workers, job[w].whole, OnDone(w),
                      NEW c \in Rail, Wanted(w, c), c \notin OffOnRelease
               PROVE  level[c] \/ (job[w].data[c] = "on" /\ job[w].retries > 0)
    OBVIOUS
  <2> DEFINE d == job[w]
  <2>1. TypeOK /\ d \in Job /\ JobInv(d) /\ d.pc = "on" /\ OnInv(level, d)
    BY DEF Inv, TypeOK, LevelInv, OnDone, At
  <2>2. ASSUME d.data[c] # "on", ~(c < d.at \/ c = d.at)
        PROVE  FALSE
    <3> DEFINE S == {e \in Rail : d.at < e /\ ~SkipsOn(w, e)}
    <3>1. c \in S
      BY <2>1, <2>2, RailAssumption DEF SkipsOn, Wanted, Rail, Job
    <3>2. S \subseteq Nat
      BY DEF Rail
    <3>3. PICK f \in S : \A e \in S : f <= e
      BY <3>1, <3>2, Least
    <3>4. NextOn(w, f)
      BY <2>1, <3>3, RailAssumption DEF NextOn, JobInv, Rail, Job
    <3> QED
      BY <3>3, <3>4 DEF OnDone
  <2> QED
    BY <2>1, <2>2 DEF OnInv, Passed, Asked, Wanted, Excused
<1>2. Inv /\ LevelInv => [Delivered]_vars
  BY <1>1
<1>3. [][Delivered]_vars => OnDelivers
  BY PTL DEF OnDelivers
<1> QED
  BY <1>2, <1>3, Invariant, LevelsKnown, PTL DEF Spec

=============================================================================
