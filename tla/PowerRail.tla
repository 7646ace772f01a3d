----------------------------- MODULE PowerRail -----------------------------
(***************************************************************************)
(* The power interface of a target, ttbd/ttbl/power.py, and the ownership  *)
(* check its operations start with, test_target.target_owned_and_locked(). *)
(*                                                                         *)
(* A rail is a list of components, powered on in order and off in reverse. *)
(* Some are explicit: skipped by operations on the whole rail.  Drivers    *)
(* fail; power on recovers one component by turning it off and on again,   *)
(* or the whole rail when its driver asks for it.  An operation is one     *)
(* HTTP request and takes from seconds to minutes; the owner is looked at  *)
(* when it starts.  One action is one call to a driver, between which      *)
(* other processes run.                                                    *)
(***************************************************************************)
EXTENDS Integers, FiniteSets

CONSTANTS
    Workers,     \* processes that serve HTTP requests
    Users,
    RailLength,  \* the components are 1 .. RailLength, in power on order
    Explicit,    \* Explicit[c]: the operations that skip c
    Reads,       \* components that report a state; the others answer None
    Recovers,    \* components with power_on_recovery
    RetriesAll,  \* components whose failures ask for the whole rail again
    OffOnRelease,\* components turned off when the target is released
    Faulty,      \* components whose driver may fail
    NoUser

Rail == 1 .. RailLength
MaxRetries == 3

ASSUME RailAssumption ==
    /\ RailLength \in Nat \ {0}
    /\ Explicit \in [Rail -> {"none", "on", "off", "both"}]
    /\ Reads \subseteq Rail /\ Recovers \subseteq Rail
    /\ RetriesAll \subseteq Rail /\ OffOnRelease \subseteq Rail
    /\ Faulty \subseteq Rail
ASSUME UsersAssumption == NoUser \notin Users

VARIABLES
    level,      \* level[c]: c has power
    published,  \* inventory field interfaces.power.state
    owner,      \* the user the target is allocated to
    job         \* the operation each process runs, and where it is

vars == <<level, published, owner, job>>

Readings == {"on", "off", "n/a"}

PCs == {"idle", "get", "off", "on", "recover_off", "recover_on", "give_up",
        "undo_get", "undo", "done"}

Job == [pc       : PCs,
        user     : Users \cup {NoUser},
        ops      : {"on", "off", "cycle"},
        impls    : SUBSET Rail,       \* the components asked for
        whole    : BOOLEAN,           \* none was named: the whole rail
        explicit : BOOLEAN,           \* explicit ones too
        data     : [Rail -> Readings],\* as read at the start of this on or off
        undo     : [Rail -> Readings],\* as read by the power off of a retry
        at       : 0 .. RailLength + 1,
        stuck    : SUBSET Rail,       \* did not go off in two tries
        retries  : 0 .. MaxRetries - 1,
        result   : {"none", "ok", "error"}]

NoData == [c \in Rail |-> "n/a"]

Idle == [pc |-> "idle", user |-> NoUser, ops |-> "on", impls |-> {},
         whole |-> FALSE, explicit |-> FALSE, data |-> NoData, undo |-> NoData,
         at |-> 0, stuck |-> {}, retries |-> 0, result |-> "none"]

At(w, loc) == job[w].pc = loc
Goto(w, j) == job' = [job EXCEPT ![w] = j]

Init ==
    /\ level = [c \in Rail |-> FALSE]
    /\ published = FALSE
    /\ owner = NoUser
    /\ job = [w \in Workers |-> Idle]

\* The driver of c sets it to power, or fails: it may be on or off then.
Drives(c, power) == level' = [level EXCEPT ![c] = power]
Fails(c) ==
    /\ c \in Faulty
    /\ level' \in {[level EXCEPT ![c] = power] : power \in BOOLEAN}

Finish(w, result) ==
    Goto(w, [job[w] EXCEPT !.pc = "done", !.result = result, !.data = NoData,
              !.undo = NoData, !.at = 0, !.stuck = {}, !.retries = 0])

-----------------------------------------------------------------------------
(* target_owned_and_locked(): the owner is read and compared, then the      *)
(* operation runs with no lock.  put_sequence() runs many under one check.  *)

Operations ==
    [impls : {Rail}, whole : {TRUE}, explicit : BOOLEAN, ops : {"on", "off", "cycle"}]
    \cup
    [impls : {{c} : c \in Rail}, whole : {FALSE}, explicit : {FALSE},
     ops : {"on", "off", "cycle"}]

Begin(w, u, o) ==
    Goto(w, [Idle EXCEPT !.pc = "get", !.user = u, !.impls = o.impls,
              !.whole = o.whole, !.explicit = o.explicit, !.ops = o.ops,
              !.at = 0])

Request(w, u, o) ==
    /\ At(w, "idle")
    /\ owner = u
    /\ Begin(w, u, o)
    /\ UNCHANGED <<level, published, owner>>

\* The next operation of a sequence; one that failed ends the sequence.
NextInSequence(w, o) ==
    /\ At(w, "done")
    /\ job[w].result = "ok"
    /\ Begin(w, job[w].user, o)
    /\ UNCHANGED <<level, published, owner>>

Reply(w) ==
    /\ At(w, "done")
    /\ Goto(w, Idle)
    /\ UNCHANGED <<level, published, owner>>

-----------------------------------------------------------------------------
(* interface._get() *)

Read(c) == IF c \notin Reads THEN "n/a" ELSE IF level[c] THEN "on" ELSE "off"
Sample(S) == [c \in Rail |-> IF c \in S THEN Read(c) ELSE "n/a"]

\* The rail is on when all that a plain power on turns on is on or unknown.
RailOn(data) == \A c \in Rail : Explicit[c] \in {"none", "off"} => data[c] # "off"

\* The components are read one after another, in less time than one of them
\* takes to change, and the state of the whole rail is published.
Get(w) ==
    LET data == Sample(job[w].impls)
        on == job[w].ops = "on"
    IN
    /\ At(w, "get")
    /\ published' = IF job[w].whole THEN RailOn(data) ELSE published
    /\ Goto(w, [job[w] EXCEPT !.pc = IF on THEN "on" ELSE "off",
                 !.data = data, !.at = IF on THEN 0 ELSE RailLength + 1])
    /\ UNCHANGED <<level, owner>>

\* A driver that cannot tell ends the operation before anything changes.
GetFails(w) ==
    /\ At(w, "get")
    /\ job[w].impls \cap Reads \cap Faulty # {}
    /\ Finish(w, "error")
    /\ UNCHANGED <<level, published, owner>>

-----------------------------------------------------------------------------
(* interface._off() *)

\* (mutant) explicit components are not told apart
SkipsOffNone(w, c) == job[w].data[c] = "off"

SkipsOff(w, c) ==
    \/ job[w].data[c] = "off"
    \/ job[w].whole /\ ~job[w].explicit /\ Explicit[c] \in {"off", "both"}

\* (mutant) power off in the order of power on
FirstOff(w, c) ==
    /\ c \in job[w].impls /\ c < job[w].at /\ ~SkipsOff(w, c)
    /\ c <= RailLength
    /\ \A d \in job[w].impls : d < c => SkipsOff(w, d)

\* The component to power off next: in reverse order.
NextOff(w, c) ==
    /\ c \in job[w].impls /\ c < job[w].at /\ ~SkipsOff(w, c)
    /\ \A d \in job[w].impls : c < d /\ d < job[w].at => SkipsOff(w, d)

OffStep(w) ==
    /\ At(w, "off")
    /\ \E c \in Rail :
        /\ NextOff(w, c)
        /\ Drives(c, FALSE)
        /\ Goto(w, [job[w] EXCEPT !.at = c])
    /\ UNCHANGED <<published, owner>>

\* A component that fails twice is logged and left as it is.
OffSkipsFailed(w) ==
    /\ At(w, "off")
    /\ \E c \in Rail :
        /\ NextOff(w, c)
        /\ Fails(c)
        /\ Goto(w, [job[w] EXCEPT !.at = c, !.stuck = @ \cup {c}])
    /\ UNCHANGED <<published, owner>>

\* Off is published, whatever failed; a cycle goes on to power on.
OffDone(w) ==
    /\ At(w, "off")
    /\ \A c \in Rail : ~NextOff(w, c)
    /\ published' = IF job[w].whole THEN FALSE ELSE published
    /\ IF job[w].ops = "cycle"
       THEN Goto(w, [job[w] EXCEPT !.pc = "get", !.ops = "on", !.at = 0,
                      !.data = NoData, !.stuck = {}])
       ELSE Finish(w, "ok")
    /\ UNCHANGED <<level, owner>>

-----------------------------------------------------------------------------
(* interface._on() *)

\* (mutant) what is on is not looked at
SkipsOnNone(w, c) == job[w].whole /\ ~job[w].explicit /\ Explicit[c] \in {"on", "both"}

SkipsOn(w, c) ==
    \/ job[w].data[c] = "on"
    \/ job[w].whole /\ ~job[w].explicit /\ Explicit[c] \in {"on", "both"}

NextOn(w, c) ==
    /\ c \in job[w].impls /\ job[w].at < c /\ ~SkipsOn(w, c)
    /\ \A d \in job[w].impls : job[w].at < d /\ d < c => SkipsOn(w, d)

OnStep(w) ==
    /\ At(w, "on")
    /\ \E c \in Rail :
        /\ NextOn(w, c)
        /\ Drives(c, TRUE)
        /\ Goto(w, [job[w] EXCEPT !.at = c])
    /\ UNCHANGED <<published, owner>>

\* (mutant) the rail is retried for ever
RetryForever(w) == [job[w] EXCEPT !.pc = "undo_get"]

\* retry_all_e: give up at the third failure, else undo and start over.
RetryAll(w) ==
    IF job[w].retries + 1 >= MaxRetries
    THEN [Idle EXCEPT !.pc = "done", !.user = job[w].user, !.ops = job[w].ops,
           !.impls = job[w].impls, !.whole = job[w].whole,
           !.explicit = job[w].explicit, !.result = "error"]
    ELSE [job[w] EXCEPT !.pc = "undo_get", !.retries = @ + 1]

OnFails(w) ==
    /\ At(w, "on")
    /\ \E c \in Rail :
        /\ NextOn(w, c)
        /\ Fails(c)
        /\ \/ c \in RetriesAll /\ Goto(w, RetryAll(w))
           \/ c \in Recovers /\ Goto(w, [job[w] EXCEPT !.pc = "recover_off", !.at = c])
           \/ c \notin Recovers /\ Finish(w, "error")
    /\ UNCHANGED <<published, owner>>

\* One component is powered off, whether that works or not...
RecoverOff(w) ==
    /\ At(w, "recover_off")
    /\ Drives(job[w].at, FALSE) \/ Fails(job[w].at)
    /\ Goto(w, [job[w] EXCEPT !.pc = "recover_on"])
    /\ UNCHANGED <<published, owner>>

\* ...and on again.
RecoverOn(w) ==
    /\ At(w, "recover_on")
    /\ Drives(job[w].at, TRUE)
    /\ Goto(w, [job[w] EXCEPT !.pc = "on"])
    /\ UNCHANGED <<published, owner>>

RecoverFails(w) ==
    /\ At(w, "recover_on")
    /\ Fails(job[w].at)
    /\ Goto(w, [job[w] EXCEPT !.pc = "give_up"])
    /\ UNCHANGED <<published, owner>>

\* It failed again: off "just in case", and the operation fails.
GiveUp(w) ==
    /\ At(w, "give_up")
    /\ Drives(job[w].at, FALSE) \/ Fails(job[w].at)
    /\ Finish(w, "error")
    /\ UNCHANGED <<published, owner>>

\* The components asked for are powered off as if they had been named: explicit
\* ones too.  If they cannot be read, nothing is, and the retry goes on.
UndoGet(w) ==
    /\ At(w, "undo_get")
    /\ \/ Goto(w, [job[w] EXCEPT !.pc = "undo", !.undo = Sample(job[w].impls),
                    !.at = RailLength + 1])
       \/ /\ job[w].impls \cap Reads \cap Faulty # {}
          /\ Goto(w, [job[w] EXCEPT !.pc = "on", !.at = 0])
    /\ UNCHANGED <<level, published, owner>>

NextUndo(w, c) ==
    /\ c \in job[w].impls /\ c < job[w].at /\ job[w].undo[c] # "off"
    /\ \A d \in job[w].impls : c < d /\ d < job[w].at => job[w].undo[d] = "off"

UndoStep(w) ==
    /\ At(w, "undo")
    /\ \E c \in Rail :
        /\ NextUndo(w, c)
        /\ Drives(c, FALSE) \/ Fails(c)
        /\ Goto(w, [job[w] EXCEPT !.at = c])
    /\ UNCHANGED <<published, owner>>

\* (mutant) the retry starts where the failure was
UndoDoneKeepsIndex(w) ==
    /\ At(w, "undo")
    /\ \A c \in Rail : ~NextUndo(w, c)
    /\ Goto(w, [job[w] EXCEPT !.pc = "on", !.at = 1, !.undo = NoData])
    /\ UNCHANGED <<level, published, owner>>

\* The loop starts again with what was read before the first try.
UndoDone(w) ==
    /\ At(w, "undo")
    /\ \A c \in Rail : ~NextUndo(w, c)
    /\ Goto(w, [job[w] EXCEPT !.pc = "on", !.at = 0, !.undo = NoData])
    /\ UNCHANGED <<level, published, owner>>

OnDone(w) ==
    /\ At(w, "on")
    /\ \A c \in Rail : ~NextOn(w, c)
    /\ published' = IF job[w].whole THEN TRUE ELSE published
    /\ Finish(w, "ok")
    /\ UNCHANGED <<level, owner>>

-----------------------------------------------------------------------------
(* The allocator, as seen from here *)

Allocate(u) ==
    /\ owner = NoUser
    /\ owner' = u
    /\ UNCHANGED <<level, published, job>>

\* The power hook turns off, in one step here, what must not outlive the
\* allocation.  The first driver that fails ends it: release and eviction have
\* wiped the owner by then, a deletion has not.
Release ==
    LET Off(S) == [c \in Rail |-> level[c] /\ c \notin S]
        Before(c) == {d \in OffOnRelease : d < c}
    IN
    /\ owner # NoUser
    /\ \/ level' = Off(OffOnRelease) /\ owner' = NoUser
       \/ \E c \in OffOnRelease \cap Faulty :
            /\ level' = Off(Before(c))
            /\ owner' \in {owner, NoUser}
    /\ UNCHANGED <<published, job>>

-----------------------------------------------------------------------------
Step(w) ==
    \/ Get(w) \/ GetFails(w)
    \/ OffStep(w) \/ OffSkipsFailed(w) \/ OffDone(w)
    \/ OnStep(w) \/ OnFails(w) \/ OnDone(w)
    \/ RecoverOff(w) \/ RecoverOn(w) \/ RecoverFails(w) \/ GiveUp(w)
    \/ UndoGet(w) \/ UndoStep(w) \/ UndoDone(w)
    \/ Reply(w)

Next ==
    \/ \E w \in Workers : Step(w)
    \/ \E w \in Workers, u \in Users, o \in Operations : Request(w, u, o)
    \/ \E w \in Workers, o \in Operations : NextInSequence(w, o)
    \/ \E u \in Users : Allocate(u)
    \/ Release

Spec == Init /\ [][Next]_vars

\* An operation that started runs on: its waits end.
FairSpec == Spec /\ \A w \in Workers : WF_vars(Step(w))

=============================================================================
