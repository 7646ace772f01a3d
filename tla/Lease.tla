------------------------------- MODULE Lease -------------------------------
(***************************************************************************)
(* How long an allocation lives, on the server: ttbd/ttbl/allocation.py    *)
(* and the loop of the cleanup process in ttbd/ttbd.                       *)
(*                                                                         *)
(* An allocation is a lease its client renews with keepalives.  Every      *)
(* SleepPeriod the cleanup process removes those nobody renewed, then      *)
(* powers off a target that is idle; for that it allocates the target like *)
(* any user, and may lose it on the way.  There is one target here, and a  *)
(* request, a keepalive and a removal are one step each: Allocation has    *)
(* their steps and their races.                                            *)
(*                                                                         *)
(* Time is kept as the age of each time stamp.  The code looks at the days *)
(* and at the seconds part of an age; an age past 2 * Day folds back by a  *)
(* day, which changes neither.                                             *)
(***************************************************************************)
EXTENDS Integers, Sequences

Seqs == INSTANCE SequencesExt

CONSTANTS
    Clients,
    Daemon,         \* the allocation of the cleanup process
    Nobody,
    Urgent,         \* clients that preempt
    EndTimes,       \* EndTimes[c]: the end times c may ask for, from now, or...
    NoEnd, Static,  \* ...no end time, or endtime "static"
    MaxIdle,        \* config.target_max_idle
    IdleOff,        \* property idle_power_off
    IdleFullyOff,   \* property idle_power_fully_off
    SleepPeriod,    \* of the cleanup process
    ScanMax,        \* time one maintenance run may take
    Minute, Day

ASSUME LeaseTimes ==
    /\ {MaxIdle, IdleOff, IdleFullyOff, ScanMax, Minute, Day} \subseteq Nat
    /\ SleepPeriod \in Nat \ {0}
    /\ MaxIdle + SleepPeriod + 2 * ScanMax < Day
    /\ IdleOff <= IdleFullyOff /\ IdleFullyOff < Day
ASSUME LeaseNames ==
    /\ Daemon \notin Clients /\ Nobody \notin Clients \cup {Daemon}
    /\ NoEnd # Static /\ {NoEnd, Static} \cap Int = {}
    /\ EndTimes \in [Clients -> SUBSET (Int \cup {NoEnd, Static})]
    /\ Urgent \subseteq Clients

Ids == Clients \cup {Daemon}

VARIABLES
    rec,        \* rec[i]: state, age of the time stamp and time to the end
    queue,      \* those that wait for the target, in order
    owner,      \* the target's _alloc.id
    used,       \* age of the target's time stamp
    power,      \* the target is on, off but for explicit components, or fully off
    maint,      \* the cleanup process
    lastUse,    \* history: as used, but for what the daemon does itself
    robbed      \* history: the daemon lost the target after it saw that it had it

leaseVars == <<rec, queue, owner, used, power, maint, lastUse, robbed>>

States == {"none", "queued", "active", "restart-needed"}
Ages == 0 .. 2 * Day - 1
None == [state |-> "none", age |-> 0, left |-> NoEnd]

Older(a) == IF a + 1 = 2 * Day THEN Day ELSE a + 1
Seconds(a) == a % Day

LeaseInit ==
    /\ rec = [i \in Ids |-> None]
    /\ queue = <<>>
    /\ owner = Nobody
    /\ used = 0 /\ lastUse = 0 /\ robbed = FALSE
    /\ power = "full"
    /\ maint = [pc |-> "sleep", since |-> 0, todo |-> {}, victim |-> Nobody, ts |-> 0]

-----------------------------------------------------------------------------
(* The handlers, on rec, queue, owner and used *)

Exists(i) == rec[i].state # "none"
Sent(i, state, left) == [state |-> state, age |-> 0, left |-> left]

\* What the daemon does once it saw that it has the target.
PoweringOff == maint.pc \in {"stamp", "off"}

\* (mutant) a free target is not offered to a new request
GrantsTaken(i) == i \in Urgent /\ owner \notin Urgent

\* request(): the target if it is free or can be taken, else a place in the
\* queue or, for those that would not wait, "busy".
Grants(i) == owner = Nobody \/ (i \in Urgent /\ owner \notin Urgent)

Evicted(r) == [j \in Ids |-> IF j = owner THEN [r[j] EXCEPT !.state = "restart-needed"]
                                          ELSE r[j]]

RequestGranted(i, left) ==
    /\ Grants(i)
    /\ rec' = [Evicted(rec) EXCEPT ![i] = Sent(i, "active", left)]
    /\ owner' = i
    /\ used' = 0
    /\ lastUse' = IF i = Daemon THEN lastUse ELSE 0
    /\ robbed' = (robbed \/ (owner = Daemon /\ PoweringOff))
    /\ UNCHANGED queue

\* The queue is in order: who comes last waits behind those as urgent.
Behind(i, place) ==
    \A k \in 1 .. Len(queue) : k < place <=> (i \in Urgent => queue[k] \in Urgent)

RequestQueued(i, left) ==
    /\ ~Grants(i)
    /\ rec' = [rec EXCEPT ![i] = Sent(i, "queued", left)]
    /\ \E place \in 1 .. Len(queue) + 1 :
        /\ Behind(i, place)
        /\ queue' = Seqs!InsertAt(queue, place, i)
    /\ UNCHANGED <<owner, used, lastUse, robbed>>

\* An end time has to be a minute ahead; one in the past passes, too.
AcceptsEnd(left) ==
    left \notin {NoEnd, Static} => ~(left \div Day <= 0 /\ Seconds(left) < Minute)

\* Who waits, waits at one place.
Waits(i) == \E k \in 1 .. Len(queue) : queue[k] = i
PlaceOf(i) == CHOOSE k \in 1 .. Len(queue) : queue[k] = i
Others(i) == IF Waits(i) THEN Seqs!RemoveAt(queue, PlaceOf(i)) ELSE queue

\* delete(): the record goes and the target, if it was its own, is handed on.
Remove(i) ==
    LET rest == Others(i)
        gone == [rec EXCEPT ![i] = None]
    IN IF owner = i /\ rest # <<>>
       THEN /\ owner' = Head(rest)
            /\ queue' = Tail(rest)
            /\ used' = 0 /\ lastUse' = 0
            /\ rec' = [gone EXCEPT ![Head(rest)].state = "active"]
       ELSE /\ owner' = IF owner = i THEN Nobody ELSE owner
            /\ queue' = rest
            /\ rec' = gone
            /\ UNCHANGED <<used, lastUse>>

\* keepalive(): the stamp first, then the state is told.
Renew(i) == rec' = [rec EXCEPT ![i].age = IF Exists(i) THEN 0 ELSE @]
Told(i) == IF Exists(i) THEN rec[i].state ELSE "invalid"

\* An operation on the target by its owner; power is one.
Operate(i) ==
    /\ owner = i /\ rec[i].state = "active"
    /\ rec' = [rec EXCEPT ![i].age = 0]
    /\ used' = 0 /\ lastUse' = 0
    /\ power' \in {"on", "normal", "full"}
    /\ UNCHANGED <<queue, owner, maint, robbed>>

-----------------------------------------------------------------------------
(* The cleanup process: maintenance() *)

Goto(loc) == maint' = [maint EXCEPT !.pc = loc]
MaintSleep == maint' = [maint EXCEPT !.pc = "sleep", !.since = 0, !.victim = Nobody,
                                     !.ts = 0]

\* Time is taken, then the allocations are listed.
Wake ==
    /\ maint.pc = "sleep" /\ maint.since >= SleepPeriod
    /\ maint' = [maint EXCEPT !.pc = "scan", !.since = 0,
                              !.todo = {i \in Ids : Exists(i)}]
    /\ UNCHANGED <<rec, queue, owner, used, power, lastUse, robbed>>

\* (mutant) a stamp newer than the scan is taken for a very old one
IdleTooLongAnyDay(i) == (rec[i].age - maint.since) % Day > MaxIdle

\* allocation_c.maintenance(): ts_now is when the scan began.
IdleTooLong(i) ==
    LET idle == rec[i].age - maint.since IN
    idle \div Day >= 0 /\ Seconds(idle) > MaxIdle

\* (mutant) those that wait are left alone
ExpiredActive(i) ==
    /\ rec[i].state = "active" /\ rec[i].left # Static
    /\ rec[i].left # NoEnd \/ IdleTooLong(i)

\* Whatever its end time is, an allocation that has one is expired.
Expired(i) ==
    /\ Exists(i) /\ rec[i].left # Static
    /\ rec[i].left # NoEnd \/ IdleTooLong(i)

Visit(i) ==
    /\ maint.pc = "scan" /\ i \in maint.todo
    /\ maint' = [maint EXCEPT !.todo = @ \ {i},
                              !.pc = IF Expired(i) THEN "delete" ELSE "scan",
                              !.victim = IF Expired(i) THEN i ELSE Nobody]
    /\ UNCHANGED <<rec, queue, owner, used, power, lastUse, robbed>>

Expire ==
    /\ maint.pc = "delete"
    /\ Remove(maint.victim)
    /\ maint' = [maint EXCEPT !.pc = "scan", !.victim = Nobody]
    /\ UNCHANGED <<power, robbed>>

\* A target without an owner: its stamp is read before it is asked for.
ToTargets ==
    /\ maint.pc = "scan" /\ maint.todo = {}
    /\ IF owner = Nobody THEN maint' = [maint EXCEPT !.pc = "ask", !.ts = used]
                         ELSE MaintSleep
    /\ UNCHANGED <<rec, queue, owner, used, power, lastUse, robbed>>

DaemonAsks ==
    /\ maint.pc = "ask"
    /\ IF Grants(Daemon)
       THEN RequestGranted(Daemon, NoEnd) /\ Goto("check")
       ELSE MaintSleep /\ UNCHANGED <<rec, queue, owner, used, lastUse, robbed>>
    /\ UNCHANGED power

\* What the idle time, by the stamp read before the target was asked for, says of
\* the power, and the power of it then.
IdlePower(p) ==
    IF Seconds(maint.ts) > IdleFullyOff THEN "full"
    ELSE IF Seconds(maint.ts) > IdleOff /\ p = "on" THEN "normal"
    ELSE p

\* _idle_power_off(): it ends here too if the power cannot be told.
DaemonLooks ==
    /\ maint.pc = "check"
    /\ \/ IdlePower(power) # power /\ Goto("owner")
       \/ Goto("drop")
    /\ UNCHANGED <<rec, queue, owner, used, power, lastUse, robbed>>

\* (mutant) the target may have been taken meanwhile
DaemonChecksNot ==
    /\ maint.pc = "owner"
    /\ Goto("stamp")
    /\ UNCHANGED <<rec, queue, owner, used, power, lastUse, robbed>>

\* put_off() is refused if the target was taken meanwhile.  The target's lock is
\* dropped again: what follows may find it taken.
DaemonChecks ==
    /\ maint.pc = "owner"
    /\ Goto(IF owner = Daemon THEN "stamp" ELSE "drop")
    /\ UNCHANGED <<rec, queue, owner, used, power, lastUse, robbed>>

\* timestamp(): of whoever has the target by now.
DaemonStamps ==
    /\ maint.pc = "stamp"
    /\ IF owner = Nobody THEN UNCHANGED <<rec, used>> ELSE Renew(owner) /\ used' = 0
    /\ Goto("off")
    /\ UNCHANGED <<queue, owner, power, lastUse, robbed>>

\* _off(), or its failure.
DaemonPowersOff ==
    /\ maint.pc = "off"
    /\ power' \in {power, IdlePower(power)}
    /\ Goto("drop")
    /\ UNCHANGED <<rec, queue, owner, used, lastUse, robbed>>

DaemonDrops ==
    /\ maint.pc = "drop"
    /\ Remove(Daemon)
    /\ robbed' = FALSE
    /\ MaintSleep
    /\ UNCHANGED power

Maintain ==
    \/ Wake \/ Expire \/ ToTargets \/ DaemonAsks \/ DaemonLooks \/ DaemonChecks
    \/ DaemonStamps \/ DaemonPowersOff \/ DaemonDrops
    \/ \E i \in Ids : Visit(i)

-----------------------------------------------------------------------------
(* Time *)

\* The cleanup process wakes in time, and its run ends in time.
MaintOnTime ==
    IF maint.pc = "sleep" THEN maint.since < SleepPeriod ELSE maint.since < ScanMax

LeaseTick ==
    /\ MaintOnTime
    /\ rec' = [i \in Ids |->
                IF Exists(i)
                THEN [rec[i] EXCEPT
                        !.age = Older(@),
                        !.left = IF @ \in {NoEnd, Static} \/ @ <= 0 THEN @ ELSE @ - 1]
                ELSE None]
    /\ used' = Older(used) /\ lastUse' = Older(lastUse)
    /\ maint' = [maint EXCEPT !.since = @ + 1,
                              !.ts = IF maint.pc \in {"ask", "check"} THEN Older(@) ELSE @]
    /\ UNCHANGED <<queue, owner, power, robbed>>

=============================================================================
