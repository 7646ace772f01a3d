----------------------------- MODULE LeaseProofs -----------------------------
(* Theorems about LeaseClients for any clients, times and lengths of a day:    *)
(* maintenance removes what nobody keeps alive, in time, and nothing else.     *)
EXTENDS LeaseProperties, SequenceTheorems, TLAPS

\* Who waits has a record that says so, and waits once.
QueueInv ==
    /\ \A k \in 1 .. Len(queue) : rec[queue[k]].state = "queued"
    /\ \A j, k \in 1 .. Len(queue) : queue[j] = queue[k] => j = k

\* Who has the target has an active record; a client that asked for nothing has none.
HolderInv ==
    /\ owner # Nobody => rec[owner].state = "active"
    /\ \A c \in Clients : At(c, "start") => ~Exists(c)

\* The maintenance wakes in time, its run ends in time, and it knows whom it removes.
MaintInv ==
    /\ IF maint.pc = "sleep" THEN maint.since <= SleepPeriod ELSE maint.since <= ScanMax
    /\ maint.victim # Nobody <=> maint.pc = "delete"

Base == TypeOK /\ QueueInv /\ HolderInv /\ MaintInv

\* How old an allocation may be that the maintenance has still to look at, or that it
\* is about to remove, and how old one is that it looked at, by when it began.
Pending(i) == maint.pc \in {"scan", "delete"} /\ (i \in maint.todo \/ i = maint.victim)

AgeBound(i) ==
    IF maint.pc = "sleep" THEN MaxIdle + ScanMax + maint.since
    ELSE IF Pending(i) THEN MaxIdle + ScanMax + SleepPeriod + maint.since
    ELSE MaxIdle + maint.since

AgeInv == \A i \in Ids : Exists(i) /\ rec[i].left # Static => rec[i].age <= AgeBound(i)

\* The stamp of an allocation is no older than the last keepalive of a client that
\* loses none, and what is removed is not of such a client, or has an end time.
Lively(c) == Live(c) /\ c \notin Lossy

KeptInv ==
    \A c \in Clients :
        /\ Lively(c) /\ Exists(c) => rec[c].age <= client[c].timer
        /\ maint.victim = c => ~At(c, "start")
        /\ maint.victim = c /\ Exists(c) =>
            rec[c].left # Static /\ (rec[c].left # NoEnd \/ ~Lively(c))

\* The stamp of the target is no older than its last use but for whole days, and what
\* the daemon read of it neither, but if it was used during this run.
NotOlder(ts) == ts <= lastUse \/ Day <= lastUse

\* Once it saw that it had the target, the daemon has it or was robbed of it, and if it
\* was, then in this run, by whom it was used since.
UseInv ==
    /\ NotOlder(used)
    /\ maint.pc \in {"ask", "check", "owner", "stamp", "off"}
            => NotOlder(maint.ts) \/ lastUse <= maint.since
    /\ PoweringOff => owner = Daemon \/ robbed
    /\ robbed => maint.pc \in {"stamp", "off", "drop"} /\ lastUse <= maint.since

-----------------------------------------------------------------------------
(* Lemmas: sequences and times. *)

\* InsertAt() puts i at its place, and those from there on one further.
LEMMA Inserted ==
    ASSUME NEW S, NEW q \in Seq(S), NEW i \in S, NEW place \in 1 .. Len(q) + 1
    PROVE  LET new == Seqs!InsertAt(q, place, i) IN
           /\ new \in Seq(S) /\ Len(new) = Len(q) + 1
           /\ \A k \in 1 .. Len(new) :
                new[k] = IF k < place THEN q[k] ELSE IF k = place THEN i ELSE q[k - 1]
<1> DEFINE before == SubSeq(q, 1, place - 1)
           after == SubSeq(q, place, Len(q))
<1>1. /\ before \in Seq(S) /\ Len(before) = place - 1
      /\ \A k \in 1 .. place - 1 : before[k] = q[k]
  BY SubSeqProperties
<1>2. /\ after \in Seq(S) /\ Len(after) = Len(q) - place + 1
      /\ \A k \in 1 .. Len(q) - place + 1 : after[k] = q[place + k - 1]
  BY SubSeqProperties
<1>3. Seqs!InsertAt(q, place, i) = (before \o <<i>>) \o after
  BY DEF Seqs!InsertAt
<1> HIDE DEF before, after
<1> DEFINE front == before \o <<i>>
<1>4. /\ front \in Seq(S) /\ Len(front) = place
      /\ \A k \in 1 .. place : front[k] = IF k < place THEN q[k] ELSE i
  BY <1>1
<1> HIDE DEF front
<1>5. /\ front \o after \in Seq(S) /\ Len(front \o after) = place + Len(after)
      /\ \A k \in 1 .. place + Len(after) :
            (front \o after)[k] = IF k <= place THEN front[k] ELSE after[k - place]
  BY <1>2, <1>4, ConcatProperties
<1>6. Len(q) \in Nat /\ \A k \in 1 .. Len(q) + 1 :
            k > place => k - place \in 1 .. Len(q) - place + 1
  OBVIOUS
<1> QED
  BY <1>2, <1>3, <1>4, <1>5, <1>6 DEF front

\* RemoveAt() moves those behind the place one up.
LEMMA RemovedAt ==
    ASSUME NEW S, NEW q \in Seq(S), NEW place \in 1 .. Len(q)
    PROVE  LET new == Seqs!RemoveAt(q, place) IN
           /\ new \in Seq(S) /\ Len(new) = Len(q) - 1
           /\ \A k \in 1 .. Len(new) : new[k] = IF k < place THEN q[k] ELSE q[k + 1]
<1> DEFINE before == SubSeq(q, 1, place - 1)
           after == SubSeq(q, place + 1, Len(q))
<1>1. /\ before \in Seq(S) /\ Len(before) = place - 1
      /\ \A k \in 1 .. place - 1 : before[k] = q[k]
  BY SubSeqProperties
<1>2. /\ after \in Seq(S) /\ Len(after) = Len(q) - place
      /\ \A k \in 1 .. Len(q) - place : after[k] = q[place + k]
  BY SubSeqProperties
<1>3. Seqs!RemoveAt(q, place) = before \o after
  BY DEF Seqs!RemoveAt
<1> HIDE DEF before, after
<1>4. /\ before \o after \in Seq(S) /\ Len(before \o after) = Len(before) + Len(after)
      /\ \A k \in 1 .. Len(before) + Len(after) :
            (before \o after)[k] = IF k <= Len(before) THEN before[k] ELSE after[k - Len(before)]
  BY <1>1, <1>2, ConcatProperties
<1>5. Len(q) \in Nat /\ \A k \in 1 .. Len(q) - 1 :
            k > place - 1 => k - (place - 1) \in 1 .. Len(q) - place
  OBVIOUS
<1> QED
  BY <1>1, <1>2, <1>3, <1>4, <1>5

\* Those behind who leaves the queue are others, and wait once each as before.
LEMMA OthersWait ==
    ASSUME TypeOK, QueueInv, NEW i
    PROVE  /\ Others(i) \in Seq(Clients)
           /\ \A k \in 1 .. Len(Others(i)) :
                Others(i)[k] # i /\ rec[Others(i)[k]].state = "queued"
           /\ \A j, k \in 1 .. Len(Others(i)) : Others(i)[j] = Others(i)[k] => j = k
<1>1. queue \in Seq(Clients)
  BY DEF TypeOK
<1>2. CASE Waits(i)
  <2>1. PlaceOf(i) \in 1 .. Len(queue) /\ queue[PlaceOf(i)] = i
    BY <1>2 DEF Waits, PlaceOf
  <2>2. Others(i) = Seqs!RemoveAt(queue, PlaceOf(i))
    BY <1>2 DEF Others
  <2> DEFINE place == PlaceOf(i)
             new == Others(i)
  <2>3. /\ new \in Seq(Clients) /\ Len(new) = Len(queue) - 1
        /\ \A k \in 1 .. Len(new) : new[k] = IF k < place THEN queue[k] ELSE queue[k + 1]
    BY <1>1, <2>1, <2>2, RemovedAt
  <2> HIDE DEF place, new
  <2>4. \A k \in 1 .. Len(new) : k < place \/ k + 1 > place
    BY <2>1, <2>3 DEF place
  <2>5. Len(queue) \in Nat
    BY <1>1
  <2>6. \A k \in 1 .. Len(new) : new[k] # i /\ rec[new[k]].state = "queued"
    BY <2>1, <2>3, <2>5 DEF QueueInv, place
  <2>7. \A j, k \in 1 .. Len(new) : new[j] = new[k] => j = k
    BY <2>1, <2>3, <2>5 DEF QueueInv, place
  <2> QED
    BY <2>3, <2>6, <2>7 DEF new
<1>3. CASE ~Waits(i)
  BY <1>1, <1>3 DEF Others, Waits, QueueInv
<1> QED
  BY <1>2, <1>3

\* What of a time is whole days, and what is not.
LEMMA WithinDay ==
    ASSUME NEW t \in Int
    PROVE  /\ 0 <= t /\ t < Day => t \div Day = 0 /\ Seconds(t) = t
           /\ t < 0 => t \div Day < 0
           /\ 0 <= t => Seconds(t) <= t
<1>1. Day \in Nat \ {0}
  BY LeaseTimes
<1>2. 0 <= t /\ t < Day => t \div Day = 0 /\ t % Day = t
  BY <1>1
<1>3. t < 0 => t \div Day < 0
  BY <1>1
<1>4. 0 <= t => t % Day <= t
  BY <1>1
<1> QED
  BY <1>2, <1>3, <1>4 DEF Seconds

\* A new stamp has an age.
LEMMA AgesAre == 0 \in Ages /\ Ages \subseteq Nat
BY LeaseTimes DEF Ages

\* A stamp gets older, but past two days.
LEMMA Aging ==
    ASSUME NEW a \in Ages
    PROVE  /\ Older(a) \in Ages
           /\ a < Day => Older(a) = a + 1
           /\ Older(a) <= a + 1
           /\ Day <= a => Day <= Older(a)
BY LeaseTimes DEF Ages, Older

-----------------------------------------------------------------------------
(* What the handlers do to the records. *)

\* An allocation is there as it was.
Kept(i) == Exists(i) /\ rec'[i].age = rec[i].age /\ rec'[i].left = rec[i].left

\* Who has the target and who waits is clear.
Placed == TypeOK /\ QueueInv /\ (owner # Nobody => rec[owner].state = "active")
PlacedNext ==
    /\ rec' \in [Ids -> [state : States, age : Ages, left : Int \cup {NoEnd, Static}]]
    /\ queue' \in Seq(Clients)
    /\ owner' \in Ids \cup {Nobody}
    /\ used' \in Ages /\ lastUse' \in Ages
    /\ QueueInv'
    /\ owner' # Nobody => rec'[owner'].state = "active"

\* Who is given the target has an active record with a new stamp, the others have theirs.
LEMMA GrantedIs ==
    ASSUME Placed, NEW i \in Ids, i \in Clients => ~Exists(i),
           NEW left \in Int \cup {NoEnd, Static}, RequestGranted(i, left)
    PROVE  /\ PlacedNext
           /\ rec'[i].age = 0 /\ rec'[i].left = left
           /\ \A j \in Ids \ {i} : Exists(j)' => Kept(j)
<1> USE DEF Placed, TypeOK, QueueInv
<1>1. 0 \in Ages
  BY AgesAre
<1>2. owner = Nobody \/ owner \in Ids
  OBVIOUS
<1>3. Evicted(rec) \in [Ids -> [state : States, age : Ages, left : Int \cup {NoEnd, Static}]]
  BY <1>2 DEF Evicted, States
<1>4. rec' \in [Ids -> [state : States, age : Ages, left : Int \cup {NoEnd, Static}]]
  BY <1>1, <1>3 DEF RequestGranted, Sent, States
<1>5. rec'[i] = [state |-> "active", age |-> 0, left |-> left]
  BY <1>3 DEF RequestGranted, Sent
<1>6. \A j \in Ids \ {i} : j # owner => rec'[j] = rec[j]
  BY DEF RequestGranted, Evicted
<1>7. owner \in Ids \ {i} => rec'[owner] = [rec[owner] EXCEPT !.state = "restart-needed"]
  BY DEF RequestGranted, Evicted
<1>8. \A k \in 1 .. Len(queue) : queue[k] # i /\ queue[k] # owner /\ queue[k] \in Ids
  BY LeaseNames DEF Exists, Ids
<1>9. QueueInv'
  BY <1>6, <1>8 DEF RequestGranted
<1>10. \A j \in Ids \ {i} : Exists(j)' => Kept(j)
  <2>1. ASSUME NEW j \in Ids \ {i}, j = owner PROVE Kept(j)
    <3>1. owner # Nobody /\ rec[owner].state = "active"
      BY <2>1, LeaseNames DEF Ids
    <3>2. /\ rec'[owner].age = rec[owner].age
          /\ rec'[owner].left = rec[owner].left
      BY <1>7, <2>1
    <3> QED
      BY <2>1, <3>1, <3>2 DEF Exists, Kept
  <2> QED
    BY <1>6, <2>1 DEF Exists, Kept
<1> QED
  BY <1>1, <1>4, <1>5, <1>9, <1>10 DEF RequestGranted, PlacedNext

\* Who waits has a queued record with a new stamp, in its place in the queue.
LEMMA QueuedIs ==
    ASSUME Placed, NEW i \in Clients, ~Exists(i),
           NEW left \in Int \cup {NoEnd, Static}, RequestQueued(i, left)
    PROVE  /\ PlacedNext
           /\ rec'[i].age = 0 /\ rec'[i].left = left
           /\ \A j \in Ids \ {i} : Exists(j)' => Kept(j)
<1> USE DEF Placed, TypeOK
<1>1. 0 \in Ages /\ i \in Ids
  BY AgesAre DEF Ids
<1>2. rec' = [rec EXCEPT ![i] = [state |-> "queued", age |-> 0, left |-> left]]
  BY DEF RequestQueued, Sent
<1>3. rec' \in [Ids -> [state : States, age : Ages, left : Int \cup {NoEnd, Static}]]
  BY <1>1, <1>2 DEF States
<1>4. PICK place \in 1 .. Len(queue) + 1 : queue' = Seqs!InsertAt(queue, place, i)
  BY DEF RequestQueued
<1>5. /\ queue' \in Seq(Clients) /\ Len(queue') = Len(queue) + 1
      /\ \A k \in 1 .. Len(queue') : queue'[k] = IF k < place THEN queue[k]
                                              ELSE IF k = place THEN i ELSE queue[k - 1]
  BY <1>4, Inserted
<1>6. \A k \in 1 .. Len(queue) : queue[k] # i /\ queue[k] \in Ids
  BY DEF Exists, Ids, QueueInv
<1>7. Len(queue) \in Nat
  OBVIOUS
<1> DEFINE was(k) == IF k < place THEN k ELSE k - 1
<1>12. \A k \in 1 .. Len(queue') :
        k # place => was(k) \in 1 .. Len(queue) /\ queue'[k] = queue[was(k)]
  BY <1>5, <1>7
<1>13. /\ queue'[place] = i /\ rec'[i].state = "queued"
       /\ \A j \in Ids \ {i} : rec'[j] = rec[j]
  BY <1>1, <1>2, <1>5, <1>7
<1>14. \A j, k \in 1 .. Len(queue') : j # place /\ k # place /\ was(j) = was(k) => j = k
  BY <1>5, <1>7
<1> HIDE DEF was
<1>8. \A k \in 1 .. Len(queue') : rec'[queue'[k]].state = "queued"
  <2> SUFFICES ASSUME NEW k \in 1 .. Len(queue') PROVE rec'[queue'[k]].state = "queued"
    OBVIOUS
  <2>1. CASE k = place
    BY <2>1, <1>13
  <2>2. CASE k # place
    <3> DEFINE m == was(k)
    <3>1. m \in 1 .. Len(queue) /\ queue'[k] = queue[m]
      BY <2>2, <1>12
    <3> HIDE DEF m
    <3>2. queue[m] \in Ids \ {i} /\ rec[queue[m]].state = "queued"
      BY <3>1, <1>6 DEF QueueInv
    <3>3. rec'[queue[m]] = rec[queue[m]]
      BY <3>2, <1>13
    <3> QED  BY <3>1, <3>2, <3>3
  <2> QED  BY <2>1, <2>2
<1>9. \A j, k \in 1 .. Len(queue') : queue'[j] = queue'[k] => j = k
  <2> SUFFICES ASSUME NEW j \in 1 .. Len(queue'), NEW k \in 1 .. Len(queue'),
                      queue'[j] = queue'[k]
               PROVE  j = k
    OBVIOUS
  <2>1. CASE j = place \/ k = place
    BY <2>1, <1>6, <1>12, <1>13
  <2>2. CASE j # place /\ k # place
    <3>1. was(j) = was(k)
      BY <2>2, <1>12 DEF QueueInv
    <3> QED  BY <2>2, <3>1, <1>14
  <2> QED  BY <2>1, <2>2
<1>10. owner # Nobody => owner # i /\ rec'[owner] = rec[owner]
  BY <1>2 DEF Exists
<1>11. \A j \in Ids \ {i} : Exists(j)' => Kept(j)
  BY <1>2 DEF Exists, Kept
<1> QED
  BY <1>1, <1>2, <1>3, <1>5, <1>8, <1>9, <1>10, <1>11 DEF RequestQueued, PlacedNext, QueueInv

\* What is deleted is not there, and who is next has the target.
LEMMA RemovedIs ==
    ASSUME Placed, NEW i \in Ids, Remove(i)
    PROVE  PlacedNext /\ \A j \in Ids : Exists(j)' => j # i /\ Kept(j)
<1> USE DEF Placed, TypeOK
<1> DEFINE rest == Others(i)
           gone == [rec EXCEPT ![i] = None]
<1>1. /\ rest \in Seq(Clients)
      /\ \A k \in 1 .. Len(rest) : rest[k] # i /\ rec[rest[k]].state = "queued"
      /\ \A j, k \in 1 .. Len(rest) : rest[j] = rest[k] => j = k
  BY OthersWait
<1>2. 0 \in Ages
  BY AgesAre
<1>3. /\ gone \in [Ids -> [state : States, age : Ages, left : Int \cup {NoEnd, Static}]]
      /\ gone[i].state = "none" /\ \A j \in Ids \ {i} : gone[j] = rec[j]
  BY <1>2 DEF None, States
<1> HIDE DEF rest, gone
<1>4. CASE owner = i /\ rest # <<>>
  <2> DEFINE next == Head(rest)
  <2>1. /\ next \in Clients /\ next = rest[1] /\ Tail(rest) \in Seq(Clients)
        /\ Len(rest) \in Nat /\ Len(Tail(rest)) = Len(rest) - 1
        /\ \A k \in 1 .. Len(Tail(rest)) : Tail(rest)[k] = rest[k + 1]
    BY <1>1, <1>4, HeadTailProperties
  <2>2. next # i /\ rec[next].state = "queued" /\ next \in Ids
    BY <1>1, <1>4, <2>1 DEF Ids
  <2>3. /\ owner' = next /\ queue' = Tail(rest) /\ used' = 0 /\ lastUse' = 0
        /\ rec' = [gone EXCEPT ![next].state = "active"]
    BY <1>4 DEF Remove, rest, gone
  <2> HIDE DEF next
  <2>4. /\ rec' \in [Ids -> [state : States, age : Ages, left : Int \cup {NoEnd, Static}]]
        /\ rec'[next] = [rec[next] EXCEPT !.state = "active"] /\ rec'[i].state = "none"
        /\ \A j \in Ids \ {i, next} : rec'[j] = rec[j]
    BY <1>3, <2>2, <2>3 DEF States
  <2>5. \A k \in 1 .. Len(queue') : queue'[k] = rest[k + 1] /\ k + 1 \in 1 .. Len(rest) /\ k + 1 # 1
    BY <2>1, <2>3
  <2>6. \A k \in 1 .. Len(queue') : queue'[k] # next /\ queue'[k] # i
          /\ rec[queue'[k]].state = "queued" /\ queue'[k] \in Ids
    BY <1>1, <2>1, <2>5 DEF Ids
  <2>7. \A j, k \in 1 .. Len(queue') : queue'[j] = queue'[k] => j = k
    BY <1>1, <2>1, <2>3, <2>5
  <2>8. QueueInv'
    BY <2>4, <2>6, <2>7 DEF QueueInv
  <2>9. \A j \in Ids : Exists(j)' => j # i /\ Kept(j)
    BY <2>2, <2>4 DEF Exists, Kept
  <2> QED
    BY <1>2, <2>1, <2>2, <2>3, <2>4, <2>8, <2>9 DEF PlacedNext
<1>5. CASE ~(owner = i /\ rest # <<>>)
  <2>1. /\ owner' = IF owner = i THEN Nobody ELSE owner
        /\ queue' = rest /\ rec' = gone /\ used' = used /\ lastUse' = lastUse
    BY <1>5 DEF Remove, rest, gone
  <2>2. \A k \in 1 .. Len(rest) : rest[k] \in Ids
    BY <1>1 DEF Ids
  <2>3. QueueInv'
    BY <1>1, <1>3, <2>1, <2>2 DEF QueueInv
  <2>4. \A j \in Ids : Exists(j)' => j # i /\ Kept(j)
    BY <1>3, <2>1 DEF Exists, Kept
  <2> QED
    BY <1>1, <1>3, <2>1, <2>3, <2>4 DEF PlacedNext
<1> QED
  BY <1>4, <1>5

\* A keepalive changes the stamp of who sent it, if it has an allocation.
LEMMA RenewedIs ==
    ASSUME Placed, NEW i \in Ids, Renew(i), UNCHANGED <<queue, owner>>,
           used' \in Ages, lastUse' \in Ages
    PROVE  /\ PlacedNext
           /\ rec'[i].age = 0 \/ ~Exists(i)'
           /\ \A j \in Ids : Exists(j)' <=> Exists(j)
           /\ \A j \in Ids : Exists(j) => rec'[j].left = rec[j].left
                /\ rec'[j].age \in {0, rec[j].age}
           /\ \A j \in Ids \ {i} : Exists(j)' => Kept(j)
<1> USE DEF Placed, TypeOK
<1>1. 0 \in Ages
  BY AgesAre
<1>2. rec' = [rec EXCEPT ![i] = [rec[i] EXCEPT !.age = IF Exists(i) THEN 0 ELSE @]]
  BY DEF Renew
<1>3. /\ rec' \in [Ids -> [state : States, age : Ages, left : Int \cup {NoEnd, Static}]]
      /\ \A j \in Ids : rec'[j].state = rec[j].state /\ rec'[j].left = rec[j].left
      /\ \A j \in Ids \ {i} : rec'[j] = rec[j]
      /\ rec'[i].age = IF Exists(i) THEN 0 ELSE rec[i].age
  BY <1>1, <1>2
<1>4. \A k \in 1 .. Len(queue) : queue[k] \in Ids
  BY DEF Ids
<1>5. QueueInv'
  BY <1>3, <1>4 DEF QueueInv
<1> QED
  BY <1>3, <1>5 DEF PlacedNext, Exists, Kept
-----------------------------------------------------------------------------
(* Types, queue, owner and maintenance. *)

\* Where the maintenance goes it keeps all but its place.
LEMMA Goes ==
    ASSUME TypeOK, NEW loc, Goto(loc)
    PROVE  /\ maint'.pc = loc /\ maint'.since = maint.since /\ maint'.ts = maint.ts
           /\ maint'.todo = maint.todo /\ maint'.victim = maint.victim
           /\ loc \in {"sleep", "scan", "delete", "ask", "check", "owner", "stamp", "off", "drop"}
                => maint' \in [pc : {"sleep", "scan", "delete", "ask", "check", "owner",
                                     "stamp", "off", "drop"}, since : Nat,
                               todo : SUBSET Ids, victim : Ids \cup {Nobody}, ts : Ages]
BY DEF TypeOK, Goto

\* A client takes the target from the daemon by having it granted, and that is recorded.
LEMMA ClientRobs ==
    ASSUME TypeOK, NEW c \in Clients, Asks(c) \/ Keepalive(c) \/ Abandon(c) \/ Interrupt(c) \/ Uses(c)
    PROVE  /\ robbed' \in BOOLEAN
           /\ owner = Daemon /\ PoweringOff => owner' = Daemon \/ robbed'
           /\ robbed => robbed'
           /\ robbed' /\ ~robbed => lastUse' = 0 /\ PoweringOff
<1>0. robbed \in BOOLEAN /\ c # Daemon
  BY LeaseNames DEF TypeOK
<1> DEFINE Goal == /\ robbed' \in BOOLEAN
                   /\ owner = Daemon /\ PoweringOff => owner' = Daemon \/ robbed'
                   /\ robbed => robbed'
                   /\ robbed' /\ ~robbed => lastUse' = 0 /\ PoweringOff
<1>1. ASSUME NEW left, RequestGranted(c, left) \/ RequestQueued(c, left) PROVE Goal
  <2>1. CASE RequestGranted(c, left)
    <3>1. lastUse' = 0 /\ robbed' = (robbed \/ (owner = Daemon /\ PoweringOff))
      BY <1>0, <2>1 DEF RequestGranted
    <3> QED
      BY <1>0, <3>1
  <2>2. CASE RequestQueued(c, left)
    BY <1>0, <2>2 DEF RequestQueued
  <2> QED
    BY <1>1, <2>1, <2>2
<1>2. ASSUME Remove(c), UNCHANGED robbed PROVE Goal
  BY <1>0, <1>2 DEF Remove
<1>3. ASSUME UNCHANGED <<owner, robbed>> PROVE Goal
  BY <1>0, <1>3
<1> HIDE DEF Goal
<1>4. CASE Asks(c)
  BY <1>1, <1>3, <1>4 DEF Asks, AskGranted, AskQueued, AskBusy, AskUnanswered,
      leaseVars, Goal
<1>5. CASE Keepalive(c)
  BY <1>3, <1>5 DEF Keepalive, KeepaliveStays, KeepaliveActive, KeepaliveInvalid,
      KeepaliveFails, GiveUp, leaseVars, Goal
<1>6. CASE Abandon(c) \/ Interrupt(c) \/ Uses(c)
  BY <1>2, <1>3, <1>6 DEF Abandon, Interrupt, Uses, Operate, leaseVars, Goal
<1> QED
  BY <1>4, <1>5, <1>6

\* The maintenance robs nobody: the daemon asks for no target it has.
LEMMA MaintainRobs ==
    ASSUME TypeOK, Maintain
    PROVE  robbed' = robbed \/ (DaemonDrops /\ robbed' = FALSE)
BY DEF TypeOK, Maintain, Wake, Visit, Expire, ToTargets, DaemonAsks, RequestGranted,
    PoweringOff,
    DaemonLooks, DaemonChecks, DaemonStamps, DaemonPowersOff, DaemonDrops

\* Where a client goes it has a timer and an answer.
LEMMA ClientGoes ==
    ASSUME TypeOK, NEW c \in Clients
    PROVE  /\ Leaves(c) => /\ client' \in [Clients -> Client]
                           /\ client'[c].pc = "done"
                           /\ \A d \in Clients \ {c} : client'[d] = client[d]
           /\ \A loc \in {"wait", "hold"}, state \in States \cup {"invalid"} :
                Keeps(c, loc, state) => /\ client' \in [Clients -> Client]
                                        /\ client'[c].pc = loc /\ client'[c].timer = 0
                                        /\ \A d \in Clients \ {c} : client'[d] = client[d]
<1>1. client \in [Clients -> Client]
  BY DEF TypeOK
<1>2. -1 \in -1 .. RetryTimeout + 1 /\ 0 \in 0 .. Period
  BY ClientTimes
<1>3. [Asleep EXCEPT !.pc = "done"] \in Client
  BY <1>2 DEF Asleep, Client, States, NoRetry, Never
<1>4. ASSUME NEW loc \in {"wait", "hold"}, NEW state \in States \cup {"invalid"}
      PROVE  [client[c] EXCEPT !.pc = loc, !.known = state, !.timer = 0] \in Client
  BY <1>1, <1>2 DEF Client
<1>5. Leaves(c) => client' = [client EXCEPT ![c] = [Asleep EXCEPT !.pc = "done"]]
  BY DEF Leaves
<1>6. ASSUME NEW loc \in {"wait", "hold"}, NEW state \in States \cup {"invalid"},
               Keeps(c, loc, state)
      PROVE  client' = [client EXCEPT ![c] = [client[c] EXCEPT !.pc = loc, !.known = state,
               !.timer = 0]]
  BY <1>6 DEF Keeps
<1>7. [Asleep EXCEPT !.pc = "done"].pc = "done"
  BY DEF Asleep
<1>8. ASSUME NEW loc \in {"wait", "hold"}, NEW state \in States \cup {"invalid"}
      PROVE  /\ [client[c] EXCEPT !.pc = loc, !.known = state, !.timer = 0].pc = loc
             /\ [client[c] EXCEPT !.pc = loc, !.known = state, !.timer = 0].timer = 0
  BY <1>1 DEF Client
<1>9. ASSUME NEW v \in Client, client' = [client EXCEPT ![c] = v]
      PROVE  /\ client' \in [Clients -> Client] /\ client'[c] = v
             /\ \A d \in Clients \ {c} : client'[d] = client[d]
  BY <1>1, <1>9
<1>10. ASSUME Leaves(c)
       PROVE  /\ client' \in [Clients -> Client] /\ client'[c].pc = "done"
              /\ \A d \in Clients \ {c} : client'[d] = client[d]
  BY <1>3, <1>5, <1>7, <1>9, <1>10
<1>11. ASSUME NEW loc \in {"wait", "hold"}, NEW state \in States \cup {"invalid"},
              Keeps(c, loc, state)
       PROVE  /\ client' \in [Clients -> Client]
              /\ client'[c].pc = loc /\ client'[c].timer = 0
              /\ \A d \in Clients \ {c} : client'[d] = client[d]
  <2> DEFINE v == [client[c] EXCEPT !.pc = loc, !.known = state, !.timer = 0]
  <2>1. v \in Client /\ v.pc = loc /\ v.timer = 0 /\ client' = [client EXCEPT ![c] = v]
    BY <1>4, <1>6, <1>8, <1>11
  <2> HIDE DEF v
  <2> QED
    BY <1>9, <2>1
<1> QED
  BY <1>10, <1>11

\* What is asked of a client's step, but for the records.
Stepped(c) ==
    /\ client' \in [Clients -> Client]
    /\ client'[c].pc # "start"
    /\ \A d \in Clients \ {c} : client'[d] = client[d]

\* A step of a client keeps its types, and the target clear.
LEMMA BaseClient ==
    ASSUME Base, NEW c \in Clients, Asks(c) \/ Keepalive(c) \/ Abandon(c) \/ Interrupt(c) \/ Uses(c)
    PROVE  Base' /\ Stepped(c)
<1> USE DEF Base
<1>0. Placed
  BY DEF HolderInv, Placed
<1>1. c \in Ids /\ EndTimes[c] \subseteq Int \cup {NoEnd, Static} /\ 0 \in Ages
  BY LeaseNames, AgesAre DEF Ids
<1>2. SUFFICES /\ PlacedNext
               /\ \A j \in Ids \ {c} : Exists(j)' => Exists(j)
               /\ Stepped(c)
               /\ power' \in {"on", "normal", "full"} /\ UNCHANGED maint
  BY <1>1, ClientRobs DEF PlacedNext, HolderInv, TypeOK, MaintInv, Ids, Stepped, At
<1>3. UNCHANGED leaseVars =>
        /\ PlacedNext /\ \A j \in Ids \ {c} : Exists(j)' => Exists(j)
        /\ power' \in {"on", "normal", "full"} /\ UNCHANGED maint
  BY <1>0 DEF leaseVars, PlacedNext, Placed, TypeOK, QueueInv, Exists
<1>4. power \in {"on", "normal", "full"}
  BY DEF TypeOK
<1>5. Leaves(c) => Stepped(c)
  BY ClientGoes DEF Stepped
<1>6. \A loc \in {"wait", "hold"}, state \in States \cup {"invalid"} : Keeps(c, loc, state)
        => Stepped(c)
  BY ClientGoes DEF Stepped
<1>7. Told(c) \in States \cup {"invalid"}
  BY <1>1 DEF Told, TypeOK
<1>8. \/ Renew(c) /\ UNCHANGED <<queue, owner, used, lastUse>>
      \/ Renew(c) /\ UNCHANGED <<queue, owner>> /\ used' = 0 /\ lastUse' = 0
      \/ UNCHANGED <<rec, queue, owner, used, lastUse>>
      => PlacedNext /\ \A j \in Ids \ {c} : Exists(j)' => Exists(j)
  <2>1. ASSUME Renew(c), UNCHANGED <<queue, owner>>, used' \in Ages, lastUse' \in Ages
        PROVE  PlacedNext /\ \A j \in Ids \ {c} : Exists(j)' => Exists(j)
    BY <1>0, <1>1, <2>1, RenewedIs
  <2>2. used \in Ages /\ lastUse \in Ages
    BY DEF TypeOK
  <2>3. UNCHANGED <<rec, queue, owner, used, lastUse>> => PlacedNext
          /\ \A j \in Ids \ {c} : Exists(j)' => Exists(j)
    BY <1>0 DEF PlacedNext, Placed, TypeOK, QueueInv, Exists
  <2> QED
    BY <1>1, <2>1, <2>2, <2>3
<1>9. ASSUME At(c, "start"),
             \E left \in EndTimes[c] : RequestGranted(c, left) \/ RequestQueued(c, left)
      PROVE  PlacedNext /\ \A j \in Ids \ {c} : Exists(j)' => Exists(j)
  <2>1. PICK left \in EndTimes[c] : RequestGranted(c, left) \/ RequestQueued(c, left)
    BY <1>9
  <2>2. ~Exists(c) /\ left \in Int \cup {NoEnd, Static}
    BY <1>1, <1>9 DEF HolderInv
  <2> QED
    BY <1>0, <1>1, <2>1, <2>2, GrantedIs, QueuedIs DEF Kept
<1>10. ASSUME Remove(c) PROVE PlacedNext /\ \A j \in Ids \ {c} : Exists(j)' => Exists(j)
  BY <1>0, <1>1, <1>10, RemovedIs DEF Kept
<1>11. CASE AskGranted(c)
  BY <1>4, <1>6, <1>9, <1>11 DEF AskGranted, States
<1>12. CASE AskQueued(c)
  BY <1>4, <1>6, <1>9, <1>12 DEF AskQueued, States
<1>13. CASE AskBusy(c)
  BY <1>3, <1>5, <1>13 DEF AskBusy
<1>14. CASE AskUnanswered(c)
  BY <1>4, <1>5, <1>9, <1>14 DEF AskUnanswered
<1>15. CASE KeepaliveStays(c)
  <2>1. client[c].pc \in {"wait", "hold"}
    BY <1>15 DEF KeepaliveStays, Live, At
  <2> QED
    BY <1>4, <1>6, <1>7, <1>8, <1>15, <2>1 DEF KeepaliveStays
<1>16a. NoRetry \in NoRetry .. Never /\ 0 \in 0 .. Period
  BY ClientTimes DEF NoRetry, Never
<1>16. CASE KeepaliveActive(c)
  <2>1. Stepped(c)
    <3> DEFINE holds == [Asleep EXCEPT !.pc = "hold", !.known = "active"]
    <3>1. holds.pc = "hold"
      BY DEF Asleep
    <3>2. holds \in Client
      BY <1>16a DEF Asleep, Client, States
    <3>3. client' = [client EXCEPT ![c] = holds]
      BY <1>16 DEF KeepaliveActive
    <3> HIDE DEF holds
    <3> QED
      BY <3>1, <3>2, <3>3 DEF TypeOK, Stepped
  <2> QED
    BY <1>4, <1>8, <1>16, <2>1 DEF KeepaliveActive
<1>17. CASE KeepaliveInvalid(c)
  BY <1>3, <1>5, <1>17 DEF KeepaliveInvalid
<1>18. CASE KeepaliveFails(c)
  <2>1. Stepped(c)
    <3> DEFINE retries == [client[c] EXCEPT !.timer = 0,
                                            !.retry = IF @ = NoRetry THEN 0 ELSE @]
    <3>1. client \in [Clients -> Client] /\ client[c].pc # "start"
      BY <1>18 DEF TypeOK, KeepaliveFails, Live, At
    <3>2. 0 \in 0 .. Period /\ 0 \in -1 .. RetryTimeout + 1
      BY ClientTimes
    <3>3. retries \in Client /\ retries.pc = client[c].pc
      BY <3>1, <3>2 DEF Client, NoRetry, Never
    <3>4. client' = [client EXCEPT ![c] = retries]
      BY <1>18, <3>1 DEF KeepaliveFails, Client
    <3> HIDE DEF retries
    <3> QED
      BY <3>1, <3>3, <3>4 DEF Stepped
  <2> QED
    BY <1>4, <1>8, <1>18, <2>1 DEF KeepaliveFails
<1>19. CASE GiveUp(c)
  BY <1>4, <1>5, <1>8, <1>19 DEF GiveUp
<1>20. CASE Abandon(c)
  BY <1>3, <1>5, <1>20 DEF Abandon
<1>21. CASE Interrupt(c)
  BY <1>3, <1>4, <1>5, <1>10, <1>21 DEF Interrupt
<1>22. CASE Uses(c)
  <2>1. Stepped(c) /\ UNCHANGED <<queue, owner, maint>> /\ used' = 0 /\ lastUse' = 0
    BY <1>22 DEF Uses, At, Stepped, TypeOK, Operate
  <2>2. Renew(c) /\ power' \in {"on", "normal", "full"}
    BY <1>22 DEF Uses, Operate, Renew, Exists
  <2> QED
    BY <1>8, <2>1, <2>2
<1> QED
  BY <1>11, <1>12, <1>13, <1>14, <1>15, <1>16, <1>17, <1>18, <1>19, <1>20, <1>21,
      <1>22 DEF Asks, Keepalive
\* A step of the maintenance does, too.
LEMMA BaseMaintain ==
    ASSUME Base, Maintain, UNCHANGED client
    PROVE  Base'
<1> USE DEF Base
<1>0. Placed
  BY DEF HolderInv, Placed
<1> DEFINE MaintType == [pc : {"sleep", "scan", "delete", "ask", "check",
                               "owner", "stamp", "off", "drop"}, since : Nat,
                         todo : SUBSET Ids, victim : Ids \cup {Nobody}, ts : Ages]
<1>1. maint \in MaintType /\ power \in {"on", "normal", "full"}
  BY DEF TypeOK
<1>2. 0 \in Ages /\ Daemon \in Ids /\ Daemon \notin Clients /\ Nobody \notin Ids
        /\ used \in Ages /\ lastUse \in Ages
  BY LeaseNames, AgesAre DEF Ids, TypeOK
<1>3. SUFFICES /\ PlacedNext
               /\ \A j \in Clients : Exists(j)' => Exists(j)
               /\ maint' \in MaintType /\ MaintInv'
               /\ power' \in {"on", "normal", "full"}
  BY MaintainRobs DEF PlacedNext, HolderInv, TypeOK, At
<1>4. UNCHANGED <<rec, queue, owner, used, lastUse>> => PlacedNext
        /\ \A j \in Clients : Exists(j)' => Exists(j)
  BY <1>0 DEF PlacedNext, Placed, TypeOK, QueueInv, Exists
<1>5. ASSUME NEW i \in Ids, Remove(i) PROVE PlacedNext /\ \A j \in Clients : Exists(j)' => Exists(j)
  BY <1>0, <1>5, RemovedIs DEF Kept, Ids
<1>14. SleepPeriod \in Nat /\ ScanMax \in Nat
  BY LeaseTimes
<1>6. MaintSleep => maint' \in MaintType /\ MaintInv'
  <2>1. ASSUME MaintSleep
        PROVE  maint' \in MaintType /\ maint'.pc = "sleep" /\ maint'.since = 0
                 /\ maint'.victim = Nobody
    BY <1>1, <1>2, <2>1 DEF MaintSleep
  <2> QED
    BY <1>14, <2>1 DEF MaintInv
<1>7. CASE Wake
  <2>1. maint' \in MaintType /\ maint'.pc = "scan" /\ maint'.since = 0 /\ maint'.victim = Nobody
    BY <1>1, <1>7 DEF Wake, MaintInv
  <2>2. MaintInv'
    BY <1>14, <2>1 DEF MaintInv
  <2> QED
    BY <1>1, <1>4, <1>7, <2>1, <2>2 DEF Wake
<1>8. ASSUME NEW i \in Ids, Visit(i)
      PROVE  /\ PlacedNext /\ \A j \in Clients : Exists(j)' => Exists(j)
             /\ maint' \in MaintType /\ MaintInv' /\ power' \in {"on", "normal", "full"}
  BY <1>1, <1>2, <1>4, <1>8 DEF Visit, MaintInv
<1>9. CASE Expire
  <2>1. maint.victim \in Ids
    BY <1>1, <1>9 DEF Expire, MaintInv
  <2> QED
    BY <1>1, <1>2, <1>5, <1>9, <2>1 DEF Expire, MaintInv
<1>10. CASE ToTargets
  BY <1>1, <1>2, <1>4, <1>6, <1>10 DEF ToTargets, MaintInv
<1>11. CASE DaemonAsks
  <2>1. ASSUME RequestGranted(Daemon, NoEnd)
        PROVE  PlacedNext /\ \A j \in Clients : Exists(j)' => Exists(j)
    BY <1>0, <1>2, <2>1, GrantedIs DEF Kept, Ids
  <2>2. Goto("check") /\ maint.pc = "ask" => maint' \in MaintType /\ MaintInv'
    BY <1>1, <1>2 DEF Goto, MaintInv
  <2> QED
    BY <1>1, <1>4, <1>6, <1>11, <2>1, <2>2 DEF DaemonAsks
<1>15. ASSUME NEW loc \in {"owner", "stamp", "off", "drop"}, Goto(loc), maint.pc # "delete",
              maint.pc # "sleep"
       PROVE  maint' \in MaintType /\ MaintInv'
  BY <1>1, <1>15, Goes DEF MaintInv
<1>16. CASE DaemonLooks
  BY <1>1, <1>4, <1>15, <1>16 DEF DaemonLooks
<1>17. CASE DaemonChecks
  BY <1>1, <1>4, <1>15, <1>17 DEF DaemonChecks
<1>18. CASE DaemonStamps
  <2>1. ASSUME owner # Nobody, Renew(owner), UNCHANGED <<queue, owner, lastUse>>, used' = 0
        PROVE  PlacedNext /\ \A j \in Clients : Exists(j)' => Exists(j)
    <3>1. owner \in Ids
      BY <2>1 DEF TypeOK
    <3> QED
      BY <1>0, <1>2, <2>1, <3>1, RenewedIs DEF Ids
  <2> QED
    BY <1>1, <1>4, <1>15, <1>18, <2>1 DEF DaemonStamps
<1>12. CASE DaemonPowersOff
  <2>1. IdlePower(power) \in {"on", "normal", "full"}
    BY <1>1 DEF IdlePower
  <2> QED
    BY <1>1, <1>4, <1>12, <1>15, <2>1 DEF DaemonPowersOff
<1>13. CASE DaemonDrops
  BY <1>1, <1>2, <1>5, <1>6, <1>13 DEF DaemonDrops
<1> QED
  BY <1>7, <1>8, <1>9, <1>10, <1>11, <1>12, <1>13, <1>16, <1>17, <1>18 DEF Maintain

\* A record that gets older keeps its state, and has an end time if it had one.
LEMMA TickRecords ==
    ASSUME TypeOK, LeaseTick
    PROVE  /\ rec' \in [Ids -> [state : States, age : Ages, left : Int \cup {NoEnd, Static}]]
           /\ \A i \in Ids : rec'[i].state = rec[i].state
           /\ \A i \in Ids : Exists(i) =>
                /\ rec'[i].age = Older(rec[i].age)
                /\ rec'[i].left = NoEnd <=> rec[i].left = NoEnd
                /\ rec'[i].left = Static <=> rec[i].left = Static
<1>1. 0 \in Ages
  BY AgesAre
<1>2. SUFFICES ASSUME NEW i \in Ids
               PROVE  /\ rec'[i] \in [state : States, age : Ages, left : Int \cup {NoEnd, Static}]
                      /\ rec'[i].state = rec[i].state
                      /\ Exists(i) => /\ rec'[i].age = Older(rec[i].age)
                                      /\ rec'[i].left = NoEnd <=> rec[i].left = NoEnd
                                      /\ rec'[i].left = Static <=> rec[i].left = Static
  BY DEF LeaseTick
<1>3. rec[i] \in [state : States, age : Ages, left : Int \cup {NoEnd, Static}]
  BY DEF TypeOK
<1>4. CASE Exists(i)
  <2> DEFINE left == rec[i].left
             next == IF left \in {NoEnd, Static} \/ left <= 0 THEN left ELSE left - 1
  <2>1. next \in Int \cup {NoEnd, Static} /\ (next = NoEnd <=> left = NoEnd)
          /\ (next = Static <=> left = Static)
    BY <1>3, LeaseNames
  <2>2. rec'[i] = [rec[i] EXCEPT !.age = Older(rec[i].age), !.left = next]
    BY <1>3, <1>4 DEF LeaseTick
  <2> HIDE DEF next
  <2> QED
    BY <1>3, <2>1, <2>2, Aging
<1>5. CASE ~Exists(i)
  <2>1. rec'[i] = None
    BY <1>5 DEF LeaseTick
  <2> QED
    BY <1>1, <1>3, <1>5, <2>1 DEF None, Exists, States
<1> QED
  BY <1>4, <1>5

\* Time keeps the types and what is on time.
LEMMA BaseTick ==
    ASSUME Base, Tick
    PROVE  Base'
<1> USE DEF Base
<1>1. QueueInv' /\ (owner' # Nobody => rec'[owner'].state = "active")
        /\ \A c \in Clients : Exists(c)' <=> Exists(c)
  <2>1. \A k \in 1 .. Len(queue) : queue[k] \in Ids
    BY DEF TypeOK, Ids
  <2>2. UNCHANGED <<queue, owner>> /\ owner \in Ids \cup {Nobody} /\ Clients \subseteq Ids
    BY DEF Tick, LeaseTick, TypeOK, Ids
  <2> QED
    BY <2>1, <2>2, TickRecords DEF QueueInv, HolderInv, Exists, Tick
<1>2. /\ client' \in [Clients -> Client]
      /\ \A c \in Clients : At(c, "start")' => At(c, "start")
  <2>1. \A c \in Clients : Live(c) => client[c].timer + 1 \in 0 .. Period
    <3>1. \A c \in Clients : Live(c) => client[c].timer # Period
      BY DEF Tick, Polls
    <3>2. \A c \in Clients : client[c].timer \in 0 .. Period
      BY DEF TypeOK, Client
    <3> QED
      BY <3>1, <3>2, ClientTimes
  <2>2. \A t \in NoRetry .. Never : t # NoRetry => Later(t) \in NoRetry .. Never
    BY ClientTimes DEF NoRetry, Never, Later
  <2>3. ASSUME NEW c \in Clients PROVE client'[c] \in Client /\ client'[c].pc = client[c].pc
    BY <2>1, <2>2 DEF Tick, TypeOK, Client
  <2> QED
    BY <2>3 DEF Tick, At
<1>3. maint'.pc = maint.pc /\ maint'.victim = maint.victim /\ maint'.since = maint.since + 1
        /\ maint' \in [pc : {"sleep", "scan", "delete", "ask", "check",
                             "owner", "stamp", "off", "drop"}, since : Nat,
                         todo : SUBSET Ids, victim : Ids \cup {Nobody}, ts : Ages]
  <2> DEFINE ts == IF maint.pc \in {"ask", "check"} THEN Older(maint.ts) ELSE maint.ts
  <2>1. maint' = [maint EXCEPT !.since = maint.since + 1, !.ts = ts]
    BY DEF Tick, LeaseTick, TypeOK
  <2>2. ts \in Ages
    BY Aging DEF TypeOK
  <2> HIDE DEF ts
  <2>3. maint \in [pc : {"sleep", "scan", "delete", "ask", "check",
                         "owner", "stamp", "off", "drop"}, since : Nat,
                    todo : SUBSET Ids, victim : Ids \cup {Nobody}, ts : Ages]
    BY DEF TypeOK
  <2>4. maint.since + 1 \in Nat
    BY <2>3
  <2> HIDE DEF Base, TypeOK
  <2> QED
    BY <2>1, <2>2, <2>3, <2>4
<1>4. MaintInv'
  <2>1. SleepPeriod \in Nat /\ ScanMax \in Nat /\ maint.since \in Nat
    BY LeaseTimes DEF TypeOK
  <2>2. IF maint.pc = "sleep" THEN maint.since < SleepPeriod ELSE maint.since < ScanMax
    BY DEF Tick, LeaseTick, MaintOnTime
  <2> QED
    BY <1>3, <2>1, <2>2 DEF MaintInv
<1>5. TypeOK'
  BY <1>2, <1>3, TickRecords, Aging DEF Tick, LeaseTick, TypeOK
<1> QED
  BY <1>1, <1>2, <1>4, <1>5 DEF HolderInv
-----------------------------------------------------------------------------
(* Ages.                                                                      *)

\* A client's step gives new stamps, or removes records.
LEMMA ClientRecords ==
    ASSUME Base, NEW c \in Clients, Asks(c) \/ Keepalive(c) \/ Abandon(c) \/ Interrupt(c) \/ Uses(c)
    PROVE  /\ \A j \in Ids \ {c} : Exists(j)' => Kept(j)
           /\ Exists(c)' => \/ At(c, "start") /\ rec'[c].age = 0
                            \/ Exists(c) /\ rec'[c].left = rec[c].left
                                 /\ rec'[c].age \in {0, rec[c].age}
           /\ UNCHANGED maint
<1> USE DEF Base
<1>0. Placed
  BY DEF HolderInv, Placed
<1>1. c \in Ids /\ EndTimes[c] \subseteq Int \cup {NoEnd, Static} /\ 0 \in Ages
        /\ used \in Ages /\ lastUse \in Ages
  <2>1. 0 \in Ages
    BY AgesAre
  <2>2. c \in Ids /\ EndTimes[c] \subseteq Int \cup {NoEnd, Static}
    BY LeaseNames DEF Ids
  <2>3. used \in Ages /\ lastUse \in Ages
    BY DEF TypeOK
  <2> QED
    BY <2>1, <2>2, <2>3
<1> DEFINE Goal == /\ \A j \in Ids \ {c} : Exists(j)' => Kept(j)
                   /\ Exists(c)' => \/ At(c, "start") /\ rec'[c].age = 0
                                    \/ Exists(c) /\ rec'[c].left = rec[c].left
                                         /\ rec'[c].age \in {0, rec[c].age}
<1>2. ASSUME At(c, "start"),
             \E left \in EndTimes[c] : RequestGranted(c, left) \/ RequestQueued(c, left)
      PROVE  Goal
  <2>1. PICK left \in EndTimes[c] : RequestGranted(c, left) \/ RequestQueued(c, left)
    BY <1>2
  <2>2. ~Exists(c) /\ left \in Int \cup {NoEnd, Static}
    BY <1>1, <1>2 DEF HolderInv
  <2> QED
    BY <1>0, <1>1, <1>2, <2>1, <2>2, GrantedIs, QueuedIs
<1>3. ASSUME Remove(c) PROVE Goal
  BY <1>0, <1>1, <1>3, RemovedIs
<1>4. ASSUME Renew(c), UNCHANGED <<queue, owner>>, used' \in Ages, lastUse' \in Ages PROVE Goal
  BY <1>0, <1>1, <1>4, RenewedIs
<1>5. ASSUME UNCHANGED rec PROVE Goal
  BY <1>5 DEF Exists, Kept
<1> HIDE DEF Goal
<1>6. CASE AskGranted(c) \/ AskQueued(c) \/ AskUnanswered(c)
  BY <1>2, <1>6 DEF AskGranted, AskQueued, AskUnanswered, Goal
<1>7. CASE AskBusy(c) \/ Abandon(c) \/ KeepaliveInvalid(c)
  BY <1>5, <1>7 DEF AskBusy, Abandon, KeepaliveInvalid, leaseVars, Goal
<1>8. CASE KeepaliveStays(c) \/ KeepaliveActive(c)
  BY <1>1, <1>4, <1>8 DEF KeepaliveStays, KeepaliveActive, Goal
<1>9. CASE KeepaliveFails(c) \/ GiveUp(c)
  BY <1>1, <1>4, <1>5, <1>9 DEF KeepaliveFails, GiveUp, Goal
<1>10. CASE Interrupt(c)
  BY <1>3, <1>5, <1>10 DEF Interrupt, leaseVars, Goal
<1>11. CASE Uses(c)
  <2>1. Renew(c) /\ UNCHANGED <<queue, owner, maint>> /\ used' = 0 /\ lastUse' = 0
    BY <1>11 DEF Uses, Operate, Renew, Exists
  <2> QED
    BY <1>1, <1>4, <2>1 DEF Goal
<1> QED
  BY <1>6, <1>7, <1>8, <1>9, <1>10, <1>11 DEF Asks, Keepalive

\* The times that are compared.
LEMMA Times ==
    ASSUME Base
    PROVE  /\ {MaxIdle, IdleOff, IdleFullyOff, SleepPeriod, ScanMax, Day, maint.since} \subseteq Nat
           /\ MaxIdle + SleepPeriod + 2 * ScanMax < Day
           /\ \A i \in Ids : rec[i].age \in Nat /\ rec[i].age \in Ages
           /\ maint.pc = "sleep" => maint.since <= SleepPeriod
           /\ maint.pc # "sleep" => maint.since <= ScanMax
<1>1. maint.since \in Nat /\ \A i \in Ids : rec[i].age \in Ages
  BY DEF Base, TypeOK
<1>2. Ages \subseteq Nat
  BY LeaseTimes DEF Ages
<1> QED
  BY <1>1, <1>2, LeaseTimes DEF Base, MaintInv

\* An allocation that is not idle too long when the maintenance looks at it.
LEMMA NotIdle ==
    ASSUME Base, NEW i \in Ids, rec[i].age < Day, maint.pc # "sleep"
    PROVE  ~IdleTooLong(i) <=> rec[i].age <= MaxIdle + maint.since
<1> DEFINE idle == rec[i].age - maint.since
<1>1. idle \in Int /\ idle < Day
  BY Times
<1>2. IdleTooLong(i) <=> idle \div Day >= 0 /\ Seconds(idle) > MaxIdle
  BY DEF IdleTooLong
<1>3. CASE idle < 0
  BY <1>1, <1>2, <1>3, WithinDay, Times
<1>4. CASE idle >= 0
  BY <1>1, <1>2, <1>4, WithinDay, Times
<1> QED
  BY <1>1, <1>3, <1>4
\* The bounds, in each part of a run of the maintenance.
LEMMA Bounds ==
    ASSUME Base, NEW i \in Ids
    PROVE  /\ AgeBound(i) \in Nat
           /\ AgeBound(i) <= MaxIdle + SleepPeriod + 2 * ScanMax
           /\ maint.pc = "scan" => AgeBound(i) = IF i \in maint.todo
                    THEN MaxIdle + ScanMax + SleepPeriod + maint.since ELSE MaxIdle + maint.since
           /\ maint.pc \in {"ask", "check", "owner", "stamp", "off", "drop"}
                => AgeBound(i) = MaxIdle + maint.since
           /\ maint.pc = "sleep" => AgeBound(i) = MaxIdle + ScanMax + maint.since
<1>1. maint.pc = "scan" => maint.victim # i
  BY LeaseNames DEF Base, MaintInv, Ids
<1> QED
  BY <1>1, Times DEF AgeBound, Pending

\* A step leaves no allocation older than it may be.
LEMMA AgesKept ==
    ASSUME Base, Base', AgeInv, Next
    PROVE  AgeInv'
<1> SUFFICES ASSUME NEW i \in Ids, Exists(i)', rec'[i].left # Static
             PROVE  rec'[i].age <= AgeBound(i)'
  BY DEF AgeInv
<1>1. {MaxIdle, SleepPeriod, ScanMax, maint.since, maint'.since} \subseteq Nat
  BY LeaseTimes DEF Base, TypeOK
<1>2. AgeBound(i) \in Nat /\ AgeBound(i)' \in Nat
  BY <1>1 DEF AgeBound
<1>3. rec'[i].age \in Nat /\ rec[i].age \in Nat
  BY AgesAre DEF Base, TypeOK
<1>4. ASSUME rec'[i].age = 0 \/ Kept(i), AgeBound(i) <= AgeBound(i)'
      PROVE  rec'[i].age <= AgeBound(i)'
  BY <1>2, <1>3, <1>4 DEF Kept, AgeInv
<1>5. maint'.victim # Nobody <=> maint'.pc = "delete"
  BY DEF Base, MaintInv
<1>6. CASE \E c \in Clients : Asks(c) \/ Keepalive(c) \/ Abandon(c) \/ Interrupt(c) \/ Uses(c)
  <2>1. PICK c \in Clients : Asks(c) \/ Keepalive(c) \/ Abandon(c) \/ Interrupt(c) \/ Uses(c)
    BY <1>6
  <2>2. rec'[i].age = 0 \/ Kept(i)
    BY <2>1, ClientRecords DEF Kept
  <2>3. AgeBound(i)' = AgeBound(i)
    BY <2>1, ClientRecords DEF AgeBound, Pending
  <2> QED
    BY <1>2, <1>4, <2>2, <2>3
<1>7. CASE Wake
  <2>1. Kept(i)
    BY <1>7 DEF Wake, Kept, Exists
  <2>2. AgeBound(i)' = MaxIdle + ScanMax + SleepPeriod + maint'.since /\ maint'.since = 0
    BY <1>7, <2>1 DEF Wake, Base, TypeOK, AgeBound, Pending, Kept
  <2>3. AgeBound(i) = MaxIdle + ScanMax + maint.since /\ maint.since <= SleepPeriod
    BY <1>7, Bounds, Times DEF Wake
  <2> QED
    BY <1>1, <1>4, <2>1, <2>2, <2>3
<1>8. ASSUME NEW j \in Ids, Visit(j) PROVE rec'[i].age <= AgeBound(i)'
  <2>1. Kept(i) /\ maint.pc = "scan" /\ maint'.since = maint.since /\ maint'.todo = maint.todo \ {j}
    BY <1>8 DEF Visit, Kept, Exists, Base, TypeOK
  <2>2. /\ maint'.pc = IF Expired(j) THEN "delete" ELSE "scan"
        /\ maint'.victim = IF Expired(j) THEN j ELSE Nobody
    BY <1>8 DEF Visit, Base, TypeOK
  <2>3. CASE i # j \/ Expired(j)
    <3>1. AgeBound(i)' = AgeBound(i)
      BY <1>8, <2>1, <2>2, <2>3, Bounds, LeaseNames DEF Visit, AgeBound, Pending, Ids
    <3> QED
      BY <1>2, <1>4, <2>1, <3>1
  <2>4. CASE i = j /\ ~Expired(j)
    <3>1. ~IdleTooLong(i)
      BY <2>1, <2>4 DEF Expired, Kept
    <3>2. rec[i].age < Day
      BY <1>2, <2>1, <1>3, Bounds, Times DEF AgeInv, Kept
    <3>3. rec[i].age <= MaxIdle + maint.since
      BY <2>1, <3>1, <3>2, NotIdle
    <3>4. AgeBound(i)' = MaxIdle + maint.since
      BY <2>1, <2>2, <2>4, LeaseNames DEF AgeBound, Pending, Ids
    <3> QED
      BY <2>1, <3>3, <3>4 DEF Kept
  <2> QED
    BY <2>3, <2>4
<1>9. CASE Expire
  <2>1. maint.victim \in Ids /\ maint.pc = "delete"
    BY <1>9 DEF Expire, Base, TypeOK, MaintInv
  <2>2. Kept(i) /\ i # maint.victim
    BY <1>9, <2>1, RemovedIs DEF Expire, Base, HolderInv, Placed
  <2>3. maint' = [maint EXCEPT !.pc = "scan", !.victim = Nobody]
    BY <1>9 DEF Expire
  <2>4. AgeBound(i)' = AgeBound(i)
    BY <2>1, <2>2, <2>3, LeaseNames DEF AgeBound, Pending, Ids, Base, TypeOK
  <2> QED
    BY <1>2, <1>4, <2>2, <2>4
<1>10. CASE \/ ToTargets \/ DaemonAsks \/ DaemonLooks \/ DaemonChecks \/ DaemonStamps
            \/ DaemonPowersOff \/ DaemonDrops
  <2>1. rec'[i].age = 0 \/ Kept(i)
    <3>0. Placed /\ Daemon \in Ids /\ (Daemon \in Clients => ~Exists(Daemon)) /\ 0 \in Ages
            /\ used \in Ages /\ lastUse \in Ages
      <4>1. Daemon \in Ids /\ Daemon \notin Clients
        BY LeaseNames DEF Ids
      <4> QED
        BY <4>1, AgesAre DEF Base, HolderInv, Placed, TypeOK
    <3>1. CASE ToTargets
      BY <3>1 DEF ToTargets, Kept, Exists
    <3>2. CASE DaemonAsks
      BY <3>0, <3>2, GrantedIs DEF DaemonAsks, Kept, Exists
    <3>3. CASE DaemonStamps
      <4>1. CASE UNCHANGED rec
        BY <4>1 DEF Kept, Exists
      <4>2. CASE owner # Nobody /\ Renew(owner) /\ used' = 0
        <5>1. owner \in Ids
          BY <4>2 DEF Base, TypeOK
        <5> QED
          BY <3>0, <3>3, <4>2, <5>1, RenewedIs DEF DaemonStamps, Kept
      <4> QED
        BY <3>3, <4>1, <4>2 DEF DaemonStamps
    <3>5. CASE DaemonLooks \/ DaemonChecks \/ DaemonPowersOff
      BY <3>5 DEF DaemonLooks, DaemonChecks, DaemonPowersOff, Kept, Exists
    <3>4. CASE DaemonDrops
      BY <3>0, <3>4, RemovedIs DEF DaemonDrops
    <3> QED
      BY <1>10, <3>1, <3>2, <3>3, <3>4, <3>5
  <2>2. AgeBound(i) = MaxIdle + maint.since /\ maint.since <= ScanMax
    BY <1>10, Bounds, Times DEF ToTargets, DaemonAsks, DaemonLooks, DaemonChecks, DaemonStamps,
        DaemonPowersOff, DaemonDrops
  <2>3. CASE MaintSleep
    <3>1. maint'.pc = "sleep" /\ maint'.since = 0
      BY <2>3 DEF MaintSleep, Base, TypeOK
    <3>2. AgeBound(i)' = MaxIdle + ScanMax
      BY <1>1, <3>1 DEF AgeBound
    <3> QED
      BY <1>1, <1>4, <2>1, <2>2, <3>2
  <2>4. CASE /\ maint'.pc \in {"ask", "check", "owner", "stamp", "off", "drop"}
             /\ maint'.since = maint.since
    <3>1. AgeBound(i)' = MaxIdle + maint.since
      BY <2>4 DEF AgeBound, Pending
    <3> QED
      BY <1>2, <1>4, <2>1, <2>2, <3>1
  <2>5. CASE ToTargets
    BY <2>3, <2>4, <2>5 DEF ToTargets, Base, TypeOK
  <2>6. CASE DaemonAsks \/ DaemonLooks \/ DaemonChecks \/ DaemonStamps \/ DaemonPowersOff
    <3>1. ASSUME NEW loc \in {"check", "owner", "stamp", "off", "drop"}, Goto(loc)
          PROVE  maint'.pc = loc /\ maint'.since = maint.since
      BY <3>1, Goes DEF Base
    <3> QED
      BY <2>3, <2>4, <2>6, <3>1 DEF DaemonAsks, DaemonLooks, DaemonChecks, DaemonStamps,
          DaemonPowersOff
  <2> QED
    BY <1>10, <2>3, <2>5, <2>6 DEF DaemonDrops
<1>11. CASE Tick
  <2>1. /\ maint'.pc = maint.pc /\ maint'.since = maint.since + 1
        /\ maint'.todo = maint.todo /\ maint'.victim = maint.victim
    BY <1>11 DEF Tick, LeaseTick, Base, TypeOK
  <2>2. AgeBound(i)' = AgeBound(i) + 1
    BY <1>1, <2>1 DEF AgeBound, Pending
  <2>3. Exists(i) /\ rec[i].left # Static /\ rec'[i].age = Older(rec[i].age)
    BY <1>11, TickRecords DEF Tick, Base, Exists
  <2>4. rec[i].age <= AgeBound(i) /\ rec[i].age \in Ages
    BY <2>3, Times DEF AgeInv
  <2> QED
    BY <1>2, <1>3, <2>2, <2>3, <2>4, Aging, LeaseTimes DEF Ages
<1> QED
  BY <1>6, <1>7, <1>8, <1>9, <1>10, <1>11 DEF Next, Maintain
-----------------------------------------------------------------------------
(* Keepalives.                                                                *)

\* A client that loses no answer and has an allocation after its step has a new
\* stamp, and one that is not asking had not ended before.
LEMMA ClientRenews ==
    ASSUME Base, NEW c \in Clients, Asks(c) \/ Keepalive(c) \/ Abandon(c) \/ Interrupt(c) \/ Uses(c)
    PROVE  /\ \A d \in Clients \ {c} : client'[d] = client[d]
           /\ At(c, "start") \/ Live(c)
           /\ ~At(c, "start")'
           /\ Lively(c)' /\ Exists(c)' => rec'[c].age = 0
<1> USE DEF Base
<1>0. Placed /\ c \in Ids /\ EndTimes[c] \subseteq Int \cup {NoEnd, Static} /\ 0 \in Ages
        /\ used \in Ages /\ lastUse \in Ages
  BY LeaseNames, AgesAre DEF HolderInv, Placed, Ids, TypeOK
<1>1. Leaves(c) => ~Lively(c)'
  BY ClientGoes DEF Lively, Live, At
<1>2. (\A d \in Clients \ {c} : client'[d] = client[d]) /\ ~At(c, "start")'
  BY BaseClient DEF Stepped, At
<1>3. CASE AskGranted(c) \/ AskQueued(c)
  <2>1. PICK left \in EndTimes[c] : RequestGranted(c, left) \/ RequestQueued(c, left)
    BY <1>3 DEF AskGranted, AskQueued
  <2>2. ~Exists(c) /\ left \in Int \cup {NoEnd, Static} /\ At(c, "start")
    BY <1>0, <1>3 DEF HolderInv, AskGranted, AskQueued
  <2>3. rec'[c].age = 0
    BY <1>0, <2>1, <2>2, GrantedIs, QueuedIs
  <2> QED
    BY <1>2, <1>3, <2>2, <2>3 DEF AskGranted, AskQueued, States
<1>4. CASE AskBusy(c) \/ AskUnanswered(c)
  BY <1>1, <1>2, <1>4 DEF AskBusy, AskUnanswered
<1>5. CASE Abandon(c) \/ KeepaliveInvalid(c) \/ GiveUp(c) \/ Interrupt(c)
  BY <1>1, <1>2, <1>5 DEF Abandon, KeepaliveInvalid, GiveUp, Interrupt
<1>6. ASSUME Renew(c), UNCHANGED <<queue, owner>>, used' \in Ages, lastUse' \in Ages
      PROVE  Exists(c)' => rec'[c].age = 0
  BY <1>0, <1>6, RenewedIs
<1>7. CASE KeepaliveStays(c)
  BY <1>0, <1>2, <1>6, <1>7 DEF KeepaliveStays
<1>8. CASE KeepaliveActive(c)
  BY <1>0, <1>2, <1>6, <1>8 DEF KeepaliveActive, Live
<1>9. CASE KeepaliveFails(c)
  BY <1>2, <1>9 DEF KeepaliveFails, Lively
<1>10. CASE Uses(c)
  <2>1. Renew(c) /\ UNCHANGED <<queue, owner, client>> /\ used' = 0 /\ lastUse' = 0
    BY <1>10 DEF Uses, Operate, Renew, Exists
  <2> QED
    BY <1>0, <1>2, <1>6, <1>10, <2>1 DEF Uses, Live
<1> QED
  BY <1>3, <1>4, <1>5, <1>7, <1>8, <1>9, <1>10 DEF Asks, Keepalive

\* The maintenance takes on who is to be removed only when it looks at it.
LEMMA VictimIs ==
    ASSUME TypeOK, Maintain
    PROVE  \/ maint'.victim \in {maint.victim, Nobody}
           \/ \E i \in Ids : /\ maint.pc = "scan" /\ UNCHANGED rec
                             /\ maint'.victim = i /\ Expired(i)
<1>1. maint \in [pc : {"sleep", "scan", "delete", "ask", "check",
                       "owner", "stamp", "off", "drop"}, since : Nat,
                todo : SUBSET Ids, victim : Ids \cup {Nobody}, ts : Ages]
  BY DEF TypeOK
<1> HIDE DEF TypeOK
<1>2. MaintSleep => maint'.victim = Nobody
  BY <1>1 DEF MaintSleep
<1>3. \A loc : Goto(loc) => maint'.victim = maint.victim
  BY <1>1 DEF Goto
<1>4. CASE Wake \/ Expire
  BY <1>1, <1>4 DEF Wake, Expire
<1>5. CASE ToTargets
  BY <1>1, <1>2, <1>5 DEF ToTargets
<1>6. CASE \/ DaemonAsks \/ DaemonLooks \/ DaemonChecks \/ DaemonStamps \/ DaemonPowersOff
           \/ DaemonDrops
  BY <1>2, <1>3, <1>6 DEF DaemonAsks, DaemonLooks, DaemonChecks, DaemonStamps, DaemonPowersOff,
      DaemonDrops
<1>7. ASSUME NEW i \in Ids, Visit(i)
      PROVE  /\ maint.pc = "scan" /\ UNCHANGED rec
             /\ maint'.victim = IF Expired(i) THEN i ELSE Nobody
  BY <1>1, <1>7 DEF Visit
<1> QED
  BY <1>4, <1>5, <1>6, <1>7 DEF Maintain

\* The maintenance changes no allocation of a client but to remove it, or to give it a new
\* stamp.
Spared(i) == Exists(i) /\ rec'[i].age \in {0, rec[i].age} /\ rec'[i].left = rec[i].left

LEMMA MaintainRecords ==
    ASSUME Base, Maintain, NEW c \in Clients, Exists(c)'
    PROVE  Spared(c)
<1>0. Placed /\ Daemon \in Ids /\ c # Daemon /\ Daemon \notin Clients /\ c \in Ids
        /\ 0 \in Ages /\ used \in Ages /\ lastUse \in Ages
  <2>1. Daemon \in Ids /\ c # Daemon /\ Daemon \notin Clients /\ c \in Ids
    BY LeaseNames DEF Ids
  <2> QED
    BY <2>1, AgesAre DEF Base, HolderInv, Placed, TypeOK
<1>1. /\ UNCHANGED rec => Spared(c)
      /\ Kept(c) => Spared(c)
  BY DEF Kept, Exists, Spared
<1>2. CASE Wake \/ ToTargets
  BY <1>1, <1>2 DEF Wake, ToTargets
<1>3. CASE Expire
  <2>1. maint.victim \in Ids
    BY <1>3 DEF Expire, Base, MaintInv, TypeOK
  <2> QED
    BY <1>0, <1>1, <1>3, <2>1, RemovedIs DEF Expire
<1>4. CASE DaemonAsks
  <2>1. ASSUME RequestGranted(Daemon, NoEnd) PROVE Spared(c)
    BY <1>0, <1>1, <2>1, GrantedIs
  <2> QED
    BY <1>1, <1>4, <2>1 DEF DaemonAsks
<1>5. CASE DaemonStamps
  <2>1. ASSUME owner # Nobody, Renew(owner), UNCHANGED <<queue, owner, lastUse>>, used' = 0
        PROVE  Spared(c)
    <3>1. owner \in Ids
      BY <2>1 DEF Base, TypeOK
    <3> QED
      BY <1>0, <2>1, <3>1, RenewedIs DEF Spared
  <2> QED
    BY <1>1, <1>5, <2>1 DEF DaemonStamps
<1>8. CASE DaemonLooks \/ DaemonChecks \/ DaemonPowersOff
  BY <1>1, <1>8 DEF DaemonLooks, DaemonChecks, DaemonPowersOff
<1>6. CASE DaemonDrops
  BY <1>0, <1>1, <1>6, RemovedIs DEF DaemonDrops
<1>7. CASE \E i \in Ids : Visit(i)
  BY <1>1, <1>7 DEF Visit
<1> QED
  BY <1>2, <1>3, <1>4, <1>5, <1>6, <1>7, <1>8 DEF Maintain

\* What is removed is not kept alive, if keepalives are sent often enough.
LEMMA KeptKept ==
    ASSUME Period <= MaxIdle, Base, Base', KeptInv, Next
    PROVE  KeptInv'
<1> SUFFICES ASSUME NEW c \in Clients
             PROVE  /\ Lively(c)' /\ Exists(c)' => rec'[c].age <= client'[c].timer
                    /\ maint'.victim = c => ~At(c, "start")'
                    /\ maint'.victim = c /\ Exists(c)' =>
                        rec'[c].left # Static /\ (rec'[c].left # NoEnd \/ ~Lively(c)')
  BY DEF KeptInv
<1>0. c \in Ids /\ client'[c].timer \in Nat /\ client[c].timer \in 0 .. Period /\ rec[c].age \in Nat
  <2>1. client[c] \in Client /\ client'[c] \in Client
    BY DEF Base, TypeOK
  <2>2. c \in Ids /\ rec[c].age \in Nat
    BY Times DEF Ids
  <2> QED
    BY <2>1, <2>2, ClientTimes DEF Client
<1>1. ASSUME NEW d \in Clients, Asks(d) \/ Keepalive(d) \/ Abandon(d) \/ Interrupt(d) \/ Uses(d)
      PROVE  /\ Lively(c)' /\ Exists(c)' => rec'[c].age <= client'[c].timer
             /\ maint'.victim = c => ~At(c, "start")'
             /\ maint'.victim = c /\ Exists(c)' =>
                 rec'[c].left # Static /\ (rec'[c].left # NoEnd \/ ~Lively(c)')
  <2>1. UNCHANGED maint
    BY <1>1, ClientRecords
  <2>2. CASE c # d
    <3>1. client'[c] = client[c] /\ (Exists(c)' => Kept(c))
      BY <1>0, <1>1, <2>2, ClientRecords, ClientRenews
    <3> QED
      BY <2>1, <3>1 DEF KeptInv, Kept, Lively, Live, At
  <2>3. CASE c = d
    <3>1. Lively(c)' /\ Exists(c)' => rec'[c].age = 0
      BY <1>1, <2>3, ClientRenews
    <3>2. ~At(c, "start") => Live(c) /\ (Exists(c)' => Exists(c) /\ rec'[c].left = rec[c].left)
      BY <1>1, <2>3, ClientRecords, ClientRenews
    <3>3. ~At(c, "start")'
      BY <1>1, <2>3, ClientRenews
    <3>5. maint.victim = c
            => ~At(c, "start")
               /\ (Exists(c) => rec[c].left # Static /\ (rec[c].left # NoEnd \/ ~Lively(c)))
      BY DEF KeptInv
    <3>6. Lively(c)' /\ Exists(c)' => rec'[c].age <= client'[c].timer
      BY <1>0, <3>1
    <3>7. maint'.victim = c /\ Exists(c)' =>
            rec'[c].left # Static /\ (rec'[c].left # NoEnd \/ ~Lively(c)')
      <4> SUFFICES ASSUME maint'.victim = c, Exists(c)',
                          rec'[c].left = Static \/ (rec'[c].left = NoEnd /\ Lively(c)')
                   PROVE  FALSE
        OBVIOUS
      <4>1. ~At(c, "start") /\ maint.victim = c
        BY <2>1, <3>5
      <4>2. Exists(c) /\ rec'[c].left = rec[c].left
        BY <3>2, <4>1 DEF At, Exists
      <4>3. rec[c].left # Static /\ (rec[c].left # NoEnd \/ ~Lively(c))
        BY <3>5, <4>1, <4>2
      <4>4. Live(c)
        BY <3>2, <4>1 DEF At, Live
      <4>5. Lively(c)' => Lively(c)
        BY <4>4 DEF Lively
      <4> QED
        BY <4>2, <4>3, <4>5
    <3> QED
      BY <3>3, <3>6, <3>7
  <2> QED
    BY <2>2, <2>3
<1>2. CASE Maintain /\ UNCHANGED client
  <2>1. Exists(c)' => Spared(c)
    BY <1>2, MaintainRecords
  <2>2. /\ At(c, "start")' <=> At(c, "start")
        /\ Lively(c)' <=> Lively(c)
        /\ client'[c] = client[c]
    BY <1>2 DEF At, Lively, Live
  <2>3. CASE maint'.victim \in {maint.victim, Nobody}
    <3>1. c # Nobody
      BY LeaseNames
    <3> QED
      BY <1>0, <2>1, <2>2, <2>3, <3>1 DEF KeptInv, Spared
  <2>4. CASE maint.pc = "scan" /\ UNCHANGED rec /\ maint'.victim = c /\ Expired(c)
    <3>1. Exists(c) /\ ~At(c, "start") /\ rec[c].left # Static
      BY <2>4 DEF Expired, Base, HolderInv
    <3>2. Lively(c) => ~IdleTooLong(c)
      BY <1>0, <2>4, <3>1, ClientTimes, NotIdle, Times DEF KeptInv
    <3> QED
      BY <2>1, <2>2, <2>4, <3>1, <3>2 DEF KeptInv, Spared, Expired
  <2> QED
    BY <1>2, <2>1, <2>2, <2>3, <2>4, VictimIs DEF Base, KeptInv, Spared
<1>3. CASE Tick
  <2>1. maint'.victim = maint.victim
    BY <1>3 DEF Tick, LeaseTick, Base, TypeOK
  <2>2. /\ Exists(c)' <=> Exists(c)
        /\ Exists(c) => /\ rec'[c].age = Older(rec[c].age)
                        /\ rec'[c].left = NoEnd <=> rec[c].left = NoEnd
                        /\ rec'[c].left = Static <=> rec[c].left = Static
    BY <1>0, <1>3, TickRecords DEF Tick, Base, Exists
  <2>3. /\ client'[c].pc = client[c].pc
        /\ Live(c) => client'[c].timer = client[c].timer + 1
    <3>1. client[c] \in Client
      BY DEF Base, TypeOK
    <3>2. client'[c] = IF Live(c)
                       THEN [client[c] EXCEPT
                               !.timer = client[c].timer + 1,
                               !.retry = IF client[c].retry = NoRetry THEN client[c].retry
                                         ELSE Later(client[c].retry)]
                       ELSE client[c]
      BY <1>3, <3>1 DEF Tick, Client
    <3> QED
      BY <3>1, <3>2 DEF Client
  <2>4. rec[c].age \in Ages
    BY <1>0, Times
  <2>5. Older(rec[c].age) <= rec[c].age + 1 /\ Older(rec[c].age) \in Nat
    BY <2>4, Aging, AgesAre
  <2> QED
    BY <1>0, <2>1, <2>2, <2>3, <2>5 DEF KeptInv, Lively, Live, At
<1> QED
  BY <1>1, <1>2, <1>3 DEF Next
-----------------------------------------------------------------------------
(* The last use.                                                              *)

\* A step of a client leaves both stamps of the target alone, or renews both.
LEMMA ClientUse ==
    ASSUME Base, NEW c \in Clients, Asks(c) \/ Keepalive(c) \/ Abandon(c) \/ Interrupt(c) \/ Uses(c)
    PROVE  \/ UNCHANGED <<used, lastUse>>
           \/ used' = 0 /\ lastUse' = 0
<1>0. c # Daemon
  BY LeaseNames
<1>1. ASSUME Remove(c) PROVE UNCHANGED <<used, lastUse>> \/ (used' = 0 /\ lastUse' = 0)
  BY <1>1 DEF Remove
<1>2. CASE Asks(c)
  BY <1>0, <1>2 DEF Asks, AskGranted, AskQueued, AskBusy, AskUnanswered, leaseVars,
      RequestGranted, RequestQueued
<1>3. CASE Keepalive(c)
  BY <1>3 DEF Keepalive, KeepaliveStays, KeepaliveActive, KeepaliveInvalid, KeepaliveFails,
      GiveUp, leaseVars
<1>4. CASE Abandon(c) \/ Interrupt(c) \/ Uses(c)
  BY <1>1, <1>4 DEF Abandon, Interrupt, Uses, Operate, leaseVars
<1> QED
  BY <1>2, <1>3, <1>4

\* Every step keeps the stamp no older than the last use.
LEMMA UseKept ==
    ASSUME Base, Base', UseInv, Next
    PROVE  UseInv'
<1>0. /\ {used, lastUse, used', lastUse', maint.ts, maint'.ts} \subseteq Ages
      /\ {used, lastUse, used', lastUse', maint.ts, maint'.ts, maint.since, maint'.since,
           Day} \subseteq Nat
  BY AgesAre, LeaseTimes DEF Base, TypeOK
<1>1. maint \in [pc : {"sleep", "scan", "delete", "ask", "check", "owner", "stamp", "off", "drop"},
                 since : Nat, todo : SUBSET Ids, victim : Ids \cup {Nobody}, ts : Ages]
      /\ TypeOK
  BY DEF Base, TypeOK
<1>2. CASE \E c \in Clients : Asks(c) \/ Keepalive(c) \/ Abandon(c) \/ Interrupt(c) \/ Uses(c)
  <2>1. PICK c \in Clients : Asks(c) \/ Keepalive(c) \/ Abandon(c) \/ Interrupt(c) \/ Uses(c)
    BY <1>2
  <2>2. UNCHANGED maint
    BY <2>1, ClientRecords
  <2>3. UNCHANGED <<used, lastUse>> \/ (used' = 0 /\ lastUse' = 0)
    BY <2>1, ClientUse
  <2>4. /\ robbed' \in BOOLEAN
        /\ owner = Daemon /\ PoweringOff => owner' = Daemon \/ robbed'
        /\ robbed => robbed'
        /\ robbed' /\ ~robbed => lastUse' = 0 /\ PoweringOff
    BY <1>1, <2>1, ClientRobs
  <2> QED
    BY <1>0, <2>2, <2>3, <2>4 DEF UseInv, NotOlder, PoweringOff
<1>3. ASSUME UNCHANGED <<used, lastUse>> \/ used' = 0,
             lastUse' \in {0, lastUse}, lastUse' = 0 => used' = 0 \/ lastUse = 0
      PROVE  NotOlder(used)'
  BY <1>0, <1>3 DEF UseInv, NotOlder
<1>4. CASE Maintain
  <2>0. robbed' = robbed \/ (DaemonDrops /\ robbed' = FALSE)
    BY <1>1, <1>4, MaintainRobs
  <2>a. ASSUME maint'.pc \in {"sleep", "scan", "delete"}, NotOlder(used)', ~robbed' PROVE UseInv'
    BY <2>a DEF UseInv, PoweringOff
  <2>b. maint.pc \in {"sleep", "scan", "delete", "ask", "check", "owner"} => ~robbed
    BY DEF UseInv
  <2>1. CASE Wake
    BY <1>1, <1>3, <2>0, <2>1, <2>a, <2>b DEF Wake, DaemonDrops
  <2>2. ASSUME NEW i \in Ids, Visit(i) PROVE UseInv'
    BY <1>1, <1>3, <2>0, <2>2, <2>a, <2>b DEF Visit, DaemonDrops
  <2>3. CASE Expire
    BY <1>1, <1>3, <2>0, <2>3, <2>a, <2>b DEF Expire, Remove, DaemonDrops
  <2>4. CASE ToTargets
    BY <1>0, <1>1, <2>4 DEF ToTargets, MaintSleep, UseInv, NotOlder, PoweringOff
  <2>5. CASE DaemonAsks
    <3>1. CASE RequestGranted(Daemon, NoEnd) /\ Goto("check")
      <4>1. maint'.pc = "check" /\ maint'.since = maint.since /\ maint'.ts = maint.ts
              /\ used' = 0 /\ lastUse' = lastUse /\ maint.pc = "ask"
        BY <1>1, <2>5, <3>1, Goes DEF RequestGranted, DaemonAsks
      <4>2. ~robbed'
        BY <2>0, <2>b, <4>1
      <4> QED
        BY <1>0, <4>1, <4>2 DEF UseInv, NotOlder, PoweringOff
    <3>2. CASE MaintSleep /\ UNCHANGED <<used, lastUse, robbed>>
      BY <1>1, <1>3, <2>5, <2>a, <2>b, <3>2 DEF MaintSleep, DaemonAsks
    <3> QED
      BY <2>5, <3>1, <3>2 DEF DaemonAsks
  <2>c. ASSUME NEW loc \in {"owner", "stamp", "off", "drop"}, Goto(loc),
               UNCHANGED <<owner, lastUse, robbed>>, used' \in {0, used},
               maint.pc \in {"check", "owner", "stamp", "off"},
               loc = "stamp" => owner = Daemon, loc = "off" => PoweringOff, loc = "owner" => ~robbed
        PROVE  UseInv'
    <3>1. maint'.pc = loc /\ maint'.since = maint.since /\ maint'.ts = maint.ts
      BY <1>1, <2>c, Goes
    <3> QED
      BY <1>0, <2>b, <2>c, <3>1 DEF UseInv, NotOlder, PoweringOff
  <2>6. CASE DaemonLooks
    BY <2>6, <2>b, <2>c DEF DaemonLooks
  <2>8. CASE DaemonChecks
    BY <2>8, <2>c DEF DaemonChecks
  <2>9. CASE DaemonStamps
    BY <2>9, <2>c DEF DaemonStamps, PoweringOff
  <2>10. CASE DaemonPowersOff
    BY <2>10, <2>c DEF DaemonPowersOff
  <2>7. CASE DaemonDrops
    BY <1>1, <1>3, <2>7, <2>a DEF DaemonDrops, Remove, MaintSleep
  <2> QED
    BY <1>4, <2>1, <2>2, <2>3, <2>4, <2>5, <2>6, <2>7, <2>8, <2>9, <2>10 DEF Maintain
<1>5. CASE Tick
  <2>1. /\ used' = Older(used) /\ lastUse' = Older(lastUse)
        /\ maint'.pc = maint.pc /\ maint'.since = maint.since + 1
        /\ maint'.ts = IF maint.pc \in {"ask", "check"} THEN Older(maint.ts) ELSE maint.ts
        /\ UNCHANGED <<owner, robbed>>
    BY <1>5 DEF Tick, LeaseTick, Base, TypeOK
  <2>2. ASSUME NEW ts \in Ages, NotOlder(ts)
        PROVE  Older(ts) <= Older(lastUse) \/ Day <= Older(lastUse)
    BY <1>0, <2>2 DEF NotOlder, Older, Ages
  <2>3. Older(lastUse) <= lastUse + 1
    BY <1>0, Aging
  <2>4. Older(lastUse) \in Nat
    BY <1>0, <2>1
  <2>5. ASSUME NEW ts \in Ages, NotOlder(ts)
        PROVE  ts <= Older(lastUse) \/ Day <= Older(lastUse)
    BY <1>0, <2>5 DEF NotOlder, Older, Ages
  <2>6. NotOlder(used)' /\ (lastUse <= maint.since => lastUse' <= maint'.since)
    BY <1>0, <2>1, <2>2, <2>3, <2>4 DEF UseInv, NotOlder
  <2>7. NotOlder(maint.ts) => NotOlder(maint.ts)'
    BY <1>0, <2>1, <2>2, <2>5 DEF NotOlder
  <2> QED
    BY <2>1, <2>6, <2>7 DEF UseInv, PoweringOff
<1> QED
  BY <1>2, <1>4, <1>5 DEF Next
-----------------------------------------------------------------------------
(* The theorems.                                                              *)

LeaseInv == Base /\ AgeInv /\ UseInv

\* At first nobody has asked for anything, and the maintenance sleeps.
LEMMA InitInv == Init => LeaseInv /\ KeptInv
<1> SUFFICES ASSUME Init PROVE LeaseInv /\ KeptInv
  OBVIOUS
<1> USE DEF Init, LeaseInit
<1>1. rec \in [Ids -> [state : States, age : Ages, left : Int \cup {NoEnd, Static}]]
  BY AgesAre DEF None, States
<1>2. client \in [Clients -> Client]
  BY ClientTimes DEF Asleep, Client, States, NoRetry, Never
<1>3. TypeOK
  <2>1. robbed \in BOOLEAN
    OBVIOUS
  <2> QED
    BY <1>1, <1>2, <2>1, AgesAre DEF TypeOK
<1>4. \A i \in Ids : ~Exists(i)
  BY DEF Exists, None
<1>5. QueueInv /\ HolderInv
  <2>1. Len(queue) = 0
    OBVIOUS
  <2>2. QueueInv
    BY <2>1 DEF QueueInv
  <2>3. HolderInv
    BY <1>4 DEF HolderInv, Ids
  <2> QED
    BY <2>2, <2>3
<1>6. MaintInv
  BY LeaseTimes DEF MaintInv
<1>7. \A c \in Clients : c # Nobody
  BY LeaseNames
<1>8. AgeInv
  BY <1>4 DEF AgeInv
<1>9. KeptInv
  <2>1. maint.victim = Nobody
    OBVIOUS
  <2> QED
    BY <1>4, <1>7, <2>1 DEF KeptInv, Ids
<1>10. UseInv
  <2>1. used = 0 /\ lastUse = 0 /\ maint.pc = "sleep" /\ ~robbed
    OBVIOUS
  <2> QED
    BY <2>1 DEF UseInv, NotOlder, PoweringOff
<1> QED
  BY <1>3, <1>5, <1>6, <1>8, <1>9, <1>10 DEF LeaseInv, Base

\* The invariant holds always.
THEOREM Invariant == Spec => []LeaseInv
<1>1. ASSUME LeaseInv, [Next]_vars PROVE LeaseInv'
  <2>1. CASE UNCHANGED vars
    BY <1>1, <2>1 DEF vars, leaseVars, LeaseInv, Base, TypeOK, QueueInv, HolderInv, MaintInv,
       AgeInv, AgeBound, Pending, UseInv, NotOlder, PoweringOff, Exists, At
  <2>2. CASE Next
    <3>1. Base'
      BY <1>1, <2>2, BaseClient, BaseMaintain, BaseTick DEF Next, LeaseInv
    <3> QED
      BY <1>1, <2>2, <3>1, AgesKept, UseKept DEF LeaseInv
  <2> QED
    BY <1>1, <2>1, <2>2
<1> QED
  BY InitInv, <1>1, PTL DEF Spec

\* Every variable of the leases keeps its type.
THEOREM TypeCorrect == Spec => []TypeOK
<1>1. LeaseInv => TypeOK
  BY DEF LeaseInv, Base
<1> QED
  BY Invariant, <1>1, PTL

\* Whatever the clients do, an allocation nobody keeps alive goes within the idle time,
\* a sleep of the cleanup process and two of its runs.
THEOREM Reclaimed == Spec => []ReclaimedInTime
<1>1. ASSUME LeaseInv PROVE ReclaimedInTime
  <2> SUFFICES ASSUME NEW i \in Ids, Exists(i), rec[i].left # Static
               PROVE  rec[i].age <= MaxIdle + SleepPeriod + 2 * ScanMax
    BY DEF ReclaimedInTime
  <2>1. rec[i].age <= AgeBound(i) /\ AgeBound(i) <= MaxIdle + SleepPeriod + 2 * ScanMax
    BY <1>1, Bounds DEF LeaseInv, AgeInv
  <2> QED
    BY <1>1, <2>1, Bounds, Times DEF LeaseInv
<1> QED
  BY Invariant, <1>1, PTL

\* The daemon powers a target off while it has it, if nobody used it for the idle time but
\* during this run; or under those who took it in this run, after it saw that it had it.
THEOREM IdlePoweredOff == Spec => PoweredOffIdle
<1> DEFINE Idly == maint.pc = "off" /\ maint'.pc = "drop" /\ power' # power
                    => \/ owner = Daemon /\ (lastUse > IdleOff \/ lastUse <= maint.since)
                       \/ robbed /\ lastUse <= maint.since
<1>1. ASSUME LeaseInv, [Next]_vars PROVE [Idly]_vars
  <2> SUFFICES ASSUME Next, maint.pc = "off", maint'.pc = "drop", power' # power
               PROVE  \/ owner = Daemon /\ (lastUse > IdleOff \/ lastUse <= maint.since)
                      \/ robbed /\ lastUse <= maint.since
    BY <1>1
  <2>1. DaemonPowersOff
    <3>1. ASSUME NEW c \in Clients, Asks(c) \/ Keepalive(c) \/ Abandon(c) \/ Interrupt(c) \/ Uses(c)
          PROVE  FALSE
      BY <1>1, <3>1, ClientRecords DEF LeaseInv
    <3>2. ~Tick
      BY <1>1 DEF Tick, LeaseTick
    <3> QED
      BY <3>1, <3>2 DEF Next, Maintain, Wake, Expire, ToTargets, DaemonAsks, DaemonLooks,
          DaemonChecks, DaemonStamps, DaemonDrops, Visit
  <2>2. IdlePower(power) # power /\ (owner = Daemon \/ robbed)
    BY <1>1, <2>1 DEF DaemonPowersOff, LeaseInv, UseInv, PoweringOff
  <2>3. Seconds(maint.ts) > IdleFullyOff \/ Seconds(maint.ts) > IdleOff
    BY <2>2 DEF IdlePower
  <2>4. maint.ts \in Nat /\ lastUse \in Nat /\ {IdleOff, IdleFullyOff, Day} \subseteq Nat
        /\ IdleOff <= IdleFullyOff /\ IdleFullyOff < Day
    BY <1>1, AgesAre, LeaseTimes DEF LeaseInv, Base, TypeOK
  <2>5. maint.ts >= Seconds(maint.ts) /\ Seconds(maint.ts) \in Int
    BY <2>4, WithinDay DEF Seconds
  <2>6. /\ NotOlder(maint.ts) \/ lastUse <= maint.since
        /\ robbed => lastUse <= maint.since
    BY <1>1 DEF LeaseInv, UseInv
  <2> QED
    BY <2>2, <2>3, <2>4, <2>5, <2>6 DEF NotOlder
<1> QED
  BY Invariant, <1>1, PTL DEF Spec, PoweredOffIdle

\* If a client sends its keepalives at least once in the idle time and loses no answer,
\* maintenance never takes its allocation, but one that has an end time.
THEOREM Keepalives == ASSUME Period <= MaxIdle PROVE Spec => KeptAlive
<1>1. ASSUME LeaseInv, LeaseInv', KeptInv, [Next]_vars PROVE KeptInv'
  <2>1. CASE UNCHANGED vars
    BY <1>1, <2>1 DEF vars, leaseVars, KeptInv, Lively, Live, At, Exists
  <2>2. CASE Next
    BY <1>1, <2>2, KeptKept DEF LeaseInv
  <2> QED
    BY <1>1, <2>1, <2>2
<1> DEFINE Alive == \A c \in Clients :
                        ExpiredByMaint(c)
                            => /\ rec[c].left # Static
                               /\ rec[c].left # NoEnd \/ c \in Lossy \/ ~Live(c)
<1>2. KeptInv => Alive
  BY DEF KeptInv, ExpiredByMaint, Lively
<1> QED
  BY Invariant, InitInv, <1>1, <1>2, PTL DEF Spec, KeptAlive
=============================================================================
