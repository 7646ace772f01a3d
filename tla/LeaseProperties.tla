-------------------------- MODULE LeaseProperties --------------------------
(* What the leases promise: properties of LeaseClients. *)
EXTENDS LeaseClients

TypeOK ==
    /\ rec \in [Ids -> [state : States, age : Ages, left : Int \cup {NoEnd, Static}]]
    /\ queue \in Seq(Clients)
    /\ owner \in Ids \cup {Nobody}
    /\ used \in Ages /\ lastUse \in Ages
    /\ power \in {"on", "normal", "full"}
    /\ robbed \in BOOLEAN
    /\ maint \in [pc : {"sleep", "scan", "delete", "ask", "check", "owner", "stamp",
                        "off", "drop"},
                  since : Nat, todo : SUBSET Ids, victim : Ids \cup {Nobody},
                  ts : Ages]
    /\ client \in [Clients -> Client]

ExpiredByMaint(c) == maint.victim = c /\ maint'.victim = Nobody /\ Exists(c) /\ ~Exists(c)'

\* An allocation lives as long as its client keeps it alive: maintenance never
\* takes it from a client whose keepalives are answered, however long it holds
\* it, nor a static one from anybody.  But one with an end time goes at once.
KeptAlive ==
    [][\A c \in Clients :
         ExpiredByMaint(c)
            => /\ rec[c].left # Static
               /\ rec[c].left # NoEnd \/ c \in Lossy \/ ~Live(c)]_vars

\* An allocation nobody keeps alive goes, and its target with it, within the
\* idle time, a sleep of the cleanup process and two of its runs: one ends before
\* it can see it, the other removes it.
ReclaimedInTime ==
    \A i \in Ids : Exists(i) /\ rec[i].left # Static =>
        rec[i].age <= MaxIdle + SleepPeriod + 2 * ScanMax

\* The daemon powers off a target while it has it, and when nobody used it for the
\* idle time, but for those who came and went during this maintenance run.  Under
\* somebody else it goes off only if they, or those they have it from, took it from
\* the daemon after it looked whose it was: for it does not hold the target's lock,
\* nor looks again.
PoweredOffIdle ==
    [][maint.pc = "off" /\ maint'.pc = "drop" /\ power' # power
         => \/ owner = Daemon /\ (lastUse > IdleOff \/ lastUse <= maint.since)
            \/ robbed /\ lastUse <= maint.since]_vars

\* A client that waits is told it has the target, or that it has not, as those
\* before it end in whatever way.  But for a static one nobody removed, and for
\* one that lost the target to a more urgent one before it heard it had it: it
\* waits on.
WaitersServed ==
    \A c \in Clients :
        At(c, "wait") ~> \/ ~At(c, "wait")
                         \/ client[c].known = "restart-needed"
                         \/ owner # Nobody /\ rec[owner].left = Static
=============================================================================
