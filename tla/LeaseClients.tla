---------------------------- MODULE LeaseClients ----------------------------
(***************************************************************************)
(* The clients of the leases of Lease: the loops of                        *)
(* tcfl/target_ext_alloc.py that ask for an allocation, keep it alive while *)
(* it waits and hold it, and the ways they end.  One client is one run of  *)
(* the command, or one testcase.  Requests fail, before or after the server *)
(* handled them; a client that ends may leave its allocation behind.       *)
(***************************************************************************)
EXTENDS Lease

CONSTANTS
    Queues,         \* clients that may wait in the queue
    Impatient,      \* clients that may ask for the target now or not at all
    Lossy,          \* clients whose requests may fail
    Period,         \* keepalive_period
    RetryTimeout

ASSUME ClientTimes == Period \in Nat \ {0} /\ RetryTimeout \in Nat
ASSUME ClientNames == Queues \cup Impatient \cup Lossy \subseteq Clients

VARIABLE client

vars == <<leaseVars, client>>

Never == RetryTimeout + 1       \* past any time that is compared with RetryTimeout
NoRetry == -1
Later(t) == IF t = Never THEN t ELSE t + 1

\* timer: since the last request; retry: since retry_ts was set.
Client == [pc       : {"start", "wait", "hold", "done"},
           known    : States \cup {"invalid"},
           timer    : 0 .. Period,
           retry    : NoRetry .. Never]

Asleep == [pc |-> "start", known |-> "none", timer |-> 0, retry |-> NoRetry]

Init == LeaseInit /\ client = [c \in Clients |-> Asleep]

At(c, loc) == client[c].pc = loc
Live(c) == At(c, "wait") \/ At(c, "hold")
Leaves(c) == client' = [client EXCEPT ![c] = [Asleep EXCEPT !.pc = "done"]]
Keeps(c, loc, state) ==
    client' = [client EXCEPT ![c] = [@ EXCEPT !.pc = loc, !.known = state, !.timer = 0]]

-----------------------------------------------------------------------------
(* _alloc_targets(), the request *)

AskGranted(c) ==
    /\ At(c, "start")
    /\ \E left \in EndTimes[c] : AcceptsEnd(left) /\ RequestGranted(c, left)
    /\ Keeps(c, "hold", "active")
    /\ UNCHANGED <<power, maint>>

AskQueued(c) ==
    /\ At(c, "start") /\ c \in Queues
    /\ \E left \in EndTimes[c] : AcceptsEnd(left) /\ RequestQueued(c, left)
    /\ Keeps(c, "wait", "queued")
    /\ UNCHANGED <<power, maint>>

AskBusy(c) ==
    /\ At(c, "start") /\ c \in Impatient /\ ~Grants(c)
    /\ Leaves(c)
    /\ UNCHANGED leaseVars

\* The answer is lost: the client fails, the allocation is there.
AskUnanswered(c) ==
    /\ At(c, "start") /\ c \in Lossy
    /\ \E left \in EndTimes[c] :
        /\ AcceptsEnd(left)
        /\ RequestGranted(c, left) \/ (c \in Queues /\ RequestQueued(c, left))
    /\ Leaves(c)
    /\ UNCHANGED <<power, maint>>

-----------------------------------------------------------------------------
(* The loops of _alloc_targets() (wait) and _alloc_hold() (hold) *)

Polls(c) == client[c].timer = Period

KeepaliveStays(c) ==
    /\ Live(c) /\ Polls(c)
    /\ Told(c) \notin IF At(c, "wait") THEN {"active", "invalid"} ELSE {"invalid"}
    /\ Renew(c)
    /\ Keeps(c, client[c].pc, Told(c))
    /\ UNCHANGED <<queue, owner, used, power, maint, lastUse, robbed>>

KeepaliveActive(c) ==
    /\ At(c, "wait") /\ Polls(c) /\ Told(c) = "active"
    /\ Renew(c)
    /\ client' = [client EXCEPT ![c] = [Asleep EXCEPT !.pc = "hold", !.known = "active"]]
    /\ UNCHANGED <<queue, owner, used, power, maint, lastUse, robbed>>

KeepaliveInvalid(c) ==
    /\ Live(c) /\ Polls(c) /\ Told(c) = "invalid"
    /\ Leaves(c)
    /\ UNCHANGED leaseVars

\* A keepalive fails, and the server may have handled it.  Answers do not reset
\* retry_ts: the time counts from the first failure of the loop.
KeepaliveFails(c) ==
    /\ Live(c) /\ Polls(c) /\ c \in Lossy
    /\ client[c].retry <= RetryTimeout
    /\ client' = [client EXCEPT ![c].timer = 0,
                                ![c].retry = IF @ = NoRetry THEN 0 ELSE @]
    /\ Renew(c) \/ UNCHANGED rec
    /\ UNCHANGED <<queue, owner, used, power, maint, lastUse, robbed>>

GiveUp(c) ==
    /\ Live(c) /\ Polls(c) /\ c \in Lossy
    /\ client[c].retry > RetryTimeout
    /\ Leaves(c)
    /\ Renew(c) \/ UNCHANGED rec
    /\ UNCHANGED <<queue, owner, used, power, maint, lastUse, robbed>>

\* The hold time, the queue timeout or the process ends: nothing is deleted.
Abandon(c) ==
    /\ Live(c)
    /\ Leaves(c)
    /\ UNCHANGED leaseVars

\* KeyboardInterrupt, or a testcase that is done: _delete(), errors ignored.
Interrupt(c) ==
    /\ Live(c)
    /\ Leaves(c)
    /\ \/ Remove(c) /\ UNCHANGED <<power, maint, robbed>>
       \/ c \in Lossy /\ UNCHANGED leaseVars

Uses(c) ==
    /\ At(c, "hold")
    /\ Operate(c)
    /\ UNCHANGED client

-----------------------------------------------------------------------------
\* A client that is due runs before time goes on.
Tick ==
    /\ \A c \in Clients : Live(c) => ~Polls(c)
    /\ LeaseTick
    /\ client' = [c \in Clients |->
                    IF Live(c)
                    THEN [client[c] EXCEPT
                            !.timer = @ + 1,
                            !.retry = IF @ = NoRetry THEN @ ELSE Later(@)]
                    ELSE client[c]]

Asks(c) == AskGranted(c) \/ AskQueued(c) \/ AskBusy(c) \/ AskUnanswered(c)
Keepalive(c) ==
    \/ KeepaliveStays(c) \/ KeepaliveActive(c) \/ KeepaliveInvalid(c)
    \/ KeepaliveFails(c) \/ GiveUp(c)

Next ==
    \/ \E c \in Clients : Asks(c) \/ Keepalive(c) \/ Abandon(c) \/ Interrupt(c) \/ Uses(c)
    \/ Maintain /\ UNCHANGED client
    \/ Tick

Spec == Init /\ [][Next]_vars

\* Time passes, both kinds of loop run, and nobody holds a target for ever.
Fairness ==
    /\ WF_vars(Tick)
    /\ WF_vars(Maintain /\ UNCHANGED client)
    /\ \A c \in Clients :
        /\ WF_vars(Keepalive(c))
        /\ WF_vars(At(c, "hold") /\ (Abandon(c) \/ Interrupt(c)))

FairSpec == Spec /\ Fairness

=============================================================================
