------------------------ MODULE PowerRailProperties ------------------------
(* What the power interface promises: properties of PowerRail. *)
EXTENDS PowerRail

TypeOK ==
    /\ level \in [Rail -> BOOLEAN]
    /\ published \in BOOLEAN
    /\ owner \in Users \cup {NoUser}
    /\ job \in [Workers -> Job]

\* Nothing keeps two operations on one target apart: the order of the rail is
\* promised to one at a time, and these properties are for one worker.

\* What a power on of the whole rail is to turn on.
Wanted(w, c) == job[w].explicit \/ Explicit[c] \in {"none", "off"}

\* "Power rails have to always be powered on in the same sequence": when a power
\* on turns a component on, those before it have power, unless they were on at
\* the start and a retry, which does not look again, turned them off.
RailOrder ==
    [][\A w \in Workers, c \in Rail :
         /\ job[w].whole
         /\ At(w, "on") /\ OnStep(w)
         /\ ~level[c] /\ level'[c]
         => \A d \in 1 .. c - 1 :
                Wanted(w, d) /\ d \notin OffOnRelease =>
                    level[d] \/ (job[w].data[d] = "on" /\ job[w].retries > 0)]_vars

\* Off in the reverse order: what comes later in the rail is off already, but
\* for what is explicit or did not obey.
ReverseOrder ==
    [][\A w \in Workers, c \in Rail :
         /\ job[w].whole
         /\ At(w, "off") /\ OffStep(w)
         /\ level[c] /\ ~level'[c]
         => \A d \in c + 1 .. RailLength :
                ~level[d] \/ d \in job[w].stuck
                    \/ (~job[w].explicit /\ Explicit[d] \in {"off", "both"})]_vars

\* A power on of the whole rail that reports success leaves all it wanted on,
\* whatever failed and was recovered on the way; with the exception above.
OnDelivers ==
    [][\A w \in Workers :
         /\ job[w].whole /\ OnDone(w)
         => \A c \in Rail : Wanted(w, c) /\ c \notin OffOnRelease =>
                level[c] \/ (job[w].data[c] = "on" /\ job[w].retries > 0)]_vars

\* Nothing but the retry of a whole rail touches an explicit component in an
\* operation that did not ask for it.
ExplicitLeftAlone ==
    [][\A w \in Workers, c \in Rail :
         /\ job[w].whole /\ ~job[w].explicit
         /\ job[w] # job'[w] /\ level[c] # level'[c]
         => \/ Explicit[c] = "none"
            \/ Explicit[c] = "on" /\ (At(w, "off") \/ At(w, "undo"))
            \/ Explicit[c] = "off" /\ ~At(w, "off")
            \/ At(w, "undo")]_vars

\* Every operation ends, however often its drivers fail.
OperationsEnd == \A w \in Workers : ~At(w, "idle") ~> At(w, "done")

=============================================================================
