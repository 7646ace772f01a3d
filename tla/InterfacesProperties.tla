------------------------ MODULE InterfacesProperties ------------------------
(* What captures and certificates promise to one owner after another.        *)
EXTENDS Interfaces, FiniteSets

TypeOK ==
    /\ owner \in Allocs \cup {NoAlloc} /\ {past, handed} \subseteq SUBSET Allocs
    /\ running \subseteq Pids /\ spawned \in 0 .. MaxPids
    /\ pidfile \in Pids \cup {None} /\ capturing \in {"unset", "yes", "no"}
    /\ data \in Allocs \cup {NoAlloc}
    /\ made \in 0 .. MaxKeys /\ maker \in [Keys -> Allocs \cup {NoAlloc}]
    /\ dir \in BOOLEAN /\ cdir \in BOOLEAN
    /\ {authority, server} \subseteq Keys \cup {None}
    /\ {key, req} \subseteq [Names -> Keys \cup {None}]
    /\ cert \in [Names -> [key : Keys \cup {None}, ca : Keys \cup {None}]]
    /\ job.pid \in Pids \cup {None} /\ job.name \subseteq Names

Quiet == At("idle")

\* "if the capturer is already capturing, it is stopped first": two programs never
\* capture the same thing, whichever the ones before ended on their own or failed.
OneCapture == Cardinality(running) <= 1

\* A program that captures while no request is served can be found and stopped: by the
\* next start, by its pid file, and by a stop or a release, by the field.
Stoppable ==
    Quiet => \A pid \in running : pidfile = pid /\ capturing = "yes"

\* Who has the target, or gave it back as an extra since it was last released.
Holders == (handed \cup {owner}) \ {NoAlloc}

\* "When the targets are released, any captured data is wiped", certificates are
\* "specific to each allocation": nothing on a target was captured, captures, or was made
\* for another than who has it, whatever failed before its release, and whoever gave it
\* back as an extra before that.  Since its release, what those had stays.
NothingOfOthers ==
    Quiet =>
        /\ data \in Holders \cup {NoAlloc}
        /\ running # {} => data # NoAlloc
        /\ \A k \in {authority,
             server} \cup {key[n] : n \in Names} \cup {cert[n].ca : n \in Names} :
                k # None => maker[k] \in Holders

\* What the next request takes as already made goes together: the certificate is for
\* the key beside it, and signed by the authority of the target.
PairsMatch ==
    Quiet => \A n \in Names :
        AlreadyMade(n) => dir /\ cdir /\ cert[n] = [key |-> key[n], ca |-> authority]
=============================================================================
