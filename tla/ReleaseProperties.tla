------------------------- MODULE ReleaseProperties -------------------------
(* What an owner may expect of a target it is given.                         *)
EXTENDS Release

TypeOK ==
    /\ state \in [Allocs -> {"queued", "active", "restart-needed", "gone"}]
    /\ owner \in [Targets -> Allocs \cup {NoAlloc}]
    /\ queue \in [Targets -> SUBSET Allocs]
    /\ left \in [Targets -> [Parts -> Allocs \cup {NoAlloc}]]
    /\ alock \in [Allocs -> Procs \cup {NoProc}]
    /\ tlock \in [Targets -> Procs \cup {NoProc}]
    /\ job \in [Procs -> Job]
    /\ group \in [Allocs -> SUBSET Targets]
    /\ using \subseteq Targets \X Allocs
    /\ spoiled \subseteq Targets /\ soiled \subseteq Targets
    /\ uses \in 0 .. MaxUses
    /\ faults \in 0 .. MaxFaults

\* Who is given a target finds nothing another left in it: "reset it to clean
\* state", "to make sure it is the right state (in case a server crashed before
\* being able to cleanup on release)".  But for a target whose cleanup was cut short
\* or disturbed (spoiled), or which somebody used that gave it back as an extra, or to
\* which an operation that was let in did something after it was reset (soiled).
FreshClean ==
    [][\A t \in Targets :
         t \notin spoiled \cup soiled /\ owner'[t] \notin {owner[t], NoAlloc} =>
             \A c \in Parts : left[t][c] \in {NoAlloc, owner'[t]}]_vars

\* What an active owner, that is not giving up, did to its target stays: no cleanup
\* of an earlier owner is still under way - unless a removal met a new owner, or an
\* operation of an earlier owner still was.
InUseKept ==
    [][\A t \in Targets, c \in Parts :
         /\ t \notin spoiled /\ owner[t] # NoAlloc
         /\ state[owner[t]] = "active" /\ ~Ending(owner[t])
         /\ left[t][c] = owner[t]
         => left'[t][c] = owner[t] \/ <<t, left'[t][c]>> \in using]_vars

=============================================================================
