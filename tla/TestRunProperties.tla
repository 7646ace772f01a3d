------------------------- MODULE TestRunProperties -------------------------
(* What a run of testcases promises: properties of the behaviours of TestRun. *)
EXTENDS TestRun, FiniteSets

Stages == Bases \cup {"begin", "repeat", "repeated", "completed", "exited", "assign", "queue",
                      "granted", "register", "unassign", "stopping", "unregister", "delete"} \cup Handler

PhaseTyped ==
    /\ plan \in Plans /\ stage \in Stages /\ left \in Seq(Methods) /\ pool \in BOOLEAN
    /\ ret \in SUBSET Kinds /\ interrupted \in BOOLEAN

ResultsTyped ==
    /\ result \in SUBSET Kinds /\ subs \in [Isolated -> SUBSET Kinds]
    /\ count \in 0 .. Repeats /\ sum \in SUBSET Kinds /\ all \in SUBSET Kinds
    /\ posts \in 0 .. MaxPosts /\ ran \in 0 .. posts + 1
    /\ total \in SUBSET Kinds /\ exit \in {-1, 0, 1, 127}
    /\ bad \in SUBSET Bases /\ masked \in SUBSET bad /\ up \in BOOLEAN

TargetsTyped ==
    /\ allocid \in Allocs \cup {0} /\ alloc \in [Allocs -> Live \cup {"none", "gone"}]
    /\ fresh \in SUBSET Allocs /\ registry \in SUBSET Allocs
    /\ mutex \in BOOLEAN /\ keeper \in {"off", "on", "ending"}

TypeOK == PhaseTyped /\ ResultsTyped /\ TargetsTyped

\* However many testcases, phases and repetitions follow a method that ended
\* badly, and whatever else succeeds, the exit code of the run tells of it.  Not
\* so for a teardown, whose result is not looked at, and for a phase in which an
\* exception of a parallel method hid what the others did.
FailureCounts ==
    stage = "exited" /\ bad \ (masked \cup {"teardown"}) # {} => exit # 0

\* The stages at which it has its targets.
Using == Evaluation \cup {"deploy", "repeat", "repeated"}

\* A testcase uses its targets only while it keeps alive their allocation, and
\* one that set them up gives them back torn down, whatever failed in between;
\* unless it is interrupted.
HeldWhileUsed ==
    /\ up => stage \in Evaluation
    /\ stage \in Using /\ plan.acquires => allocid \in registry /\ keeper = "on"

\* The run ends, and nothing it allocated outlives it for long: what it did not
\* give back, because it forgot it in the queue, lost an answer, may not release
\* or was killed, it does not keep alive either.
RunEnds ==
    <>[](stage \in {"killed", "exited"}) /\ <>[](\A n \in Allocs : alloc[n] \notin Live)
=============================================================================
