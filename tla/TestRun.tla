------------------------------ MODULE TestRun ------------------------------
(* tcf run (tcfl/tc.py): a process of the pool runs a testcase through its    *)
(* phases, then the subcases it collected and the testcases appended to it,   *)
(* while a thread keeps its allocation alive.  A signal may interrupt it, and *)
(* its handler gives back what the process says it holds.                     *)
(*                                                                            *)
(* A result_c is the set of the kinds it counts: only zero and not zero are   *)
(* told apart.  Methods are the methods of the testcase class, in the order   *)
(* of their names; a subcase in Isolated does not stop the ones after it.     *)
EXTENDS Integers, Sequences

CONSTANTS Methods, Serial, Parallel, Isolated, \* what _methods_prepare() found
          Repeats,                             \* --repeat-evaluation
          Plans,                               \* the options the run may have
          Ways,                                \* the results a method may have
          MaxPosts,                            \* bounds post_tc_append()
          MayInterrupt                         \* may somebody press Ctrl-C?

Kinds == {"passed", "errors", "failed", "blocked", "skipped"}
Bad == {"errors", "failed", "blocked"}
Phases == {"configure", "build", "deploy", "eval", "clean"}
Bases == Phases \cup {"setup", "start", "teardown", "class_teardown"}
Evaluation == {"setup", "start", "eval", "teardown"}

ASSUME RunInput ==
    /\ Serial \in [Bases -> Seq(Methods)] /\ Parallel \in [Bases -> Seq(Methods)]
    /\ Repeats \in Nat /\ MaxPosts \in Nat /\ Isolated \subseteq Methods
    /\ Ways \subseteq Kinds
    /\ \A b \in Evaluation \cup {"class_teardown"} : Parallel[b] = <<>>
    /\ Plans \subseteq [skip : SUBSET Phases, buildOnly : BOOLEAN,
                        acquires : BOOLEAN, release : BOOLEAN]
    /\ MayInterrupt \in BOOLEAN

VARIABLES
    plan, stage,              \* the options; where the testcase is
    left, pool, ret,          \* _methods_run(): serial methods left, are the
                              \* parallel ones to come, the result so far
    result, subs,             \* of the testcase, and of its subcases
    count, sum, all,          \* _do_the_eval(): repetitions, this one, all
    posts, ran, total, exit,  \* testcases appended and run, what they add up to
    bad, masked, up,          \* (history) phases with a bad method, phases whose
                              \* results were lost, set up and not torn down
    allocid, alloc, fresh,    \* this testcase's allocation; those of the server,
                              \* and those kept alive of late
    registry, mutex, keeper,  \* _allocids, is its mutex held, the thread
    interrupted               \* was Ctrl-C pressed?

phase == <<stage, left, pool, ret>>
results == <<result, subs, count, sum, all, posts, ran, total, exit, bad, masked, up>>
targets == <<allocid, alloc, fresh, registry, mutex, keeper>>
vars == <<plan, phase, results, targets, interrupted>>

Allocs == 1 .. MaxPosts + 1
Live == {"queued", "active"}
Subcases == [m \in Isolated |-> {}]
Handler == {"copy", "drop", "kill", "killed"}

Init ==
    /\ plan \in Plans /\ stage = "begin" /\ left = <<>> /\ pool = FALSE /\ ret = {}
    /\ result = {} /\ subs = Subcases /\ count = 0 /\ sum = {} /\ all = {}
    /\ posts = 0 /\ ran = 0 /\ total = {} /\ exit = -1
    /\ bad = {} /\ masked = {} /\ up = FALSE
    /\ allocid = 0 /\ alloc = [n \in Allocs |-> "none"] /\ fresh = {}
    /\ registry = {} /\ mutex = FALSE /\ keeper = "off"
    /\ interrupted = FALSE

\* The worst of what a result counts.
Summary(r) ==
    IF "failed" \in r THEN {"failed"} ELSE IF "errors" \in r THEN {"errors"}
    ELSE IF "blocked" \in r THEN {"blocked"} ELSE IF "passed" \in r THEN {"passed"}
    ELSE r

\* Does what a phase returned let the testcase go on?
Fine(r) == r \cap Bad = {}

Goto(s) ==
    /\ stage' = s /\ ret' = {}
    /\ left' = IF s \in Bases THEN Serial[s] ELSE <<>>
    /\ pool' = (s \in Bases /\ Parallel[s] # <<>>)

Enabled(p) == p \notin plan.skip
AfterTargets == IF Enabled("clean") THEN "clean" ELSE "completed"
Assigned == IF Enabled("deploy") THEN "deploy" ELSE "repeat"
Deployed == IF Enabled("eval") THEN "repeat" ELSE "unassign"
Built == IF plan.buildOnly \/ {"deploy", "eval"} \subseteq plan.skip
         THEN AfterTargets ELSE "assign"
Configured == IF Enabled("build") THEN "build" ELSE Built

\* All methods of the phase p ended.
Returned(p) == stage = p /\ left = <<>> /\ ~pool

\* A method called in its turn ends as o; it may have appended a testcase to be
\* run next.  One that ends badly stops the rest, but for an isolated subcase.
Method(o) ==
    /\ stage \in Bases /\ left # <<>>
    /\ LET m == Head(left)
           stops == o \in Bad /\ m \notin Isolated
       IN  /\ left' = IF stops THEN <<>> ELSE Tail(left)
           /\ pool' = (pool /\ ~stops)
           /\ subs' = IF m \in Isolated THEN [subs EXCEPT ![m] = {o}] ELSE subs
    /\ ret' = ret \cup {o}
    /\ bad' = IF o \in Bad THEN bad \cup {stage} ELSE bad
    /\ up' = (up \/ stage \in {"setup", "start", "eval"})
    /\ \/ posts' = posts
       \/ stage = "eval" /\ posts < MaxPosts /\ posts' = posts + 1
    /\ UNCHANGED <<plan, stage, result, count, sum, all, ran, total, exit, masked,
                   targets, interrupted>>

\* The methods that take one target run at once, outs[i] what the i-th did.  All
\* are waited for, but the first exception found is raised again, and what it
\* stands for is then the result of the whole phase.
Pool(outs) ==
    /\ stage \in Bases /\ left = <<>> /\ pool /\ pool' = FALSE
    /\ LET ended == {outs[i].kind : i \in DOMAIN outs}
           raised == {i \in DOMAIN outs : outs[i].raised}
           of(m) == {outs[i].kind : i \in {j \in DOMAIN outs : Parallel[stage][j] = m}}
       IN  /\ \/ raised = {} /\ ret' = ret \cup ended
              \/ \E first \in raised :
                    (\A j \in raised : first <= j) /\ ret' = {outs[first].kind}
           /\ bad' = IF Fine(ended) THEN bad ELSE bad \cup {stage}
           /\ masked' = IF Fine(ret') /\ ~Fine(ret \cup ended)
                        THEN masked \cup {stage} ELSE masked
           /\ subs' = [m \in Isolated |-> IF of(m) = {} THEN subs[m] ELSE of(m)]
    /\ UNCHANGED <<plan, stage, left, result, count, sum, all, posts, ran, total,
                   exit, up, targets, interrupted>>

\* A subcase catches its own exceptions.
ThreadEnds(b) ==
    {outs \in [DOMAIN Parallel[b] -> [kind : Ways, raised : BOOLEAN]] :
        \A i \in DOMAIN outs : Parallel[b][i] \in Isolated => ~outs[i].raised}

RunMethods ==
    \/ \E o \in Ways : Method(o)
    \/ stage \in Bases /\ \E outs \in ThreadEnds(stage) : Pool(outs)

\* _run() takes the next testcase; a hook of the site may raise.
Begin ==
    /\ stage = "begin"
    /\ \/ result' = {} /\ Goto(IF Enabled("configure") THEN "configure" ELSE Configured)
       \/ result' = {"blocked"} /\ Goto("completed")
    /\ UNCHANGED <<plan, subs, count, sum, all, posts, ran, total, exit, bad, masked, up,
                   targets, interrupted>>

\* A phase ended and its result is now r: the next one, or cleaning.
Ends(p, r, next) ==
    /\ Returned(p) /\ result' = r
    /\ Goto(IF Fine(ret) THEN next ELSE
            IF p = "deploy" THEN "unassign" ELSE AfterTargets)
    /\ UNCHANGED <<plan, subs, count, sum, all, posts, ran, total, exit, bad, masked, up,
                   targets, interrupted>>

ConfigureEnds == Ends("configure", result \cup ret, Configured)
BuildEnds == Ends("build", ret, Built)
DeployEnds == Ends("deploy", result \cup ret, Deployed)

\* _do_the_eval(): the next repetition, or the result of all of them.
Repeat ==
    /\ stage = "repeat"
    /\ IF count < Repeats
       THEN /\ Goto(IF Serial["eval"] # <<>> THEN "setup" ELSE "repeated")
            /\ UNCHANGED <<result, count, all>>
       ELSE /\ result' = result \cup Summary(all) /\ count' = 0 /\ all' = {}
            /\ Goto("unassign")
    /\ UNCHANGED <<plan, subs, sum, posts, ran, total, exit, bad, masked, up, targets,
                   interrupted>>

\* (mutant) what is not well started is not torn down
EvalStepEndsAtOnce(p, next) ==
    /\ Returned(p) /\ sum' = sum \cup ret
    /\ Goto(IF Fine(ret) THEN next ELSE "repeated")
    /\ UNCHANGED <<plan, result, subs, count, all, posts, ran, total, exit, bad, masked, up,
                   targets, interrupted>>

\* setup and start go on if they went well, and otherwise, as eval, to teardown.
EvalStepEnds(p, next) ==
    /\ Returned(p) /\ sum' = sum \cup ret
    /\ Goto(IF Fine(ret) THEN next ELSE "teardown")
    /\ UNCHANGED <<plan, result, subs, count, all, posts, ran, total, exit, bad, masked, up,
                   targets, interrupted>>

SetupEnds == EvalStepEnds("setup", "start")
StartEnds == EvalStepEnds("start", "eval")
EvalEnds == EvalStepEnds("eval", "teardown")

\* What the teardown returns counts for nothing.
TeardownEnds ==
    /\ Returned("teardown") /\ up' = FALSE /\ Goto("repeated")
    /\ UNCHANGED <<plan, result, subs, count, sum, all, posts, ran, total, exit, bad, masked,
                   targets, interrupted>>

\* (mutant) only the last repetition counts
RepeatedLast ==
    /\ stage = "repeated" /\ all' = sum /\ sum' = {} /\ count' = count + 1
    /\ Goto("repeat")
    /\ UNCHANGED <<plan, result, subs, posts, ran, total, exit, bad, masked, up,
                   targets, interrupted>>

Repeated ==
    /\ stage = "repeated" /\ all' = all \cup sum /\ sum' = {} /\ count' = count + 1
    /\ Goto("repeat")
    /\ UNCHANGED <<plan, result, subs, posts, ran, total, exit, bad, masked, up,
                   targets, interrupted>>

CleanEnds ==
    /\ Returned("clean") /\ result' = result \cup (ret \cap Bad) /\ Goto("completed")
    /\ UNCHANGED <<plan, subs, count, sum, all, posts, ran, total, exit, bad, masked, up,
                   targets, interrupted>>

\* The testcase and its subcases count; then the testcases appended to it and,
\* when all processes are done, what the class has to tear down.
Complete ==
    /\ stage = "completed" /\ ran' = ran + 1
    /\ total' = total \cup Summary(result) \cup UNION {subs[m] : m \in Isolated}
    /\ result' = {} /\ subs' = Subcases /\ allocid' = 0
    /\ Goto(IF ran < posts THEN "begin" ELSE "class_teardown")
    /\ UNCHANGED <<plan, count, sum, all, posts, exit, bad, masked, up, alloc, fresh, registry,
                   mutex, keeper, interrupted>>

ExitCode(r) == IF r \cap {"errors", "failed"} # {} THEN 1
               ELSE IF "blocked" \in r THEN 127 ELSE 0

Exit ==
    /\ Returned("class_teardown") /\ total' = total \cup ret
    /\ exit' = ExitCode(total') /\ Goto("exited")
    /\ UNCHANGED <<plan, result, subs, count, sum, all, posts, ran, bad, masked, up, targets,
                   interrupted>>

RunPhases ==
    \/ RunMethods \/ Begin \/ ConfigureEnds \/ BuildEnds \/ DeployEnds \/ CleanEnds
    \/ Repeat \/ SetupEnds \/ StartEnds \/ EvalEnds \/ TeardownEnds \/ Repeated
    \/ Complete \/ Exit
-----------------------------------------------------------------------------
\* _targets_assign(), before the phases that use the targets and after them.
Assigning(next) == Goto(next) /\ UNCHANGED <<plan, subs, count, sum, all, posts, ran, total,
                                             exit, bad, masked, up, interrupted>>
Going(next) == Assigning(next) /\ UNCHANGED result
\* It raises: the testcase is blocked.
Blocks == Assigning(AfterTargets) /\ result' = result \cup {"blocked"}

NoTargets == stage = "assign" /\ ~plan.acquires /\ Going(Assigned) /\ UNCHANGED targets

\* The server creates the allocation and answers.
Ask(n) ==
    /\ stage = "assign" /\ plan.acquires /\ n \in Allocs
    /\ \A k \in Allocs : (alloc[k] = "none") = (k >= n)
    /\ allocid' = n /\ fresh' = fresh \cup {n}
    /\ \/ alloc' = [alloc EXCEPT ![n] = "queued"] /\ Going("queue")
       \/ alloc' = [alloc EXCEPT ![n] = "active"] /\ Going("granted")
    /\ UNCHANGED <<registry, mutex, keeper>>

\* It does not, or its answer is lost, or targets of several servers are needed.
AskFails(n) ==
    /\ stage = "assign" /\ plan.acquires /\ Blocks
    /\ n \in Allocs /\ \A k \in Allocs : (alloc[k] = "none") = (k >= n)
    /\ \/ UNCHANGED <<alloc, fresh>>
       \/ /\ \E s \in Live : alloc' = [alloc EXCEPT ![n] = s]
          /\ fresh' = fresh \cup {n}
    /\ UNCHANGED <<allocid, registry, mutex, keeper>>

\* In the queue, each request that arrives keeps it alive and brings its state.
Poll ==
    /\ stage = "queue" /\ UNCHANGED <<allocid, alloc, registry, mutex, keeper>>
    /\ \/ alloc[allocid] = "active" /\ Going("granted")
       \/ alloc[allocid] = "queued" /\ UNCHANGED <<plan, phase, results, interrupted>>
       \/ alloc[allocid] = "gone" /\ Blocks
    /\ fresh' = fresh \cup ({allocid} \cap {n \in Allocs : alloc[n] \in Live})

\* It waited, or was refused answers, for too long: it forgets the allocation.
GiveUp == stage = "queue" /\ Blocks /\ UNCHANGED targets

\* With the mutex held, it says which allocation it holds.
TakeMutex ==
    /\ \/ stage = "granted" /\ Going("register")
       \/ stage = "stopping" /\ keeper = "off"
          /\ Going(IF plan.release THEN "unregister" ELSE AfterTargets)
    /\ mutex' = (stage = "granted" \/ plan.release)
    /\ UNCHANGED <<allocid, alloc, fresh, registry, keeper>>

\* From here on a thread keeps alive what the process holds.
Register ==
    /\ stage = "register" /\ registry' = registry \cup {allocid} /\ mutex' = FALSE
    /\ keeper' = "on" /\ Going(Assigned)
    /\ UNCHANGED <<allocid, alloc, fresh>>

\* The thread is told to end and waited for: it sleeps ten seconds between rounds.
Unassign ==
    /\ stage = "unassign"
    /\ IF plan.acquires THEN keeper' = "ending" /\ Going("stopping")
       ELSE Going(AfterTargets) /\ UNCHANGED keeper
    /\ UNCHANGED <<allocid, alloc, fresh, registry, mutex>>

Unregister ==
    /\ stage = "unregister" /\ registry' = registry \ {allocid} /\ mutex' = FALSE
    /\ Going("delete") /\ UNCHANGED <<allocid, alloc, fresh, keeper>>

Ended(ids) ==
    /\ alloc' = [n \in Allocs |-> IF n \in ids THEN "gone" ELSE alloc[n]]
    /\ fresh' = fresh \ ids

\* The server deletes the allocation, or is not there and nobody cares, or does
\* not answer in time, which raises.
Delete ==
    /\ stage = "delete" /\ UNCHANGED <<allocid, registry, mutex, keeper>>
    /\ \E ids \in SUBSET {allocid} : Ended(ids)
    /\ Going(AfterTargets) \/ Blocks

RunTargets ==
    \/ NoTargets \/ (\E n \in Allocs : Ask(n) \/ AskFails(n)) \/ Poll \/ TakeMutex
    \/ Register \/ Unassign \/ Unregister \/ Delete
-----------------------------------------------------------------------------
\* The thread that keeps alive all that the process holds; a request may be lost.
KeepAlive ==
    /\ keeper # "off" /\ ~mutex
    /\ fresh' = fresh \cup {n \in registry : alloc[n] \in Live}
    /\ UNCHANGED <<plan, phase, results, allocid, alloc, registry, mutex, keeper, interrupted>>

\* (mutant) the thread goes on while there is something to keep alive
KeeperEndsWhenEmpty ==
    /\ keeper = "ending" /\ registry = {} /\ keeper' = "off"
    /\ UNCHANGED <<plan, phase, results, allocid, alloc, fresh, registry, mutex, interrupted>>

KeeperEnds ==
    /\ keeper = "ending" /\ keeper' = "off"
    /\ UNCHANGED <<plan, phase, results, allocid, alloc, fresh, registry, mutex, interrupted>>

\* The signal reaches all processes of the group.
Interrupt ==
    /\ MayInterrupt /\ ~interrupted /\ stage # "exited" /\ interrupted' = TRUE
    /\ UNCHANGED <<plan, phase, results, targets>>

Forget ==
    /\ result' = {} /\ subs' = Subcases /\ count' = 0 /\ sum' = {} /\ all' = {}
    /\ posts' = 0 /\ ran' = 0 /\ total' = {} /\ exit' = -1
    /\ bad' = {} /\ masked' = {} /\ up' = FALSE

\* In this one, the handler runs in the thread of the testcase, wherever that is,
\* and never returns to it.
HandlerStarts ==
    /\ interrupted /\ stage \notin Handler \cup {"exited"} /\ Goto("copy")
    /\ Forget /\ UNCHANGED <<plan, targets, interrupted>>

\* If the thread it interrupts has the mutex, it waits for itself.
HandlerCopies ==
    /\ stage = "copy" /\ (plan.release => ~mutex)
    /\ Goto(IF plan.release THEN "drop" ELSE "kill")
    /\ UNCHANGED <<plan, results, targets, interrupted>>

HandlerDeletes ==
    /\ stage = "drop" /\ Goto("kill") /\ registry' = {}
    /\ \E ids \in SUBSET registry : Ended(ids)
    /\ UNCHANGED <<plan, results, allocid, mutex, keeper, interrupted>>

\* os.kill(0, 9), here or in another process of the group, whose own handler does
\* not wait for this one; the main process also terminates the pool.
Killed ==
    /\ interrupted /\ stage \notin {"killed", "exited"} /\ Goto("killed")
    /\ Forget /\ allocid' = 0
    /\ registry' = {} /\ mutex' = FALSE /\ keeper' = "off"
    /\ UNCHANGED <<plan, alloc, fresh, interrupted>>

Handle == HandlerStarts \/ HandlerCopies \/ HandlerDeletes
-----------------------------------------------------------------------------
\* The server: it grants, and ends what is preempted, removed or not kept alive.
Grant(n) ==
    /\ alloc[n] = "queued" /\ alloc' = [alloc EXCEPT ![n] = "active"]
    /\ UNCHANGED <<plan, phase, results, allocid, fresh, registry, mutex, keeper, interrupted>>

Ages(n) ==
    /\ n \in fresh /\ fresh' = fresh \ {n}
    /\ UNCHANGED <<plan, phase, results, allocid, alloc, registry, mutex, keeper, interrupted>>

Removed(n) ==
    /\ alloc[n] \in Live /\ Ended({n})
    /\ UNCHANGED <<plan, phase, results, allocid, registry, mutex, keeper, interrupted>>

Expires(n) == n \notin fresh /\ Removed(n)

Server == \E n \in Allocs : Grant(n) \/ Ages(n) \/ Removed(n)

Next ==
    \/ RunPhases \/ RunTargets \/ GiveUp \/ KeepAlive \/ KeeperEnds
    \/ Interrupt \/ Handle \/ Killed \/ Server

Spec == Init /\ [][Next]_vars

\* Methods end, the operating system runs the threads, the time in the queue is
\* bounded (assign_timeout), and the server expires what nobody keeps alive.
FairSpec ==
    /\ Spec /\ WF_vars(RunPhases \/ RunTargets) /\ WF_vars(GiveUp) /\ WF_vars(KeeperEnds)
    /\ WF_vars(Killed) /\ \A n \in Allocs : WF_vars(Ages(n)) /\ WF_vars(Expires(n))
=============================================================================
