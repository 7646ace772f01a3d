---------------------------- MODULE TestRunProofs ----------------------------
(* Theorems about TestRun for any testcase, options, repetitions and          *)
(* testcases appended: its failures reach the exit code and its targets are   *)
(* held while they are used.                                                  *)
EXTENDS TestRunProperties, TLAPS

\* What a phase returned is of no more than the kinds there are, and a phase one
\* of whose methods ended badly is remembered.
RetSaid == ~Fine(ret) => stage \in bad

\* There is one more testcase to run until the last has completed.
InTurn == stage \notin {"class_teardown", "exited"} => ran <= posts

\* A repetition is only begun while there are some left.
OneLeft == stage \in Evaluation \cup {"repeated"} => count < Repeats

\* A testcase that waits for its allocation knows which one it is.
Asked == stage \in {"queue", "granted", "register"} => allocid \in Allocs

TypeInv == TypeOK /\ RetSaid /\ InTurn /\ OneLeft /\ Asked

-----------------------------------------------------------------------------
(* Typing.                                                                   *)

LEMMA PhasesAreStages ==
    /\ Bases \subseteq Stages /\ Evaluation \subseteq Bases
    /\ Handler \subseteq Stages /\ Handler \cap Bases = {}
  BY DEF Bases, Stages, Evaluation, Handler, Phases

\* The next stage begins with nothing returned.
LEMMA GotoTyped ==
    ASSUME NEW s \in Stages, Goto(s)
    PROVE  /\ stage' = s /\ ret' = {} /\ Fine(ret')
           /\ left' \in Seq(Methods) /\ pool' \in BOOLEAN
<1>1. <<>> \in Seq(Methods)
  OBVIOUS
<1>2. left' \in Seq(Methods)
  BY <1>1, RunInput DEF Goto
<1> QED BY <1>2 DEF Goto, Fine

\* What the options lead to.
LEMMA NextStages ==
    /\ AfterTargets \in {"clean", "completed"}
    /\ Assigned \in {"deploy", "repeat"}
    /\ Deployed \in {"repeat", "unassign"}
    /\ Built \in {"clean", "completed", "assign"}
    /\ Configured \in {"build", "clean", "completed", "assign"}
  BY DEF AfterTargets, Assigned, Deployed, Built, Configured

LEMMA SummaryTyped ==
    ASSUME NEW r \in SUBSET Kinds
    PROVE  /\ Summary(r) \in SUBSET Kinds
           /\ Fine(Summary(r)) <=> Fine(r)
  BY DEF Summary, Kinds, Fine, Bad

\* A method in its turn.
LEMMA MethodTyped ==
    ASSUME TypeInv, NEW o \in Ways, Method(o)
    PROVE  TypeInv'
<1> USE DEF TypeInv, TypeOK
<1>1. o \in Kinds /\ stage \in Bases
  BY RunInput DEF Method
<1>2. PhaseTyped'
  BY <1>1 DEF Method, PhaseTyped
<1>3. subs' \in [Isolated -> SUBSET Kinds]
  BY <1>1 DEF Method, ResultsTyped
<1>4. bad' \in SUBSET Bases /\ masked' \in SUBSET bad' /\ up' \in BOOLEAN
  BY <1>1 DEF Method, ResultsTyped
<1>5. posts' \in 0 .. MaxPosts /\ ran' \in 0 .. posts' + 1 /\ InTurn'
  BY RunInput DEF Method, ResultsTyped, InTurn
<1>6. RetSaid'
  BY <1>1 DEF Method, RetSaid, Fine, Bad
<1>7. ResultsTyped' /\ TargetsTyped'
  BY <1>3, <1>4, <1>5 DEF Method, ResultsTyped, TargetsTyped, targets
<1>8. OneLeft' /\ Asked'
  BY DEF Method, OneLeft, Asked, targets, Allocs
<1> QED BY <1>2, <1>5, <1>6, <1>7, <1>8

\* The parallel ones.
LEMMA PoolTyped ==
    ASSUME TypeInv, stage \in Bases, NEW outs \in ThreadEnds(stage), Pool(outs)
    PROVE  TypeInv'
<1> USE DEF TypeInv, TypeOK
<1> DEFINE ended == {outs[i].kind : i \in DOMAIN outs}
<1>1. \A i \in DOMAIN outs : outs[i].kind \in Kinds
  BY RunInput DEF ThreadEnds
<1>2. ended \subseteq Kinds
  BY <1>1
<1>3. \/ ret' = ret \cup ended
      \/ \E i \in DOMAIN outs : ret' = {outs[i].kind}
  BY DEF Pool
<1>4. ret' \subseteq ret \cup ended
  BY <1>3
<1>5. PhaseTyped'
  BY <1>2, <1>4 DEF PhaseTyped, Pool
<1>6. subs' \in [Isolated -> SUBSET Kinds]
  <2>1. \A m \in Isolated : subs[m] \in SUBSET Kinds
    BY DEF ResultsTyped
  <2> QED BY <1>1, <2>1 DEF Pool
<1>7. bad' = (IF Fine(ended) THEN bad ELSE bad \cup {stage})
  BY DEF Pool
<1>8. RetSaid'
  <2>1. stage' = stage
    BY DEF Pool
  <2>2. ~Fine(ret') => ~Fine(ret) \/ ~Fine(ended)
    BY <1>4 DEF Fine
  <2> QED BY <1>7, <2>1, <2>2 DEF RetSaid
<1>9. bad' \in SUBSET Bases /\ masked' \in SUBSET bad'
  <2>1. ~Fine(ret \cup ended) => stage \in bad'
    BY <1>7 DEF RetSaid, Fine
  <2>2. masked' = masked \/ (masked' = masked \cup {stage} /\ ~Fine(ret \cup ended))
    BY DEF Pool
  <2>3. bad \in SUBSET Bases /\ masked \in SUBSET bad
    BY DEF ResultsTyped
  <2> HIDE DEF ended
  <2>4. bad \subseteq bad' /\ bad' \subseteq Bases
    BY <1>7, <2>3
  <2> QED BY <2>1, <2>2, <2>3, <2>4
<1>10. ResultsTyped'
  BY <1>6, <1>9 DEF Pool, ResultsTyped
<1>11. TargetsTyped'
  BY DEF Pool, TargetsTyped, targets
<1>12. InTurn' /\ OneLeft' /\ Asked'
  BY DEF Pool, InTurn, OneLeft, Asked, targets, Allocs
<1> QED BY <1>5, <1>8, <1>10, <1>11, <1>12

\* Going from one stage to another.
LEMMA MoveTyped ==
    ASSUME TypeInv, NEW s \in Stages, Goto(s), plan' = plan, interrupted' \in BOOLEAN
    PROVE  PhaseTyped' /\ RetSaid'
  BY GotoTyped DEF TypeInv, TypeOK, PhaseTyped, RetSaid

LEMMA BeginTyped == ASSUME TypeInv, Begin PROVE TypeInv'
<1> USE DEF TypeInv, TypeOK
<1>1. PICK s \in {"configure", "build", "clean", "completed", "assign"} : Goto(s)
  BY NextStages DEF Begin
<1>2. s \in Stages
  BY <1>1, PhasesAreStages DEF Stages, Bases, Phases
<1>3. PhaseTyped' /\ RetSaid'
  BY <1>1, <1>2, MoveTyped DEF Begin, PhaseTyped
<1>4. ResultsTyped' /\ TargetsTyped'
  <2>1. result' \in SUBSET Kinds
    BY DEF Begin, Kinds
  <2>2. UNCHANGED <<subs, count, sum, all, posts, ran, total, exit, bad, masked, up, targets>>
    BY DEF Begin
  <2>3. ResultsTyped'
    BY <2>1, <2>2 DEF ResultsTyped
  <2>4. TargetsTyped'
    BY <2>2 DEF TargetsTyped, targets
  <2> QED BY <2>3, <2>4
<1>5. InTurn' /\ OneLeft' /\ Asked'
  BY <1>1, <1>2, GotoTyped DEF Begin, InTurn, OneLeft, Asked, Evaluation
<1> QED BY <1>3, <1>4, <1>5

\* What is done with a phase that returned.
LEMMA EndsTyped ==
    ASSUME TypeInv, NEW p \in Bases, NEW r \in SUBSET Kinds, p # "class_teardown",
           NEW next \in {"build", "clean", "completed", "assign", "repeat", "unassign"},
           Ends(p, r, next)
    PROVE  TypeInv'
<1> USE DEF TypeInv, TypeOK
<1>1. PICK s \in {"build", "clean", "completed", "assign", "repeat", "unassign"} : Goto(s)
  BY NextStages DEF Ends
<1>2. s \in Stages
  BY <1>1, PhasesAreStages DEF Stages, Bases, Phases
<1>3. PhaseTyped' /\ RetSaid'
  BY <1>1, <1>2, MoveTyped DEF Ends, PhaseTyped
<1>4. ResultsTyped' /\ TargetsTyped'
  BY DEF Ends, ResultsTyped, TargetsTyped, targets
<1>5. InTurn' /\ OneLeft' /\ Asked'
  <2>1. stage \notin {"class_teardown", "exited"}
    BY DEF Ends, Returned, Bases, Phases
  <2> QED BY <1>1, <1>2, <2>1, GotoTyped DEF Ends, InTurn, OneLeft, Asked, Evaluation
<1> QED BY <1>3, <1>4, <1>5

LEMMA EvalStepTyped ==
    ASSUME TypeInv, NEW p \in Evaluation, NEW next \in Evaluation, EvalStepEnds(p, next)
    PROVE  TypeInv'
<1> USE DEF TypeInv, TypeOK
<1>1. PICK s \in Evaluation : Goto(s)
  BY DEF EvalStepEnds, Evaluation
<1>2. s \in Stages
  BY PhasesAreStages
<1>3. PhaseTyped' /\ RetSaid'
  BY <1>1, <1>2, MoveTyped DEF EvalStepEnds, PhaseTyped
<1>4. ResultsTyped' /\ TargetsTyped'
  BY DEF EvalStepEnds, ResultsTyped, TargetsTyped, targets, PhaseTyped
<1>5. InTurn' /\ OneLeft' /\ Asked'
  <2>1. stage \notin {"class_teardown", "exited"} /\ count < Repeats
    BY DEF EvalStepEnds, Returned, Evaluation, OneLeft
  <2> QED BY <1>1, <1>2, <2>1, GotoTyped DEF EvalStepEnds, InTurn, OneLeft, Asked, Evaluation
<1> QED BY <1>3, <1>4, <1>5

LEMMA RepeatTyped == ASSUME TypeInv, Repeat PROVE TypeInv'
<1> USE DEF TypeInv, TypeOK
<1>1. PICK s \in {"setup", "repeated", "unassign"} :
          Goto(s) /\ (s # "unassign" => count < Repeats /\ count' = count)
  BY DEF Repeat
<1>2. s \in Stages
  BY PhasesAreStages DEF Stages, Bases
<1>3. PhaseTyped' /\ RetSaid'
  BY <1>1, <1>2, MoveTyped DEF Repeat, PhaseTyped
<1>4. Summary(all) \in SUBSET Kinds
  BY SummaryTyped DEF ResultsTyped
<1>5. ResultsTyped' /\ TargetsTyped'
  BY <1>4, RunInput DEF Repeat, ResultsTyped, TargetsTyped, targets
<1>6. InTurn' /\ OneLeft' /\ Asked'
  BY <1>1, <1>2, GotoTyped DEF Repeat, InTurn, OneLeft, Asked, Evaluation
<1> QED BY <1>3, <1>5, <1>6

\* The end of a repetition, and what follows the last.
LEMMA RepeatedTyped ==
    ASSUME TypeInv, TeardownEnds \/ Repeated \/ CleanEnds
    PROVE  TypeInv'
<1> USE DEF TypeInv, TypeOK
<1>1. PICK s \in {"repeated", "repeat", "completed"} :
          Goto(s) /\ (s = "repeated" => TeardownEnds)
  BY DEF TeardownEnds, Repeated, CleanEnds
<1>2. s \in Stages
  BY PhasesAreStages DEF Stages
<1>3. PhaseTyped' /\ RetSaid'
  BY <1>1, <1>2, MoveTyped DEF TeardownEnds, Repeated, CleanEnds, PhaseTyped
<1>4. count' \in 0 .. Repeats
  BY RunInput DEF TeardownEnds, Repeated, CleanEnds, ResultsTyped, OneLeft
<1>5. ResultsTyped' /\ TargetsTyped'
  <2>1. CASE TeardownEnds
    BY <2>1 DEF TeardownEnds, ResultsTyped, TargetsTyped, targets
  <2>2. CASE Repeated
    BY <1>4, <2>2 DEF Repeated, ResultsTyped, TargetsTyped, targets
  <2>3. CASE CleanEnds
    BY <2>3 DEF CleanEnds, ResultsTyped, TargetsTyped, targets, PhaseTyped
  <2> QED BY <2>1, <2>2, <2>3
<1>6. InTurn' /\ OneLeft' /\ Asked'
  BY <1>1, <1>2, GotoTyped
  DEF TeardownEnds, Repeated, CleanEnds, Returned, InTurn, OneLeft, Asked, Evaluation
<1> QED BY <1>3, <1>5, <1>6

LEMMA CompleteTyped == ASSUME TypeInv, Complete PROVE TypeInv'
<1> USE DEF TypeInv, TypeOK
<1>1. PICK s \in {"begin", "class_teardown"} : Goto(s) /\ (s = "begin" => ran < posts)
  BY DEF Complete
<1>2. s \in Stages
  BY PhasesAreStages DEF Stages, Bases
<1>3. PhaseTyped' /\ RetSaid'
  BY <1>1, <1>2, MoveTyped DEF Complete, PhaseTyped
<1>4. Summary(result) \in SUBSET Kinds /\ UNION {subs[m] : m \in Isolated} \in SUBSET Kinds
  BY SummaryTyped DEF ResultsTyped
<1>5. posts \in Nat /\ ran \in Nat /\ ran <= posts
  BY RunInput DEF Complete, InTurn, ResultsTyped
<1>6. ResultsTyped' /\ TargetsTyped'
  <2>1. total' \in SUBSET Kinds
    BY <1>4 DEF Complete, ResultsTyped
  <2>2. ran' \in 0 .. posts' + 1
    BY <1>5 DEF Complete
  <2> QED BY <2>1, <2>2 DEF Complete, ResultsTyped, TargetsTyped, Subcases
<1>7. InTurn' /\ OneLeft' /\ Asked'
  BY <1>1, <1>2, <1>5, GotoTyped DEF Complete, InTurn, OneLeft, Asked, Evaluation
<1> QED BY <1>3, <1>6, <1>7

LEMMA ExitTyped == ASSUME TypeInv, Exit PROVE TypeInv'
<1> USE DEF TypeInv, TypeOK
<1>1. Goto("exited") /\ "exited" \in Stages
  BY DEF Exit, Stages
<1>2. PhaseTyped' /\ RetSaid'
  BY <1>1, MoveTyped DEF Exit, PhaseTyped
<1>3. ResultsTyped' /\ TargetsTyped'
  BY DEF Exit, ExitCode, ResultsTyped, TargetsTyped, targets, PhaseTyped
<1>4. InTurn' /\ OneLeft' /\ Asked'
  BY <1>1, GotoTyped DEF InTurn, OneLeft, Asked, Evaluation
<1> QED BY <1>2, <1>3, <1>4

LEMMA PhasesTyped == ASSUME TypeInv, RunPhases PROVE TypeInv'
<1>1. CASE RunMethods
  BY <1>1, MethodTyped, PoolTyped DEF RunMethods
<1>2. CASE ConfigureEnds \/ BuildEnds \/ DeployEnds
  <2>1. result \cup ret \in SUBSET Kinds /\ ret \in SUBSET Kinds
    BY DEF TypeInv, TypeOK, ResultsTyped, PhaseTyped
  <2>2. {"configure", "build", "deploy"} \subseteq Bases
    BY DEF Bases, Phases
  <2> QED BY <1>2, <2>1, <2>2, NextStages, EndsTyped DEF ConfigureEnds, BuildEnds, DeployEnds
<1>3. CASE SetupEnds \/ StartEnds \/ EvalEnds
  BY <1>3, EvalStepTyped DEF SetupEnds, StartEnds, EvalEnds, Evaluation
<1> QED BY <1>1, <1>2, <1>3, BeginTyped, RepeatTyped, RepeatedTyped, CompleteTyped, ExitTyped
        DEF RunPhases

-----------------------------------------------------------------------------
(* The targets, the keeper, the interruption and the server.                 *)

LEMMA EndedTyped ==
    ASSUME TypeInv, NEW ids, Ended(ids)
    PROVE  alloc' \in [Allocs -> Live \cup {"none", "gone"}] /\ fresh' \in SUBSET Allocs
  BY DEF Ended, TypeInv, TypeOK, TargetsTyped

\* _targets_assign() goes to the stage s, and keeps what it knows of the results.
LEMMA AssigningTyped ==
    ASSUME TypeInv, NEW s \in {"deploy", "repeat", "queue", "granted", "register", "stopping",
                               "unregister", "delete", "clean", "completed"},
           Going(s) \/ (Assigning(s) /\ result' = result \cup {"blocked"}),
           stage \notin {"class_teardown", "exited"}
    PROVE  PhaseTyped' /\ RetSaid' /\ ResultsTyped' /\ InTurn' /\ OneLeft' /\ stage' = s
<1> USE DEF TypeInv, TypeOK
<1>1. Goto(s) /\ s \in Stages /\ Assigning(s)
  BY PhasesAreStages DEF Stages, Bases, Phases, Going, Assigning
<1>2. PhaseTyped' /\ RetSaid'
  BY <1>1, MoveTyped DEF Assigning, PhaseTyped
<1>3. ResultsTyped'
  <2>1. result' \in SUBSET Kinds
    BY DEF ResultsTyped, Kinds, Going
  <2> QED BY <1>1, <2>1 DEF Assigning, ResultsTyped
<1>4. InTurn' /\ OneLeft' /\ stage' = s
  BY <1>1, GotoTyped DEF Assigning, InTurn, OneLeft, Evaluation
<1> QED BY <1>2, <1>3, <1>4

LEMMA AskTyped == ASSUME TypeInv, NEW n \in Allocs, Ask(n) \/ AskFails(n) PROVE TypeInv'
<1> USE DEF TypeInv, TypeOK
<1>1. PICK s \in {"queue", "granted", "clean", "completed"} :
         /\ Going(s) \/ (Assigning(s) /\ result' = result \cup {"blocked"})
         /\ s \in {"queue", "granted"} => Ask(n)
  BY NextStages DEF Ask, AskFails, Blocks
<1>2. stage = "assign"
  BY DEF Ask, AskFails
<1>3. PhaseTyped' /\ RetSaid' /\ ResultsTyped' /\ InTurn' /\ OneLeft' /\ stage' = s
  BY <1>1, <1>2, AssigningTyped
<1>4. TargetsTyped'
  BY DEF Ask, AskFails, TargetsTyped, Live
<1>5. Asked'
  BY <1>1, <1>3 DEF Asked, Ask, Allocs
<1> QED BY <1>3, <1>4, <1>5

LEMMA PollTyped == ASSUME TypeInv, Poll \/ GiveUp \/ NoTargets PROVE TypeInv'
<1> USE DEF TypeInv, TypeOK
<1>1. CASE Poll /\ UNCHANGED <<plan, phase, results, interrupted>>
  BY <1>1 DEF Poll, phase, results, PhaseTyped, ResultsTyped, TargetsTyped, RetSaid, InTurn,
              OneLeft, Asked, Allocs
<1>2. CASE ~(Poll /\ UNCHANGED <<plan, phase, results, interrupted>>)
  <2>1. PICK s \in {"granted", "deploy", "repeat", "clean", "completed"} :
           /\ Going(s) \/ (Assigning(s) /\ result' = result \cup {"blocked"})
           /\ s = "granted" => Poll
    BY <1>2, NextStages DEF Poll, GiveUp, NoTargets, Blocks
  <2>2. stage \in {"queue", "assign"}
    BY DEF Poll, GiveUp, NoTargets
  <2>3. PhaseTyped' /\ RetSaid' /\ ResultsTyped' /\ InTurn' /\ OneLeft' /\ stage' = s
    BY <2>1, <2>2, AssigningTyped
  <2>4. TargetsTyped'
    BY DEF Poll, GiveUp, NoTargets, TargetsTyped, targets
  <2>5. Asked'
    BY <2>1, <2>3 DEF Asked, Poll, Allocs
  <2> QED BY <2>3, <2>4, <2>5
<1> QED BY <1>1, <1>2

LEMMA HeldTyped ==
    ASSUME TypeInv, TakeMutex \/ Register \/ Unassign \/ Unregister \/ Delete
    PROVE  TypeInv'
<1> USE DEF TypeInv, TypeOK
<1>1. PICK s \in {"register", "unregister", "clean", "completed", "deploy", "repeat", "stopping",
                  "delete"} :
         /\ Going(s) \/ (Assigning(s) /\ result' = result \cup {"blocked"})
         /\ s = "register" => stage = "granted" /\ allocid' = allocid
  BY NextStages DEF TakeMutex, Register, Unassign, Unregister, Delete, Blocks
<1>2. stage \in {"granted", "register", "unassign", "stopping", "unregister", "delete"}
  BY DEF TakeMutex, Register, Unassign, Unregister, Delete
<1>3. PhaseTyped' /\ RetSaid' /\ ResultsTyped' /\ InTurn' /\ OneLeft' /\ stage' = s
  BY <1>1, <1>2, AssigningTyped
<1>4. TargetsTyped'
  <2>1. CASE Delete
    BY <2>1, EndedTyped DEF Delete, TargetsTyped
  <2>2. CASE Register
    BY <2>2 DEF Register, TargetsTyped, Asked
  <2>3. CASE TakeMutex \/ Unassign \/ Unregister
    BY <2>3, RunInput DEF TakeMutex, Unassign, Unregister, TargetsTyped, PhaseTyped
  <2> QED BY <2>1, <2>2, <2>3
<1>5. Asked'
  BY <1>1, <1>3 DEF Asked, Allocs
<1> QED BY <1>3, <1>4, <1>5

LEMMA RunTargetsTyped == ASSUME TypeInv, RunTargets \/ GiveUp PROVE TypeInv'
  BY AskTyped, PollTyped, HeldTyped DEF RunTargets

\* Nothing of this moves the testcase, but for the end of it.
LEMMA ServerTyped ==
    ASSUME TypeInv, KeepAlive \/ KeeperEnds \/ Interrupt \/ Server
    PROVE  TypeInv'
<1> USE DEF TypeInv, TypeOK
<1>1. /\ UNCHANGED <<plan, phase, results, allocid, registry, mutex>>
      /\ interrupted' \in BOOLEAN /\ keeper' \in {"off", "on", "ending"}
  BY DEF KeepAlive, KeeperEnds, Interrupt, Server, Grant, Ages, Removed, targets, PhaseTyped,
         TargetsTyped
<1>2. alloc' \in [Allocs -> Live \cup {"none", "gone"}] /\ fresh' \in SUBSET Allocs
  <2>1. CASE \E n \in Allocs : Removed(n)
    BY <2>1, EndedTyped DEF Removed
  <2>2. CASE KeepAlive \/ KeeperEnds \/ Interrupt \/ \E n \in Allocs : Grant(n) \/ Ages(n)
    BY <2>2 DEF KeepAlive, KeeperEnds, Interrupt, Grant, Ages, targets, TargetsTyped, Live
  <2> QED BY <2>1, <2>2 DEF Server
<1>3. PhaseTyped' /\ ResultsTyped' /\ TargetsTyped'
  BY <1>1, <1>2 DEF phase, results, PhaseTyped, ResultsTyped, TargetsTyped, Allocs
<1>4. RetSaid' /\ InTurn' /\ OneLeft' /\ Asked'
  BY <1>1 DEF phase, results, RetSaid, InTurn, OneLeft, Asked, Allocs
<1> QED BY <1>3, <1>4

LEMMA ForgetTyped ==
    ASSUME Forget
    PROVE  ResultsTyped' /\ ran' <= posts'
<1>1. Subcases \in [Isolated -> SUBSET Kinds]
  BY DEF Subcases
<1>2. 0 \in 0 .. Repeats /\ 0 \in 0 .. MaxPosts /\ 0 \in 0 .. 0 + 1
  BY RunInput
<1>3. ran' = 0 /\ posts' = 0 /\ subs' = Subcases /\ count' = 0 /\ up' = FALSE /\ exit' = -1
  BY DEF Forget
<1>4. /\ result' = {} /\ sum' = {} /\ all' = {} /\ total' = {} /\ bad' = {} /\ masked' = {}
  BY DEF Forget
<1>5. result' \in SUBSET Kinds /\ sum' \in SUBSET Kinds /\ all' \in SUBSET Kinds /\ total' \in SUBSET Kinds
  BY <1>4
<1>6. bad' \in SUBSET Bases /\ masked' \in SUBSET bad'
  BY <1>4
<1>7. ran' \in 0 .. posts' + 1
  BY <1>2, <1>3
<1>8. subs' \in [Isolated -> SUBSET Kinds] /\ exit' \in {-1, 0, 1, 127} /\ up' \in BOOLEAN
  BY <1>1, <1>3
<1>9. count' \in 0 .. Repeats /\ posts' \in 0 .. MaxPosts /\ ran' <= posts'
  BY <1>2, <1>3
<1> QED BY <1>5, <1>6, <1>7, <1>8, <1>9 DEF ResultsTyped

LEMMA HandleTyped == ASSUME TypeInv, Handle \/ Killed PROVE TypeInv'
<1> USE DEF TypeInv, TypeOK
<1>1. PICK s \in Handler : Goto(s)
  BY DEF Handle, HandlerStarts, HandlerCopies, HandlerDeletes, Killed, Handler
<1>2. s \in Stages /\ stage' = s
  BY <1>1, PhasesAreStages, GotoTyped
<1>3. PhaseTyped' /\ RetSaid'
  BY <1>1, <1>2, MoveTyped
  DEF Handle, HandlerStarts, HandlerCopies, HandlerDeletes, Killed, PhaseTyped
<1>4. ResultsTyped' /\ ran' <= posts'
  <2>1. CASE HandlerStarts \/ Killed
    BY <2>1, ForgetTyped DEF HandlerStarts, Killed
  <2>2. CASE HandlerCopies \/ HandlerDeletes
    BY <2>2 DEF HandlerCopies, HandlerDeletes, results, ResultsTyped, InTurn
  <2> QED BY <2>1, <2>2 DEF Handle
<1>5. TargetsTyped'
  <2>1. CASE HandlerDeletes
    BY <2>1, EndedTyped DEF HandlerDeletes, TargetsTyped
  <2>2. CASE HandlerStarts \/ HandlerCopies \/ Killed
    BY <2>2 DEF HandlerStarts, HandlerCopies, Killed, targets, TargetsTyped
  <2> QED BY <2>1, <2>2 DEF Handle
<1>6. InTurn' /\ OneLeft' /\ Asked'
  BY <1>2, <1>4 DEF InTurn, OneLeft, Asked, Evaluation, Handler
<1> QED BY <1>3, <1>4, <1>5, <1>6

LEMMA InitTyped == Init => TypeInv
<1> SUFFICES ASSUME Init PROVE TypeInv
  OBVIOUS
<1>1. <<>> \in Seq(Methods) /\ Subcases \in [Isolated -> SUBSET Kinds]
  BY DEF Subcases
<1>2. 0 \in 0 .. Repeats /\ 0 \in 0 .. MaxPosts /\ 0 \in 0 .. 0 + 1
  BY RunInput
<1>3. PhaseTyped
  BY <1>1 DEF Init, PhaseTyped, Stages
<1>4. ResultsTyped
  BY <1>1, <1>2 DEF Init, ResultsTyped
<1>5. TargetsTyped
  BY DEF Init, TargetsTyped
<1>6. RetSaid /\ InTurn /\ OneLeft /\ Asked
  BY DEF Init, RetSaid, Fine, InTurn, OneLeft, Asked, Evaluation
<1> QED BY <1>3, <1>4, <1>5, <1>6 DEF TypeInv, TypeOK

LEMMA NextTyped == TypeInv /\ [Next]_vars => TypeInv'
<1> SUFFICES ASSUME TypeInv, [Next]_vars PROVE TypeInv'
  OBVIOUS
<1>1. CASE UNCHANGED vars
  BY <1>1 DEF vars, phase, results, targets, TypeInv, TypeOK, PhaseTyped, ResultsTyped,
              TargetsTyped, RetSaid, InTurn, OneLeft, Asked, Allocs
<1> QED BY <1>1, PhasesTyped, RunTargetsTyped, ServerTyped, HandleTyped DEF Next

\* Whatever the testcase and whoever interrupts it, all the runner keeps is of
\* its type, what it says it holds and what it kept from each repetition too.
THEOREM TypeCorrect == Spec => []TypeOK
<1>1. TypeInv => TypeOK
  BY DEF TypeInv
<1> QED BY <1>1, InitTyped, NextTyped, PTL DEF Spec

-----------------------------------------------------------------------------
(* Failures.                                                                 *)

\* What the run knows went wrong.
Known == ~Fine(result \cup sum \cup all \cup total)

\* A phase that ended badly is known of, unless it still runs.
Remembered ==
    \A p \in bad : \/ p \in masked \cup {"teardown"}
                   \/ p = stage /\ ~Fine(ret)
                   \/ Known

\* What is not carried on is not needed.
Carried ==
    /\ stage \in {"begin", "configure", "build", "class_teardown"} => Fine(result)
    /\ stage \notin Evaluation \cup {"repeat", "repeated"} => all = {}
    /\ stage \notin Evaluation \cup {"repeated"} => sum = {}

FailInv ==
    /\ stage # "exited" => Remembered
    /\ Carried
    /\ FailureCounts

LEMMA FineUnion ==
    ASSUME NEW r, NEW s
    PROVE  Fine(r \cup s) <=> Fine(r) /\ Fine(s)
  BY DEF Fine

LEMMA StillRemembered ==
    ASSUME TypeInv, Remembered, bad' = bad, masked' = masked, Known => Known',
           stage \in Bases \ {"teardown"} /\ ~Fine(ret) => Known'
    PROVE  Remembered'
<1> SUFFICES ASSUME NEW p \in bad'
             PROVE  p \in masked' \cup {"teardown"} \/ (p = stage' /\ ~Fine(ret')) \/ Known'
  BY DEF Remembered, Fine, Known
<1>1. p \in bad /\ p \in Bases
  BY DEF TypeInv, TypeOK, ResultsTyped
<1>2. p \in masked \cup {"teardown"} \/ (p = stage /\ ~Fine(ret)) \/ Known
  BY <1>1, Zenon DEF Remembered
<1> QED BY <1>1, <1>2

\* A failure of what a step adds to is one of what it adds.
LEMMA KnownMore ==
    ASSUME result \cup sum \cup all \cup total \subseteq result' \cup sum' \cup all' \cup total'
    PROVE  Known => Known'
  BY DEF Known, Fine

LEMMA FailInvInit == Init => FailInv
  BY DEF Init, FailInv, Remembered, Carried, Fine, FailureCounts, Evaluation

LEMMA FailInvMethods == ASSUME TypeInv, FailInv, RunMethods PROVE FailInv'
<1> USE DEF FailInv
<1>1. stage' = stage /\ stage \in Bases /\ stage # "exited"
  BY DEF RunMethods, Method, Pool, Bases, Phases
<1>2. UNCHANGED <<result, sum, all, total>>
  BY DEF RunMethods, Method, Pool
<1>3. Known' <=> Known
  BY <1>2 DEF Known
<1>4. ASSUME \E o \in Ways : Method(o)
      PROVE  Remembered'
  <2>1. PICK o \in Ways : Method(o)
    BY <1>4
  <2>2. /\ bad' = (IF o \in Bad THEN bad \cup {stage} ELSE bad) /\ masked' = masked
        /\ ret' = ret \cup {o}
    BY <2>1 DEF Method
  <2>3. (~Fine(ret) => ~Fine(ret')) /\ (o \in Bad => ~Fine(ret'))
    BY <2>2 DEF Fine
  <2>4. SUFFICES ASSUME NEW p \in bad'
                 PROVE  p \in masked' \cup {"teardown"} \/ (p = stage' /\ ~Fine(ret')) \/ Known'
    BY DEF Remembered, Fine, Known
  <2>5. CASE p \in bad
    <3>1. p \in masked \cup {"teardown"} \/ (p = stage /\ ~Fine(ret)) \/ Known
      BY <1>1, <2>5, Zenon DEF Remembered
    <3> QED BY <1>1, <1>3, <2>2, <2>3, <3>1
  <2>6. CASE p \notin bad
    BY <1>1, <2>2, <2>3, <2>6
  <2> QED BY <2>5, <2>6
<1>5. ASSUME NEW outs \in ThreadEnds(stage), Pool(outs)
      PROVE  Remembered'
  <2> DEFINE ended == {outs[i].kind : i \in DOMAIN outs}
  <2>1. /\ bad' = (IF Fine(ended) THEN bad ELSE bad \cup {stage})
        /\ masked' = (IF Fine(ret') /\ ~Fine(ret \cup ended) THEN masked \cup {stage} ELSE masked)
    BY <1>5 DEF Pool
  <2> HIDE DEF ended
  <2>2. SUFFICES ASSUME NEW p \in bad'
                 PROVE  p \in masked' \cup {"teardown"} \/ (p = stage' /\ ~Fine(ret')) \/ Known'
    BY DEF Remembered, Fine, Known
  <2>3. CASE p = stage /\ ~Fine(ret \cup ended)
    BY <1>1, <2>1, <2>3
  <2>4. CASE ~(p = stage /\ ~Fine(ret \cup ended))
    <3>1. p \in bad /\ ~(p = stage /\ ~Fine(ret))
      BY <2>1, <2>4, FineUnion
    <3>2. p \in masked \cup {"teardown"} \/ Known
      BY <1>1, <3>1, Zenon DEF Remembered
    <3> QED BY <1>3, <2>1, <3>2
  <2> QED BY <2>3, <2>4
<1>6. Remembered'
  BY <1>4, <1>5 DEF RunMethods
<1> QED BY <1>1, <1>2, <1>6 DEF Carried, FailureCounts

LEMMA FailInvBegin == ASSUME TypeInv, FailInv, Begin PROVE FailInv'
<1> USE DEF FailInv
<1>1. PICK s \in {"configure", "build", "clean", "completed", "assign"} :
          Goto(s) /\ (s # "completed" => Fine(result'))
  BY NextStages DEF Begin, Fine
<1>2. stage' = s /\ stage = "begin" /\ stage \notin Bases
  BY <1>1, PhasesAreStages, GotoTyped DEF Begin, Bases, Phases, Goto
<1>3. Fine(result) /\ UNCHANGED <<sum, all, total, bad, masked>>
  BY <1>2 DEF Begin, Carried
<1>4. Known => Known'
  BY <1>3 DEF Known, Fine
<1>5. Remembered'
  BY <1>2, <1>3, <1>4, StillRemembered
<1> QED BY <1>1, <1>2, <1>3, <1>5 DEF Carried, FailureCounts, Evaluation

LEMMA FailInvEnds ==
    ASSUME TypeInv, FailInv, NEW p \in {"configure", "build", "deploy"}, NEW r \in SUBSET Kinds,
           NEW next \in {"build", "clean", "completed", "assign", "repeat", "unassign"},
           next = "build" => p = "configure",
           Ends(p, r, next), ret \subseteq r, r \subseteq result \cup ret,
           p = "build" \/ result \subseteq r
    PROVE  FailInv'
<1> USE DEF FailInv
<1>1. PICK s \in {"build", "clean", "completed", "assign", "repeat", "unassign"} :
          Goto(s) /\ (s = "build" => Fine(ret) /\ p = "configure")
  BY NextStages DEF Ends
<1>2. stage' = s /\ stage = p /\ stage \in Bases
  BY <1>1 DEF Ends, Returned, Bases, Phases, Goto
<1>3. result' = r /\ UNCHANGED <<sum, all, total, bad, masked>>
  BY DEF Ends
<1>4. p # "deploy" => Fine(result)
  BY <1>2 DEF Carried
<1>5. ~Fine(ret) => Known'
  BY <1>3 DEF Known, Fine
<1>6. Known => Known'
  BY <1>3, <1>4 DEF Known, Fine
<1>7. Remembered'
  BY <1>2, <1>3, <1>5, <1>6, StillRemembered
<1>8. s = "build" => Fine(result')
  BY <1>1, <1>3, <1>4 DEF Fine
<1> QED BY <1>1, <1>2, <1>3, <1>7, <1>8 DEF Carried, FailureCounts, Evaluation

LEMMA FailInvEvalStep ==
    ASSUME TypeInv, FailInv, NEW p \in Evaluation, NEW next \in Evaluation, EvalStepEnds(p, next)
    PROVE  FailInv'
<1> USE DEF FailInv
<1>1. stage' \in Evaluation /\ stage \in Evaluation
  BY DEF EvalStepEnds, Returned, Evaluation, Goto
<1>2. UNCHANGED <<result, all, total, bad, masked>> /\ sum' = sum \cup ret
  BY DEF EvalStepEnds
<1>3. (Known => Known') /\ (~Fine(ret) => Known')
  BY <1>2 DEF Known, Fine
<1>4. Remembered'
  BY <1>1, <1>2, <1>3, StillRemembered DEF Evaluation
<1> QED BY <1>1, <1>2, <1>4 DEF Carried, FailureCounts, Evaluation

LEMMA FailInvRepeat == ASSUME TypeInv, FailInv, Repeat PROVE FailInv'
<1> USE DEF FailInv
<1>1. stage = "repeat" /\ stage' \in {"setup", "repeated", "unassign"}
  BY DEF Repeat, Goto
<1>2. sum = {} /\ UNCHANGED <<sum, total, bad, masked>>
  BY <1>1 DEF Carried, Repeat, Evaluation
<1>3. \/ UNCHANGED <<result, all>> /\ stage' # "unassign"
      \/ result' = result \cup Summary(all) /\ all' = {} /\ stage' = "unassign"
  BY DEF Repeat, Goto
<1>4. Fine(Summary(all)) <=> Fine(all)
  BY SummaryTyped DEF TypeInv, TypeOK, ResultsTyped
<1>5. Known => Known'
  BY <1>2, <1>3, <1>4 DEF Known, Fine
<1>6. Remembered'
  <2>1. stage \notin Bases
    BY <1>1 DEF Bases, Phases
  <2> QED BY <1>1, <1>2, <1>5, <2>1, StillRemembered
<1> QED BY <1>1, <1>2, <1>3, <1>6 DEF Carried, FailureCounts, Evaluation

LEMMA FailInvRepeated ==
    ASSUME TypeInv, FailInv, TeardownEnds \/ Repeated \/ CleanEnds
    PROVE  FailInv'
<1> USE DEF FailInv
<1>1. /\ stage \in {"teardown", "repeated", "clean"} /\ stage' \in {"repeated", "repeat", "completed"}
      /\ stage' = "repeat" => Repeated
      /\ stage' = "completed" => CleanEnds
  BY DEF TeardownEnds, Repeated, CleanEnds, Returned, Goto
<1>2. UNCHANGED <<total, bad, masked>>
  BY DEF TeardownEnds, Repeated, CleanEnds
<1>3. result \cup sum \cup all \cup total \subseteq result' \cup sum' \cup all' \cup total'
  BY DEF TeardownEnds, Repeated, CleanEnds
<1>4. stage = "clean" /\ ~Fine(ret) => Known'
  BY DEF TeardownEnds, Repeated, CleanEnds, Returned, Known, Fine
<1>5. Remembered'
  <2>1. stage \in Bases \ {"teardown"} => stage = "clean"
    BY <1>1 DEF Bases, Phases
  <2> QED BY <1>1, <1>2, <1>3, <1>4, <2>1, KnownMore, StillRemembered
<1>6. Carried'
  <2>1. stage' = "completed" => all' = {} /\ sum' = {}
    BY <1>1 DEF CleanEnds, Returned, Carried, Evaluation
  <2>2. stage' = "repeat" => sum' = {}
    BY <1>1 DEF Repeated
  <2> QED BY <1>1, <2>1, <2>2 DEF Carried, Evaluation
<1> QED BY <1>1, <1>5, <1>6 DEF FailureCounts

LEMMA FailInvComplete == ASSUME TypeInv, FailInv, Complete PROVE FailInv'
<1> USE DEF FailInv
<1>1. stage = "completed" /\ stage' \in {"begin", "class_teardown"}
  BY DEF Complete, Goto
<1>2. UNCHANGED <<sum, all, bad, masked>> /\ result' = {} /\ sum = {} /\ all = {}
  BY <1>1 DEF Complete, Carried, Evaluation
<1>3. total \cup Summary(result) \subseteq total'
  BY DEF Complete
<1>4. Fine(Summary(result)) <=> Fine(result)
  BY SummaryTyped DEF TypeInv, TypeOK, ResultsTyped
<1>5. Known => Known'
  BY <1>2, <1>3, <1>4 DEF Known, Fine
<1>6. Remembered'
  <2>1. stage \notin Bases
    BY <1>1 DEF Bases, Phases
  <2> QED BY <1>1, <1>2, <1>5, <2>1, StillRemembered
<1> QED BY <1>1, <1>2, <1>6 DEF Carried, FailureCounts, Evaluation, Fine

LEMMA FailInvExit == ASSUME TypeInv, FailInv, Exit PROVE FailInv'
<1> USE DEF FailInv
<1>1. stage = "class_teardown" /\ stage' = "exited"
  BY DEF Exit, Returned, Goto
<1>2. /\ UNCHANGED <<result, sum, all, bad, masked>> /\ sum = {} /\ all = {} /\ Fine(result)
      /\ total' = total \cup ret
  BY <1>1 DEF Exit, Carried, Evaluation
<1>3. exit' = ExitCode(total')
  BY DEF Exit
<1>4. ~Fine(total') => exit' # 0
  BY <1>3 DEF ExitCode, Fine, Bad
<1>5. Known \/ ~Fine(ret) => ~Fine(total')
  BY <1>2 DEF Known, Fine
<1>6. FailureCounts'
  BY <1>1, <1>2, <1>4, <1>5 DEF FailureCounts, Remembered
<1> QED BY <1>1, <1>2, <1>6 DEF Carried, Evaluation

\* The targets tell of failures, and lose none.
LEMMA FailInvTargets == ASSUME TypeInv, FailInv, RunTargets \/ GiveUp PROVE FailInv'
<1> USE DEF FailInv
<1>1. stage \in {"assign", "queue", "granted", "register", "unassign", "stopping", "unregister",
                "delete"}
  BY DEF RunTargets, GiveUp, NoTargets, Ask, AskFails, Poll, TakeMutex, Register, Unassign,
         Unregister, Delete
<1>2. stage' \in {"deploy", "repeat", "queue", "granted", "register", "stopping", "unregister",
                 "delete", "clean", "completed"}
  BY <1>1, NextStages
  DEF RunTargets, GiveUp, NoTargets, Ask, AskFails, Poll, TakeMutex, Register, Unassign,
      Unregister, Delete, Going, Assigning, Blocks, Goto, phase
<1>3. UNCHANGED <<sum, all, total, bad, masked>> /\ result \subseteq result'
  BY DEF RunTargets, GiveUp, NoTargets, Ask, AskFails, Poll, TakeMutex, Register, Unassign,
         Unregister, Delete, Going, Assigning, Blocks, results
<1>4. Remembered'
  <2>1. stage \notin Bases /\ (Known => Known')
    BY <1>1, <1>3, KnownMore DEF Bases, Phases
  <2> QED BY <1>1, <1>3, <2>1, StillRemembered
<1> QED BY <1>1, <1>2, <1>3, <1>4 DEF Carried, FailureCounts, Evaluation

LEMMA FailInvServer ==
    ASSUME FailInv, UNCHANGED <<phase, results>>
    PROVE  FailInv'
  BY DEF FailInv, Remembered, Known, Carried, FailureCounts, phase, results

LEMMA FailInvHandle == ASSUME TypeInv, FailInv, Handle \/ Killed PROVE FailInv'
<1> USE DEF FailInv
<1>1. stage' \in Handler /\ stage' # "exited" /\ stage # "exited"
  BY DEF Handle, HandlerStarts, HandlerCopies, HandlerDeletes, Killed, Handler, Goto
<1>2. CASE HandlerStarts \/ Killed
  <2>1. bad' = {} /\ sum' = {} /\ all' = {}
    BY <1>2 DEF HandlerStarts, Killed, Forget
  <2> QED BY <1>1, <2>1 DEF Remembered, Carried, FailureCounts, Handler
<1>3. CASE HandlerCopies \/ HandlerDeletes
  <2>1. stage \in Handler /\ UNCHANGED results
    BY <1>3 DEF HandlerCopies, HandlerDeletes, Handler
  <2>2. stage \notin Bases /\ UNCHANGED <<result, sum, all, total, bad, masked>>
    BY <2>1, PhasesAreStages DEF results
  <2>3. Remembered'
    BY <1>1, <2>2, StillRemembered DEF Known
  <2> QED BY <1>1, <2>1, <2>2, <2>3 DEF Carried, FailureCounts, Handler, Evaluation
<1> QED BY <1>2, <1>3 DEF Handle

LEMMA FailInvNext == TypeInv /\ FailInv /\ [Next]_vars => FailInv'
<1> SUFFICES ASSUME TypeInv, FailInv, [Next]_vars PROVE FailInv'
  OBVIOUS
<1>1. CASE RunPhases
  <2>1. CASE ConfigureEnds \/ BuildEnds \/ DeployEnds
    <3>1. result \cup ret \in SUBSET Kinds /\ ret \in SUBSET Kinds
      BY DEF TypeInv, TypeOK, ResultsTyped, PhaseTyped
    <3> QED BY <2>1, <3>1, NextStages, FailInvEnds DEF ConfigureEnds, BuildEnds, DeployEnds
  <2>2. CASE SetupEnds \/ StartEnds \/ EvalEnds
    BY <2>2, FailInvEvalStep DEF SetupEnds, StartEnds, EvalEnds, Evaluation
  <2> QED BY <1>1, <2>1, <2>2, FailInvMethods, FailInvBegin, FailInvRepeat, FailInvRepeated,
             FailInvComplete, FailInvExit DEF RunPhases
<1>2. CASE KeepAlive \/ KeeperEnds \/ Interrupt \/ Server \/ UNCHANGED vars
  <2>1. UNCHANGED <<phase, results>>
    BY <1>2 DEF KeepAlive, KeeperEnds, Interrupt, Server, Grant, Ages, Removed, vars
  <2> QED BY <2>1, FailInvServer
<1> QED BY <1>1, <1>2, FailInvTargets, FailInvHandle DEF Next

\* However many phases, repetitions, subcases and testcases there are, the exit
\* code of a run that ends tells of every method that ended badly, but for those
\* of a teardown and those an exception of a parallel method hid.
THEOREM FailuresReachExit == Spec => []FailureCounts
<1>1. FailInv => FailureCounts
  BY DEF FailInv
<1> QED BY <1>1, InitTyped, NextTyped, FailInvInit, FailInvNext, PTL DEF Spec

-----------------------------------------------------------------------------
(* Targets.                                                                  *)

\* A testcase is up in an evaluation, and holds its targets while it uses them:
\* what the property says, which is inductive with the types.
LEMMA HeldInit == Init => HeldWhileUsed
  BY DEF Init, HeldWhileUsed, Using, Evaluation

\* A step of the testcase that leaves the targets alone and goes on with them
\* only if it had them.
LEMMA StillHeld ==
    ASSUME HeldWhileUsed, UNCHANGED <<plan, targets>>, up' => stage' \in Evaluation,
           stage' \in Using => stage \in Using
    PROVE  HeldWhileUsed'
  BY DEF HeldWhileUsed, targets

LEMMA HeldPhases == ASSUME TypeInv, HeldWhileUsed, RunPhases PROVE HeldWhileUsed'
<1>1. CASE RunMethods
  <2>1. stage' = stage /\ UNCHANGED <<plan, targets>>
    BY <1>1 DEF RunMethods, Method, Pool
  <2>2. up' => up \/ stage \in {"setup", "start", "eval"}
    BY <1>1 DEF RunMethods, Method, Pool
  <2>3. up' => stage' \in Evaluation
    BY <2>1, <2>2 DEF HeldWhileUsed, Evaluation
  <2> QED BY <2>1, <2>3, StillHeld
<1>2. CASE Begin \/ ConfigureEnds \/ BuildEnds \/ DeployEnds
  <2>1. stage \in {"begin", "configure", "build", "deploy"}
    BY <1>2 DEF Begin, ConfigureEnds, BuildEnds, DeployEnds, Ends, Returned
  <2>2. stage' \in Using => stage = "deploy"
    BY <1>2, NextStages
    DEF Begin, ConfigureEnds, BuildEnds, DeployEnds, Ends, Returned, Goto, Using, Evaluation
  <2>3. UNCHANGED <<plan, targets, up>>
    BY <1>2 DEF Begin, ConfigureEnds, BuildEnds, DeployEnds, Ends
  <2> QED BY <2>1, <2>2, <2>3, StillHeld DEF HeldWhileUsed, Using, Evaluation
<1>3. CASE SetupEnds \/ StartEnds \/ EvalEnds
  <2>1. stage \in Evaluation /\ stage' \in Evaluation /\ UNCHANGED <<plan, targets>>
    BY <1>3 DEF SetupEnds, StartEnds, EvalEnds, EvalStepEnds, Returned, Goto, Evaluation
  <2> QED BY <2>1, StillHeld DEF Using
<1>4. CASE Repeat \/ Repeated \/ TeardownEnds
  <2>1. stage \in {"repeat", "repeated", "teardown"}
    BY <1>4 DEF Repeat, Repeated, TeardownEnds, Returned
  <2>2. UNCHANGED <<plan, targets>> /\ up' = FALSE
    BY <1>4 DEF Repeat, Repeated, TeardownEnds, Returned, HeldWhileUsed, Evaluation, TypeInv,
                TypeOK, ResultsTyped
  <2> QED BY <2>1, <2>2, StillHeld DEF Using, Evaluation
<1>5. CASE CleanEnds \/ Complete \/ Exit
  <2>1. stage' \notin Using /\ stage \notin Evaluation /\ up' = up
    BY <1>5 DEF CleanEnds, Complete, Exit, Returned, Goto, Using, Evaluation
  <2> QED BY <2>1 DEF HeldWhileUsed
<1> QED BY <1>1, <1>2, <1>3, <1>4, <1>5 DEF RunPhases

LEMMA HeldTargets == ASSUME HeldWhileUsed, RunTargets \/ GiveUp PROVE HeldWhileUsed'
<1>1. stage \notin Evaluation /\ UNCHANGED <<plan, up>>
  BY DEF RunTargets, GiveUp, NoTargets, Ask, AskFails, Poll, TakeMutex, Register, Unassign,
         Unregister, Delete, Going, Assigning, Blocks, results, Evaluation
<1>2. stage' \in Using /\ plan.acquires => Register
  BY NextStages
  DEF RunTargets, GiveUp, NoTargets, Ask, AskFails, Poll, TakeMutex, Register, Unassign,
      Unregister, Delete, Going, Assigning, Blocks, Goto, phase, Using, Evaluation
<1>3. Register => allocid' \in registry' /\ keeper' = "on"
  BY DEF Register
<1> QED BY <1>1, <1>2, <1>3 DEF HeldWhileUsed

LEMMA HeldServer ==
    ASSUME HeldWhileUsed, KeepAlive \/ KeeperEnds \/ Interrupt \/ Server
    PROVE  HeldWhileUsed'
<1>1. UNCHANGED <<plan, stage, up, allocid, registry>>
  BY DEF KeepAlive, KeeperEnds, Interrupt, Server, Grant, Ages, Removed, phase, results, targets
<1>2. keeper' = keeper \/ keeper = "ending"
  BY DEF KeepAlive, KeeperEnds, Interrupt, Server, Grant, Ages, Removed, targets
<1> QED BY <1>1, <1>2 DEF HeldWhileUsed, Using, Evaluation

LEMMA HeldHandle == ASSUME HeldWhileUsed, Handle \/ Killed PROVE HeldWhileUsed'
<1>1. stage' \in Handler
  BY DEF Handle, HandlerStarts, HandlerCopies, HandlerDeletes, Killed, Goto, Handler
<1>2. stage' \notin Using
  BY <1>1 DEF Handler, Using, Evaluation
<1>3. up' = FALSE \/ (up' = up /\ stage \notin Evaluation)
  BY DEF Handle, HandlerStarts, HandlerCopies, HandlerDeletes, Killed, Forget, results, Evaluation
<1> QED BY <1>2, <1>3 DEF HeldWhileUsed

\* Whatever fails and whoever interrupts it, a testcase uses its targets while
\* its process says it holds them and has the thread that keeps them alive, and
\* is torn down if it was set up.
THEOREM UsesWhatItHolds == Spec => []HeldWhileUsed
<1>1. TypeInv /\ HeldWhileUsed /\ [Next]_vars => HeldWhileUsed'
  <2> SUFFICES ASSUME TypeInv, HeldWhileUsed, [Next]_vars PROVE HeldWhileUsed'
    OBVIOUS
  <2>1. CASE UNCHANGED vars
    BY <2>1 DEF vars, phase, results, targets, HeldWhileUsed
  <2> QED BY <2>1, HeldPhases, HeldTargets, HeldServer, HeldHandle DEF Next
<1> QED BY <1>1, InitTyped, NextTyped, HeldInit, PTL DEF Spec
=============================================================================
