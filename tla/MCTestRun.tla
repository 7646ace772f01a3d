----------------------------- MODULE MCTestRun -----------------------------
(* Instances of TestRun for TLC: a testcase with two methods that deploy at   *)
(* once, after one that does so alone, and with a subcase in its evaluation.  *)
EXTENDS TestRunProperties

MCMethods == {"configure", "build", "deploy", "deploy_a", "deploy_b", "setup", "start",
              "eval_sub", "eval", "teardown", "clean", "class"}
MCSerial ==
    [b \in Bases |->
        CASE b = "eval" -> <<"eval_sub", "eval">>
          [] b = "class_teardown" -> <<"class">>
          [] OTHER -> <<b>>]
MCParallel == [b \in Bases |-> IF b = "deploy" THEN <<"deploy_a", "deploy_b">> ELSE <<>>]
MCIsolated == {"eval_sub"}

AllOf == [skip |-> {}, buildOnly |-> FALSE, acquires |-> TRUE, release |-> TRUE]
MCPlans == {AllOf,
            [AllOf EXCEPT !.skip = {"clean", "configure"}, !.release = FALSE],
            [AllOf EXCEPT !.skip = {"deploy"}, !.acquires = FALSE],
            [AllOf EXCEPT !.buildOnly = TRUE]}
=============================================================================
