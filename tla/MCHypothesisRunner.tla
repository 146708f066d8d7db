----------------------- MODULE MCHypothesisRunner ------------------------
(* Constant values for model checking HypothesisRunner.                    *)
EXTENDS HypothesisRunner

AllGates   == Gates \ {"none"}
JustAccept == {"ACCEPT"}

(* Whatever a stage may raise: the PoC execution, the Codex provider and   *)
(* the environment build.                                                  *)
AllFailures == {"INCONCLUSIVE", "TRANSIENT", "INVALID_OUTPUT", "CLEANUP",
                "IN_FLIGHT", "ANCHOR", "OFFLINE_BASE", "ENVIRONMENT", "BUNDLE",
                "BUDGET"}

(* What goes wrong or happens around the runner in one behaviour: two      *)
(* failures or events at most; or two failures of the PoC execution and an *)
(* event; or a failure, a crash and a grant.                               *)
Events == faults + upgrades + grants
OnlyPocFails ==
    \A e \in activity : e[1] = "failure" => e[2] = POC_EXECUTION
FewEvents == \/ failures + Events <= 2
             \/ Events <= 1 /\ OnlyPocFails
             \/ upgrades = 0 /\ failures <= 1
=============================================================================
