----------------------- MODULE MCCandidatePipeline ------------------------
(* Instances of CandidatePipeline for TLC.                                 *)
EXTENDS CandidatePipeline, TLC

CONSTANTS c1, c2, c3, h1, h2, h3, h4, x1

(* A file of one candidate and one of two, and a context.                  *)
TwoFiles   == <<{c1}, {c2, c3}>>
OneContext == c1 :> {h1} @@ c2 :> {h2} @@ c3 :> {h4} @@ 1 :> {h3}

(* One file of two candidates and no context.                              *)
OneFile    == <<{c1, c2}>>
NoContext  == c1 :> {h1} @@ c2 :> {h2}

(* A chain of the first two hypotheses.                                    *)
OneChain   == x1 :> {h1, h2}

(* Bound: no step from a state with the hypothesis of the third candidate, *)
(* or with those of the second and of the context.                         *)
FewHyps == hyp[h4] = "none" /\ (hyp[h2] = "none" \/ hyp[h3] = "none")
=============================================================================
