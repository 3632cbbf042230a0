-------------------------- MODULE MCEjarSubmission --------------------------
(* Instances of EjarSubmission for TLC.                                    *)
EXTENDS EjarSubmission, TLC

CONSTANTS u1, u2, w1, w2, cron, j1, j2

OneUser    == {u1}
TwoUsers   == {u1, u2}
OneWorker  == {w1}
TwoWorkers == {w1, w2}
OneJob     == {j1}
TwoJobs    == {j1, j2}
UserAndWorker == {u1, w1}
Nobody     == {}

(* Jobs, workers and users are interchangeable.                            *)
Symmetry == Permutations(Users) \cup Permutations(Workers) \cup Permutations(Jobs)
=============================================================================
