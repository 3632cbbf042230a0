---------------------------- MODULE MCQueueStack ----------------------------
(* Instances of QueueStack for TLC: a root channel and a sequential one.   *)
EXTENDS QueueStack, TLC

CONSTANTS root, seq, w1, w2, r1, r2, a, b

TwoChannels == {root, seq}
OneSequential == {seq}
Downstream  == (root :> {root} @@ seq :> {seq, root})
OneEach     == (root :> 1 @@ seq :> 1)
TwoAtRoot   == (root :> 2 @@ seq :> 1)

(* 1 and 2 in sequence, or at the root; 3 waits for both.                  *)
ThreeJobs     == 1 .. 3
TwoThenLast   == <<{}, {}, {1, 2}>>
TwoInSequence == <<seq, seq, root>>

(* 2, at the root, waits for 1, in the other channel.                      *)
TwoJobs         == 1 .. 2
FirstThenSecond == <<{}, {1}>>
OneInSequence   == <<seq, root>>

OneWorker   == {w1}
TwoWorkers  == {w1, w2}
Symmetry    == Permutations(Workers)

TwoServers   == {r1, r2}
TwoDatabases == 1 .. 2
TwoSegments  == {a, b}
AllParts     == {"rows", "graph", "channels", "election"}
LiveParts    == {"rows", "election"}
=============================================================================
