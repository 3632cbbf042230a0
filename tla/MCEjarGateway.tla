---------------------------- MODULE MCEjarGateway ----------------------------
(* An instance of EjarGateway for TLC: two threads and an outage; one      *)
(* contract with a lessor, who is a company, an agent, one unit and a fee; *)
(* two HTTP workers.  The thresholds of the breaker are smaller than the   *)
(* code's 5 and 2, but above 1, so that something is counted.              *)
EXTENDS EjarGateway, TLC

CONSTANTS t1, t2, w1, w2

Lease     == {"lease"}
Lessor    == {"lessor"}
Agent     == {"agent"}
BothSides == Lessor \cup Agent
Flat      == {"flat"}
OneTerm   == [c \in Lease |-> "2025"]
=============================================================================
