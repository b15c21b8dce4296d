---------------------------- MODULE MCSenderPool ----------------------------
(* An instance of SenderPool for TLC *)
EXTENDS SenderPool, TLC

CONSTANTS c1, c2

(* Invocations to one datacenter *)
OneDc == [c \in Calls |-> 2]
(* They differ in nothing *)
EqualCalls == Permutations(Calls)
=============================================================================
