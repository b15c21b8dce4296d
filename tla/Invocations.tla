---------------------------- MODULE Invocations -----------------------------
(***************************************************************************)
(* What a connection promises to those who invoke requests on it:          *)
(* InvocationError (grammers-mtsender/src/errors.rs) and its               *)
(* `may_have_been_sent`.  A request takes effect at most once; whoever is  *)
(* told that it did not take effect can rely on it, now and later; and     *)
(* an answer is the answer to a request that took effect.                  *)
(***************************************************************************)
EXTENDS Naturals

CONSTANT Calls

VARIABLES
    executed,   \* how often each request took effect
    outcome     \* what its caller was told

NotDelivered == {"unsent", "invalid", "badMessage"}
Uncertain == {"maybeSent", "dropped"}

Init ==
    /\ executed = [c \in Calls |-> 0]
    /\ outcome = [c \in Calls |-> "none"]

TakeEffect(c) ==
    /\ executed[c] = 0
    /\ outcome[c] \notin NotDelivered
    /\ executed' = [executed EXCEPT ![c] = 1]
    /\ UNCHANGED outcome

Tell(c, o) ==
    /\ outcome[c] = "none"
    /\ o \in NotDelivered => executed[c] = 0
    /\ o = "answered" => executed[c] = 1
    /\ outcome' = [outcome EXCEPT ![c] = o]
    /\ UNCHANGED executed

Next == \E c \in Calls :
    \/ TakeEffect(c)
    \/ \E o \in NotDelivered \cup Uncertain \cup {"answered"} : Tell(c, o)

Spec == Init /\ [][Next]_<<executed, outcome>>
=============================================================================
