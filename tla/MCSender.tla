------------------------------ MODULE MCSender ------------------------------
(* An instance of Sender for TLC *)
EXTENDS Sender, TLC

CONSTANTS c1, c2, c3, t1

(* Two invocations that must not overlap and one that nobody tracks *)
Three == c1 :> t1 @@ c2 :> t1 @@ c3 :> NoTracker
Alike == Permutations({c1, c2})

Made == {c \in Calls : caller[c] # "new"}
Plain == Cardinality(packet.rs) <= 1 /\ \A m \in replies : m.kind # "retry"

(* The bounds of the run: of the three invocations any two are made.  The two
   that must not overlap meet the ping timer, in packets of one request and
   without rejections that demand a retry; the one that nobody tracks and one
   of them share containers and are retried. *)
Bounded ==
    /\ Cardinality(Made) <= 2
    /\ limits.pings > 0 => c3 \notin Made /\ Plain
    /\ {c1, c2} \subseteq Made => Plain
=============================================================================
