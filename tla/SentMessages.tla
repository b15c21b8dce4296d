---------------------------- MODULE SentMessages ----------------------------
(***************************************************************************)
(* Sending messages: send_message, send_album and forward_messages of      *)
(* grammers-client/src/client/messages.rs, from the lookups and uploads    *)
(* before the request to map_random_ids_to_messages, which finds the       *)
(* messages the request became.  Inputs are numbered from 1, and so are    *)
(* their random ids and the messages that Telegram makes of them.          *)
(***************************************************************************)
EXTENDS Naturals, Sequences, FiniteSets

CONSTANTS
    MaxInputs,      \* messages of an album or of a forward
    MaxSendFaults   \* failed requests and dropped calls

VARIABLES
    sending,    \* the call: its method, inputs, where it is, what it returns
    created,    \* Telegram: inputs that became messages
    answer,     \* Telegram's answer: its kind, and the random ids it names
    sendFaults

sendVars == <<sending, created, answer, sendFaults>>

NoMessage == 0
NoAnswer == [kind |-> "none", mapped |-> {}]
Inputs == 1..sending.count
At(pc) == sending.pc = pc
Go(pc) == sending' = [sending EXCEPT !.pc = pc]

-----------------------------------------------------------------------------

(* send_message_peer: who "self" is, from the session or from get_me.      *)
(* Nothing has been sent when it fails.                                    *)
Before == IF sending.self THEN "identity" ELSE IF sending.method = "album" THEN "uploads" ELSE "request"
Begin ==
    /\ At("start")
    /\ Go(Before)
    /\ UNCHANGED <<created, answer, sendFaults>>
Identify ==
    /\ At("identity")
    /\ Go(IF answer = NoAnswer THEN "request" ELSE "map")
    /\ UNCHANGED <<created, answer, sendFaults>>

(* upload_media, one file of an album after another *)
Upload ==
    /\ At("uploads")
    /\ sending' = [sending EXCEPT !.uploaded = @ + 1,
                                  !.pc = IF sending.uploaded + 1 = sending.count THEN "request" ELSE @]
    /\ UNCHANGED <<created, answer, sendFaults>>

(* The request.  Telegram forwards what it can of a list; it makes all of  *)
(* an album or none.  Its answer holds the messages and names the random   *)
(* ids of any of them, is short, or of a kind that holds no messages.      *)
Execute ==
    /\ At("request") /\ created = {}
    /\ created' \in (IF sending.method = "forward" THEN SUBSET Inputs \ {{}} ELSE {Inputs})
    /\ UNCHANGED <<sending, answer, sendFaults>>
FaultyAfter == IF sending.self THEN "identity" ELSE "map"
After == "map"
Reply ==
    /\ At("request") /\ created # {}
    /\ answer' \in {[kind |-> "updates", mapped |-> m] : m \in SUBSET created}
                     \cup {[kind |-> "other", mapped |-> {}]}
                     \cup (IF sending.method = "message" THEN {[kind |-> "short", mapped |-> {}]} ELSE {})
    /\ Go(After)
    /\ UNCHANGED <<created, sendFaults>>

(* map_random_ids_to_messages: an input takes the message its random id    *)
(* names, or else the only message that is left                            *)
FaultyTaken(left, i) == left
Taken(left, i) == left \ {i}
MapNext(acc, i) ==
    LET own == i \in answer.mapped /\ i \in acc.left
        only == Cardinality(acc.left) = 1
        id == CHOOSE k \in acc.left : own => k = i
    IN  IF own \/ only THEN [left |-> Taken(acc.left, id), out |-> Append(acc.out, id)]
        ELSE [acc EXCEPT !.out = Append(@, NoMessage)]
Mapping[i \in Nat] == IF i = 0 THEN [left |-> created, out |-> <<>>] ELSE MapNext(Mapping[i - 1], i)
MapRandomIds ==
    IF answer.kind # "updates" THEN [i \in Inputs |-> NoMessage] ELSE Mapping[sending.count].out

(* A short reply is put together from what was sent *)
Return ==
    /\ At("map")
    /\ sending' = [sending EXCEPT !.pc = "done",
                     !.result = IF answer.kind = "short" THEN <<1>> ELSE MapRandomIds]
    /\ UNCHANGED <<created, answer, sendFaults>>

(* A lookup, an upload or the request fails, or the call is dropped.  The  *)
(* request may fail although Telegram has executed it: the connection is   *)
(* lost or the reply unreadable.  The peers that come with the answer are  *)
(* cached without an error.                                                *)
Fail ==
    /\ sendFaults > 0
    /\ sendFaults' = sendFaults - 1
    /\ \/ At("identity") /\ Go("error")
       \/ At("uploads") /\ Go("error")
       \/ At("request") /\ Go("error")
       \/ sending.pc \notin {"done", "error", "dropped"} /\ Go("dropped")
    /\ UNCHANGED <<created, answer>>

-----------------------------------------------------------------------------

Init ==
    /\ sending \in [method : {"message"}, self : BOOLEAN, count : {1}, pc : {"start"}, uploaded : {0}, result : {<<>>}]
              \cup [method : {"album", "forward"}, self : {FALSE}, count : 1..MaxInputs, pc : {"start"},
                    uploaded : {0}, result : {<<>>}]
    /\ created = {}
    /\ answer = NoAnswer
    /\ sendFaults = MaxSendFaults

Next == Begin \/ Identify \/ Upload \/ Execute \/ Reply \/ Return \/ Fail
Spec == Init /\ [][Next]_sendVars

-----------------------------------------------------------------------------

(* map_random_ids_to_messages: no message stands for two inputs; and when  *)
(* every input became a message, an input whose random id is named has its *)
(* own, and the others their own or none, whichever ids the answer leaves  *)
(* out: guessing at the only message left never takes another's.           *)
OwnMessage ==
    At("done") =>
        /\ Len(sending.result) = sending.count
        /\ \A i, j \in Inputs : i # j /\ sending.result[i] # NoMessage => sending.result[i] # sending.result[j]
        /\ created = Inputs => \A i \in Inputs :
               /\ sending.result[i] \in {i, NoMessage}
               /\ i \in answer.mapped => sending.result[i] = i

(* Once Telegram has answered the call does not fail ("Reply               *)
(* reconstruction must not fail on a post-delivery self lookup"): what it  *)
(* needs to build its result is looked up before the request.  A request   *)
(* that fails itself leaves open whether Telegram has made the messages.   *)
DeliveredIsOk == At("error") => answer = NoAnswer

(* "Those messages that could not be forwarded will be None", and the      *)
(* indices of the result are those of the input, at least when the answer  *)
(* names the message of every input that became one                        *)
NotForwardedIsNone ==
    At("done") /\ sending.method = "forward" /\ answer.mapped = created =>
        \A i \in Inputs \ created : sending.result[i] = NoMessage
=============================================================================
