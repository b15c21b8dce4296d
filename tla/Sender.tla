------------------------------- MODULE Sender -------------------------------
(***************************************************************************)
(* grammers-mtsender/src/sender.rs with the task that drives it            *)
(* (run_sender in sender_pool.rs), the queue between callers and the task  *)
(* (queue.rs) and the reservations of tracked callers                      *)
(* (invocation_tracker.rs): the life of the invocations of one connection. *)
(*                                                                         *)
(* Callers reserve, clone the route, queue, wait and walk away on their    *)
(* own threads.  The task runs its handlers without interruption, except   *)
(* that a caller may act between two iterations of a handler's loop, and   *)
(* between the moment a request gives up its reservation and the moment    *)
(* its caller is told (Request::complete): `done` is that request.         *)
(*                                                                         *)
(* The vector of requests is a function from requests to their state: its  *)
(* order decides nothing below, so every order is allowed.  A message is   *)
(* identified by its packet and its request; the packet's number is the    *)
(* identifier of the container.  A partly written packet is `partial`;     *)
(* Telegram sees whole packets only.  Updates pass through the task and    *)
(* leave its state alone.                                                  *)
(***************************************************************************)
EXTENDS Integers, Sequences, FiniteSets

CONSTANTS
    Calls,          \* invocations made on this connection
    Trackers,       \* the InvocationTrackers callers share
    Group,          \* the tracker of an invocation, or NoTracker
    NoTracker,
    Malformed,      \* invocations whose body fails request_is_valid
    Ping,           \* the keepalive request
    MaxPacket,      \* bound on the requests of one packet
    MaxRetries,     \* how often a rejected request is sent again (3)
    MaxPings,       \* bound on the expiries of the ping timer
    MaxServices     \* bound on packets that carry no request

VARIABLES
    caller,     \* what each caller is doing
    outcome,    \* what it was told
    stage,      \* the stage of each tracker: 0 Idle, 1 Pending, 2 Sent
    sentAt,     \* whether its sent_at is set
    queue,      \* the invocations queued to the task
    closed,     \* whether the queue is closed
    routed,     \* whether the pool still has a handle to the queue
    task,       \* what the task is doing
    req,        \* the state of each request: [state, retries, packet]
    packet,     \* the packet in the write buffer
    partial,    \* whether some of it was written (write_head # 0)
    made,       \* how many packets were made
    done,       \* the request that is being completed
    bad,        \* the rejection that is being handled
    limits,     \* how much of the bounds is used
    inbox,      \* packets on their way to Telegram
    arrived,    \* messages Telegram has taken out of their packets
    replies,    \* Telegram's replies on their way back
    executed    \* how often Telegram executed each invocation

callerVars == <<caller, outcome>>
trackerVars == <<stage, sentAt>>
queueVars == <<queue, closed, routed>>
senderVars == <<req, packet, partial, made, limits>>
netVars == <<inbox, arrived, replies, executed>>
vars == <<callerVars, trackerVars, queueVars, senderVars, task, done, bad, netVars>>

Requests == Calls \cup {Ping}
NoPacket == [n |-> 0, rs |-> {}]
Nobody == [call |-> Ping, outcome |-> "none"]
NoReply == [kind |-> "none", n |-> 0, rs |-> {}]
NoRequest == [state |-> "none", retries |-> 0, packet |-> 0]
NewRequest == [state |-> "new", retries |-> 0, packet |-> 0]

ASSUME RequestsAssumption ==
    /\ IsFiniteSet(Calls) /\ Ping \notin Calls /\ NoTracker \notin Trackers
    /\ Group \in [Calls -> Trackers \cup {NoTracker}]
    /\ Malformed \subseteq Calls
ASSUME LimitsAssumption ==
    {MaxPacket, MaxRetries, MaxPings, MaxServices} \subseteq Nat

Tracked(c) == c \in Calls /\ Group[c] # NoTracker

-----------------------------------------------------------------------------
(* InvocationTracker and InvocationPermit *)

(* Dropping the permits of the requests R *)
Released(R) ==
    [t \in Trackers |-> IF \E c \in R : c \in Calls /\ Group[c] = t THEN 0 ELSE stage[t]]
Release(R) == stage' = Released(R) /\ UNCHANGED sentAt

(* mark_sent of the permits of the requests R *)
Marked(R) == {t \in Trackers : \E c \in R : c \in Calls /\ Group[c] = t}
(* A faulty mark_sent that records the time only *)
FaultyMarkSent(R) ==
    UNCHANGED stage /\ sentAt' = [t \in Trackers |-> t \in Marked(R) \/ sentAt[t]]
MarkSent(R) ==
    /\ stage' = [t \in Trackers |-> IF t \in Marked(R) THEN 2 ELSE stage[t]]
    /\ sentAt' = [t \in Trackers |-> t \in Marked(R) \/ sentAt[t]]

-----------------------------------------------------------------------------
(* Callers *)

(* try_acquire *)
Reserve(c) ==
    /\ caller[c] = "new" /\ Tracked(c)
    /\ stage[Group[c]] = 0
    /\ stage' = [stage EXCEPT ![Group[c]] = 1]
    /\ sentAt' = [sentAt EXCEPT ![Group[c]] = FALSE]
    /\ caller' = [caller EXCEPT ![c] = "reserved"]
    /\ UNCHANGED <<outcome, queueVars, senderVars, task, done, bad, netVars>>

(* A reservation is given up before the invocation is queued: the pool refused
   the body, the admission, or the connection *)
Withdraw(c) ==
    /\ caller[c] \in {"reserved", "refused"} /\ Tracked(c)
    /\ Release({c})
    /\ caller' = [caller EXCEPT ![c] = "gone"]
    /\ UNCHANGED <<outcome, queueVars, senderVars, task, done, bad, netVars>>

(* try_route clones the route under the lock ... *)
TakeRoute(c) ==
    /\ caller[c] = (IF Tracked(c) THEN "reserved" ELSE "new")
    /\ routed
    /\ caller' = [caller EXCEPT ![c] = "routed"]
    /\ UNCHANGED <<outcome, trackerVars, queueVars, senderVars, task, done, bad, netVars>>

(* ... and sends after it; a closed queue gives the invocation back *)
Submit(c) ==
    /\ caller[c] = "routed"
    /\ caller' = [caller EXCEPT ![c] = IF closed THEN "refused" ELSE "waiting"]
    /\ queue' = IF closed THEN queue ELSE Append(queue, c)
    /\ UNCHANGED <<outcome, trackerVars, closed, routed, senderVars, task, done, bad, netVars>>

(* The caller drops its response future *)
Cancel(c) ==
    /\ caller[c] = "waiting"
    /\ caller' = [caller EXCEPT ![c] = "gone"]
    /\ UNCHANGED <<outcome, trackerVars, queueVars, senderVars, task, done, bad, netVars>>

(* The pool drops its handles: disconnect_from_dc, quit *)
Unroute ==
    /\ routed
    /\ routed' = FALSE
    /\ UNCHANGED <<callerVars, trackerVars, queue, closed, senderVars, task, done, bad, netVars>>

-----------------------------------------------------------------------------
(* Request::complete *)

IsGone(r) == r \in Calls /\ caller[r] = "gone"

(* A faulty completion that tells the caller while the reservation stands *)
FaultyRetire(r, o) ==
    /\ UNCHANGED trackerVars
    /\ done' = IF r \in Calls THEN [call |-> r, outcome |-> o] ELSE Nobody
(* The reservation goes first ... (dropping a request goes the same way) *)
Retire(r, o) ==
    /\ Release({r})
    /\ done' = IF r \in Calls THEN [call |-> r, outcome |-> o] ELSE Nobody
(* ... and what Retire leaves alone when nothing is completed *)
Keep == UNCHANGED <<trackerVars, done>>

(* ... then the caller is told, if it still waits *)
Notify ==
    LET c == done.call
    IN  /\ done # Nobody
        /\ done' = Nobody
        /\ outcome' = IF IsGone(c) THEN outcome ELSE [outcome EXCEPT ![c] = done.outcome]
        /\ caller' = IF IsGone(c) THEN caller ELSE [caller EXCEPT ![c] = "told"]
        /\ UNCHANGED <<trackerVars, queueVars, senderVars, task, bad, netVars>>

Drop(r) == req' = [req EXCEPT ![r] = NoRequest]
At(where) == task \in where /\ done = Nobody

-----------------------------------------------------------------------------
(* run_sender: the queue, and one step of the sender *)

(* recv, and enqueue_tracked_body *)
Receive ==
    LET c == Head(queue)
    IN  /\ At({"top", "io"})
        /\ queue # <<>>
        /\ queue' = Tail(queue)
        /\ IF IsGone(c) THEN Release({c}) /\ UNCHANGED <<req, done>>
           ELSE IF c \in Malformed THEN Retire(c, "invalid") /\ UNCHANGED req
           ELSE req' = [req EXCEPT ![c] = NewRequest] /\ Keep
        /\ task' = "top"
        /\ UNCHANGED <<callerVars, closed, routed, packet, partial, made, limits, bad, netVars>>

(* What retain discards: cancelled requests that are not framed.  A faulty one
   discards whatever its caller left *)
FaultyDiscarded(r) == req[r].state # "none" /\ IsGone(r)
Discarded(r) == req[r].state = "new" /\ IsGone(r)

(* What is framed next.  A faulty loop also frames what was sent before *)
FaultyUnframed(q) == q.state \in {"new", "sent"}
Unframed(q) == q.state = "new"

(* try_fill_write: S is what push accepts.  An empty packet has room for every
   request, unless it carries nothing but the session's own messages
   (acknowledgements, a request for salts) *)
TryFillWrite(S, service) ==
    LET cancelled == {r \in Requests : Discarded(r)}
        left == [r \in Requests |-> IF r \in cancelled THEN NoRequest ELSE req[r]]
        new == {r \in Requests : Unframed(left[r])}
        made1 == made + 1
    IN  /\ At({"top"})
        /\ S \subseteq new
        /\ Cardinality(S) <= MaxPacket
        /\ IF packet # NoPacket THEN S = {} /\ ~service
                                ELSE new # {} => S # {} \/ service
        /\ service => S = {} /\ limits.services < MaxServices
        /\ Release(cancelled)
        /\ IF S = {} /\ ~service
           THEN req' = left /\ UNCHANGED <<packet, made>>
           ELSE /\ req' = [r \in Requests |-> IF r \in S THEN
                              [left[r] EXCEPT !.state = "framed", !.packet = made1]
                              ELSE left[r]]
                /\ packet' = [n |-> made1, rs |-> S]
                /\ made' = made1
        /\ limits' = [limits EXCEPT !.services = IF service THEN @ + 1 ELSE @]
        /\ task' = "io"
        /\ UNCHANGED <<callerVars, queueVars, partial, done, bad, netVars>>

(* on_net_write.  What Telegram does with a packet that carries no request
   is between it and the session *)
OnNetWrite(complete) ==
    LET sent == {r \in Requests : req[r].state = "framed"}
    IN  /\ At({"io"})
        /\ packet # NoPacket
        /\ IF complete
           THEN /\ req' = [r \in Requests |-> IF r \in sent
                              THEN [req[r] EXCEPT !.state = "sent"] ELSE req[r]]
                /\ MarkSent(sent)
                /\ inbox' = IF packet.rs = {} THEN inbox ELSE inbox \cup {packet}
                /\ packet' = NoPacket
                /\ partial' = FALSE
           ELSE /\ partial' = TRUE
                /\ UNCHANGED <<req, trackerVars, inbox, packet>>
        /\ task' = "top"
        /\ UNCHANGED <<callerVars, queueVars, made, limits, done, bad, arrived, replies, executed>>

(* on_ping_timeout: a sent ping is forgotten, one that is not yet sent is as
   good as a new one *)
PingOver == req[Ping].state \in {"none", "sent"}
OnPingTimeout ==
    /\ At({"io"})
    /\ limits.pings < MaxPings
    /\ req' = IF PingOver THEN [req EXCEPT ![Ping] = NewRequest] ELSE req
    /\ limits' = [limits EXCEPT !.pings = @ + 1]
    /\ task' = "top"
    /\ UNCHANGED <<callerVars, trackerVars, queueVars, packet, partial, made, done, bad, netVars>>

(* The requests a reply names: one that was framed again since is another
   message *)
Named(m) == {r \in m.rs : req[r].state \in {"framed", "sent"} /\ req[r].packet = m.n}

(* process_result, process_error, process_deserialize_error; a reply that is
   not the last of its kind comes again *)
ProcessResult(m, again) ==
    /\ At({"io"})
    /\ m \in replies /\ m.kind = "answer"
    /\ replies' = IF again THEN replies ELSE replies \ {m}
    /\ IF \E r \in Named(m) : req[r].state = "framed"
       THEN task' = "failing" /\ Keep /\ UNCHANGED req
       ELSE /\ task' = "top"
            /\ IF Named(m) = {} THEN Keep /\ UNCHANGED req
               ELSE \E r \in Named(m) : Retire(r, "answered") /\ Drop(r)
    /\ UNCHANGED <<callerVars, queueVars, packet, partial, made, limits, bad,
                   inbox, arrived, executed>>

(* process_bad_message: the rejected message, or all of its container *)
ProcessBadMessage(m, again) ==
    /\ At({"io"})
    /\ m \in replies /\ m.kind \in {"retry", "reject"}
    /\ replies' = IF again THEN replies ELSE replies \ {m}
    /\ bad' = m
    /\ task' = "bad"
    /\ UNCHANGED <<callerVars, trackerVars, queueVars, senderVars, done,
                   inbox, arrived, executed>>

(* A faulty budget with one retry too many *)
FaultyMayRetry(r) == req[r].retries <= MaxRetries
MayRetry(r) == req[r].retries < MaxRetries

(* A request that is not sent again *)
GiveUp(r) == Drop(r) /\ Retire(r, "badMessage")

BadNext(r) ==
    LET again == [NewRequest EXCEPT !.retries = req[r].retries + 1]
    IN  /\ At({"bad"})
        /\ r \in Named(bad)
        /\ IF req[r].state = "framed"
           THEN task' = "failing" /\ bad' = NoReply /\ Keep /\ UNCHANGED req
           ELSE /\ UNCHANGED <<task, bad>>
                /\ IF IsGone(r) THEN Drop(r) /\ Release({r}) /\ UNCHANGED done
                   ELSE IF bad.kind = "retry" /\ MayRetry(r)
                   THEN req' = [req EXCEPT ![r] = again] /\ Keep
                   ELSE GiveUp(r)
        /\ UNCHANGED <<callerVars, queueVars, packet, partial, made, limits, netVars>>

BadEnd ==
    /\ At({"bad"})
    /\ Named(bad) = {}
    /\ bad' = NoReply
    /\ task' = "top"
    /\ UNCHANGED <<callerVars, trackerVars, queueVars, senderVars, done, netVars>>

-----------------------------------------------------------------------------
(* The end of the connection *)

(* A read or write fails, the peer closes, or no packet came in time *)
Fail ==
    /\ At({"top", "io"})
    /\ task' = "failing"
    /\ UNCHANGED <<callerVars, trackerVars, queueVars, senderVars, done, bad, netVars>>

(* A faulty certainty that looks at the packet being written only *)
FaultyMayHaveBeenSent(r) == req[r].state = "framed" /\ partial
MayHaveBeenSent(r) == req[r].state = "sent" \/ (req[r].state = "framed" /\ partial)

(* on_error: one request of the drained vector *)
OnErrorNext(r) ==
    /\ At({"failing"})
    /\ req[r].state # "none"
    /\ Retire(r, IF MayHaveBeenSent(r) THEN "maybeSent" ELSE "unsent")
    /\ Drop(r)
    /\ UNCHANGED <<callerVars, queueVars, packet, partial, made, limits, task, bad, netVars>>

(* run_sender closes the queue before it drains it *)
CloseQueue ==
    /\ At({"failing"})
    /\ \A r \in Requests : req[r].state = "none"
    /\ closed' = TRUE
    /\ task' = "draining"
    /\ UNCHANGED <<callerVars, trackerVars, queue, routed, senderVars, done, bad, netVars>>

DrainNext ==
    /\ At({"draining"})
    /\ queue # <<>>
    /\ queue' = Tail(queue)
    /\ Retire(Head(queue), "unsent")
    /\ UNCHANGED <<callerVars, closed, routed, senderVars, task, bad, netVars>>

DrainEnd ==
    /\ At({"draining"})
    /\ queue = <<>>
    /\ task' = "ended"
    /\ UNCHANGED <<callerVars, trackerVars, queueVars, senderVars, done, bad, netVars>>

(* The pool aborts the task after it dropped its handles, or the task finds
   that no handle is left: its state is dropped *)
Stop ==
    /\ At({"top", "io"})
    /\ ~routed
    /\ task' = "dropping"
    /\ UNCHANGED <<callerVars, trackerVars, queueVars, senderVars, done, bad, netVars>>

DropRequest(r) ==
    /\ At({"dropping"})
    /\ req[r].state # "none"
    /\ Retire(r, "dropped")
    /\ Drop(r)
    /\ UNCHANGED <<callerVars, queueVars, packet, partial, made, limits, task, bad, netVars>>

DropReceiver ==
    /\ At({"dropping"})
    /\ ~closed
    /\ closed' = TRUE
    /\ UNCHANGED <<callerVars, trackerVars, queue, routed, senderVars, task, done, bad, netVars>>

DropQueued ==
    /\ At({"dropping"})
    /\ closed /\ queue # <<>>
    /\ queue' = Tail(queue)
    /\ Retire(Head(queue), "dropped")
    /\ UNCHANGED <<callerVars, closed, routed, senderVars, task, bad, netVars>>

DropEnd ==
    /\ At({"dropping"})
    /\ closed /\ queue = <<>> /\ \A r \in Requests : req[r].state = "none"
    /\ task' = "ended"
    /\ UNCHANGED <<callerVars, trackerVars, queueVars, senderVars, done, bad, netVars>>

-----------------------------------------------------------------------------
(* Telegram: it takes a packet apart or rejects it as a whole, and answers or
   rejects every message; a rejected message is never executed.  What is on
   its way still arrives after the connection failed. *)

(* A reply to a connection that was torn down goes nowhere *)
Answer(m) == replies' = IF task \in {"top", "io", "bad"} THEN replies \cup {m} ELSE {}

AcceptPacket(p) ==
    /\ p \in inbox
    /\ inbox' = inbox \ {p}
    /\ arrived' = arrived \cup {[n |-> p.n, r |-> r] : r \in p.rs}
    /\ UNCHANGED <<callerVars, trackerVars, queueVars, senderVars, task, done, bad,
                   replies, executed>>

RejectPacket(p, kind) ==
    /\ p \in inbox
    /\ inbox' = inbox \ {p}
    /\ Answer([kind |-> kind, n |-> p.n, rs |-> p.rs])
    /\ UNCHANGED <<callerVars, trackerVars, queueVars, senderVars, task, done, bad,
                   arrived, executed>>

RejectMessage(m, kind) ==
    /\ m \in arrived
    /\ arrived' = arrived \ {m}
    /\ Answer([kind |-> kind, n |-> m.n, rs |-> {m.r}])
    /\ UNCHANGED <<callerVars, trackerVars, queueVars, senderVars, task, done, bad,
                   inbox, executed>>

(* The answer: a result or an error, decodable or not *)
Execute(m) ==
    /\ m \in arrived
    /\ arrived' = arrived \ {m}
    /\ Answer([kind |-> "answer", n |-> m.n, rs |-> {m.r}])
    /\ executed' = [executed EXCEPT ![m.r] = @ + 1]
    /\ UNCHANGED <<callerVars, trackerVars, queueVars, senderVars, task, done, bad, inbox>>

-----------------------------------------------------------------------------
Init ==
    /\ caller = [c \in Calls |-> "new"] /\ outcome = [c \in Calls |-> "none"]
    /\ stage = [t \in Trackers |-> 0] /\ sentAt = [t \in Trackers |-> FALSE]
    /\ queue = <<>> /\ closed = FALSE /\ routed = TRUE
    /\ task = "top"
    /\ req = [r \in Requests |-> NoRequest]
    /\ packet = NoPacket /\ partial = FALSE /\ made = 0
    /\ done = Nobody /\ bad = NoReply
    /\ limits = [pings |-> 0, services |-> 0]
    /\ inbox = {} /\ arrived = {} /\ replies = {}
    /\ executed = [r \in Requests |-> 0]

Caller(c) == Reserve(c) \/ Withdraw(c) \/ TakeRoute(c) \/ Submit(c) \/ Cancel(c)

Fill == \E S \in SUBSET Requests, service \in BOOLEAN : TryFillWrite(S, service)

Handle == \E m \in replies, again \in BOOLEAN :
              ProcessResult(m, again) \/ ProcessBadMessage(m, again)

(* The rest of a handler, once it has started *)
Proceed ==
    \/ Notify \/ BadEnd \/ CloseQueue \/ DrainNext \/ DrainEnd
    \/ DropReceiver \/ DropQueued \/ DropEnd
    \/ \E r \in Requests : BadNext(r) \/ OnErrorNext(r) \/ DropRequest(r)

Task ==
    \/ Receive \/ Fill \/ Handle \/ OnPingTimeout \/ Fail \/ Stop \/ Proceed
    \/ \E complete \in BOOLEAN : OnNetWrite(complete)

Telegram ==
    \/ \E p \in inbox : AcceptPacket(p)
    \/ \E p \in inbox, kind \in {"retry", "reject"} : RejectPacket(p, kind)
    \/ \E m \in arrived, kind \in {"retry", "reject"} : RejectMessage(m, kind)
    \/ \E m \in arrived : Execute(m)

Next == Task \/ Telegram \/ Unroute \/ \E c \in Calls : Caller(c)

Spec == Init /\ [][Next]_vars

(* The scheduler polls the task again and again, and its select! starts with
   any branch; push takes requests in the vector's order; the socket
   takes and brings whole packets in the end, and Telegram answers *)
Frames(r) == \E S \in SUBSET Requests : r \in S /\ TryFillWrite(S, FALSE)
IsAnswered(r) == \E m \in replies :
    r \in m.rs /\ (ProcessResult(m, FALSE) \/ ProcessBadMessage(m, FALSE))

-----------------------------------------------------------------------------
(* Properties *)

Reply == [kind : {"none", "retry", "reject", "answer"},
          n : Nat, rs : SUBSET Requests]
Outcomes == {"none", "answered", "badMessage", "invalid", "unsent", "maybeSent", "dropped"}

(* Every variable has its type *)
TypeOK ==
    /\ caller \in [Calls -> {"new", "reserved", "routed", "refused", "waiting", "gone", "told"}]
    /\ outcome \in [Calls -> Outcomes]
    /\ stage \in [Trackers -> 0 .. 2] /\ sentAt \in [Trackers -> BOOLEAN]
    /\ queue \in Seq(Calls) /\ closed \in BOOLEAN /\ routed \in BOOLEAN
    /\ task \in {"top", "io", "bad", "failing", "draining", "dropping", "ended"}
    /\ req \in [Requests -> [state : {"none", "new", "framed", "sent"},
                             retries : 0 .. MaxRetries, packet : Nat]]
    /\ packet \in [n : Nat, rs : SUBSET Requests] /\ partial \in BOOLEAN /\ made \in Nat
    /\ done \in [call : Requests, outcome : Outcomes] /\ bad \in Reply
    /\ limits \in [pings : Nat, services : Nat]
    /\ inbox \subseteq [n : Nat, rs : SUBSET Requests]
    /\ arrived \subseteq [n : Nat, r : Requests]
    /\ replies \subseteq Reply
    /\ executed \in [Requests -> Nat]

(* The messages of r Telegram has not answered or rejected yet *)
OnTheWay(r) == {p \in inbox : r \in p.rs} \cup {m \in arrived : m.r = r}

(* A caller told that its request was certainly not sent, that it was invalid
   or that Telegram rejected it may send it again: it was not executed and
   never will be *)
DeliveryCertainty ==
    \A c \in Calls : outcome[c] \in {"unsent", "invalid", "badMessage"}
                        => executed[c] = 0 /\ OnTheWay(c) = {}

(* However often a request is framed again after a rejection, Telegram executes
   it at most once ("make sure we only ever send the same request once") *)
ExecutedOnce == \A c \in Calls : executed[c] <= 1

(* The owners of the reservation of tracker t *)
Owners(t) ==
    {c \in Calls : /\ Group[c] = t
                   /\ \/ caller[c] \in {"reserved", "routed", "refused"}
                      \/ \E i \in DOMAIN queue : queue[i] = c
                      \/ req[c].state # "none"}

(* A reservation is exclusive, it lasts as long as some request owns it, even
   after the caller left, and its stage is Sent exactly when that request was
   fully written once *)
ReservationExclusive ==
    \A t \in Trackers :
        /\ Cardinality(Owners(t)) = (IF stage[t] = 0 THEN 0 ELSE 1)
        /\ stage[t] = 2 => sentAt[t]
        /\ \A c \in Owners(t) :
              stage[t] = 2 <=> req[c].state = "sent" \/ req[c].retries > 0

(* Requests of one tracker never overlap at Telegram while the connection
   lives: a caller that left does not make room for the next one before its
   own request is answered or rejected *)
NoOverlap ==
    task \in {"top", "io", "bad"} =>
        \A c, d \in Calls :
            c # d /\ Tracked(c) /\ Group[c] = Group[d] /\ OnTheWay(c) # {}
                => OnTheWay(d) = {} /\ req[d].state # "framed"

(* The write buffer and the requests agree: exactly the requests of the packet
   being written are framed, and nothing Telegram says names one of them
   ("response for an unsent request") *)
PacketKeptWhole ==
    /\ \A r \in Requests : task \in {"top", "io", "bad"} =>
          (req[r].state = "framed" <=> r \in packet.rs)
    /\ \A m \in replies : \A r \in m.rs : req[r].state = "framed" => req[r].packet # m.n

(* What the connection promises its callers *)
Promise == INSTANCE Invocations WITH
               executed <- [c \in Calls |-> executed[c]], outcome <- outcome
Promised == Promise!Spec

(* An invocation that is queued or being sent, or that its caller waits for.  Each
   is settled in the end: the caller gets its outcome unless it leaves, and the
   request gives up its reservation *)
Unsettled(c) ==
    \/ caller[c] = "waiting" \/ req[c].state # "none"
    \/ \E i \in DOMAIN queue : queue[i] = c
=============================================================================
