---------------------------- MODULE SenderProofs ----------------------------
(* Theorems about Sender: its safety properties, and that it keeps the promise
   of Invocations, for any number of callers, trackers and packets *)
EXTENDS Sender, SequenceTheorems, FiniteSetTheorems, TLAPS

-----------------------------------------------------------------------------
(* The inductive invariant *)

Living == {"top", "io", "bad"}
Early == {"new", "reserved", "routed", "refused"}
NotSent == {"unsent", "invalid", "badMessage"}
Rejections == {"retry", "reject"}

(* Nothing of call c is between the connection and Telegram *)
Away(c) == (\A p \in inbox : c \notin p.rs) /\ (\A m \in arrived : m.r # c)
(* ... and it has had no effect *)
Quiet(c) == executed[c] = 0 /\ Away(c)
Queued(c) == \E i \in DOMAIN queue : queue[i] = c

(* Number n belongs to a packet that was written whole *)
Past(n) == n <= made /\ (packet # NoPacket => n < made)
Numbers ==
    /\ packet # NoPacket => packet.n = made /\ made > 0
    /\ \A p \in inbox : Past(p.n)
    /\ \A m \in arrived : Past(m.n)
    /\ \A m \in replies : Past(m.n)
    /\ Past(bad.n)

(* The framed requests are those of the packet in the write buffer *)
Framing ==
    /\ \A r \in Requests : req[r].state = "framed" =>
          r \in packet.rs /\ req[r].packet = packet.n
    /\ task \in Living => \A r \in packet.rs : req[r].state = "framed"

(* An invocation is in one place at a time *)
Places ==
    /\ \A i, j \in DOMAIN queue : queue[i] = queue[j] => i = j
    /\ \A r \in Requests : req[r].state = "none" => req[r] = NoRequest
    /\ done # Nobody => done.call \in Calls /\ done.outcome # "none"
    /\ \A c \in Calls :
          /\ Queued(c) => req[c].state = "none"
          /\ done.call = c => req[c].state = "none" /\ ~Queued(c)
          /\ caller[c] \in Early \cup {"told"} =>
                ~Queued(c) /\ req[c].state = "none" /\ done.call # c
          /\ outcome[c] # "none" <=> caller[c] = "told"

(* Telegram has at most one message of an invocation, and none that it executed *)
Unique ==
    /\ \A p, q \in inbox : \A c \in Calls : c \in p.rs /\ c \in q.rs => p = q
    /\ \A m, k \in arrived : m.r \in Calls /\ m.r = k.r => m = k
    /\ \A p \in inbox, m \in arrived : m.r \in Calls => m.r \notin p.rs
    /\ \A c \in Calls : executed[c] # 0 => executed[c] = 1 /\ Away(c)

(* Nothing has left the connection since call c was made or rejected, or its
   caller has been or is about to be told so *)
Fresh(c) ==
    \/ caller[c] \in Early \/ Queued(c)
    \/ req[c].state \in {"new", "framed"}
    \/ done.call = c /\ done.outcome \in NotSent
    \/ outcome[c] \in NotSent
(* A rejection of what was sent last leaves nothing behind *)
Void(m) ==
    m.kind \in Rejections => \A c \in Calls \cap m.rs :
        req[c].state = "sent" /\ req[c].packet = m.n => Quiet(c)
Truthful ==
    /\ \A c \in Calls : Fresh(c) => Quiet(c)
    /\ bad = NoReply \/ bad.kind \in Rejections
    /\ Void(bad) /\ \A m \in replies : Void(m)
    /\ \A m \in replies : m.kind = "answer" => \A c \in Calls \cap m.rs : executed[c] # 0
    /\ done.call \in Calls /\ done.outcome = "answered" => executed[done.call] # 0

(* While the connection lives, what Telegram has is owned by a sent request *)
Alive == task \in Living => \A c \in Calls : req[c].state # "sent" => Away(c)

(* A tracker that is not idle has one owner *)
Reserved ==
    \A t \in Trackers :
        /\ stage[t] # 0 <=> Owners(t) # {}
        /\ \A c, d \in Owners(t) : c = d
        /\ \A c \in Owners(t) :
              stage[t] = 2 <=> req[c].state = "sent" \/ req[c].retries > 0

(* What was sent was sent at some time *)
Stamped == \A t \in Trackers : stage[t] = 2 => sentAt[t] = TRUE

Inv == /\ TypeOK /\ Numbers /\ Framing /\ Places
       /\ Unique /\ Truthful /\ Alive /\ Reserved /\ Stamped

-----------------------------------------------------------------------------
(* What each part of the invariant depends on *)

(* Packet numbers matter to the write buffer, the packets and the replies *)
LEMMA NumbersFrame ==
    Numbers /\ UNCHANGED <<packet, made, inbox, arrived, replies, bad>> => Numbers'
BY DEF Numbers, Past, NoPacket

(* Framing relates the requests to the write buffer *)
LEMMA FramingFrame == Framing /\ UNCHANGED <<req, packet, task>> => Framing'
BY DEF Framing, Requests, Living

(* The place of an invocation: its caller, the queue, the vector, a completion *)
LEMMA PlacesFrame ==
    Places /\ UNCHANGED <<queue, req, done, caller, outcome>> => Places'
BY DEF Places, Queued, Requests, Early, NoRequest, Nobody

(* Uniqueness speaks of Telegram only *)
LEMMA UniqueFrame == Unique /\ UNCHANGED <<inbox, arrived, executed>> => Unique'
BY DEF Unique, Away

(* Truthfulness relates what callers are told to what Telegram has *)
LEMMA TruthfulFrame ==
    Truthful /\ UNCHANGED <<caller, queue, req, done, outcome, netVars, bad>> => Truthful'
BY DEF Truthful, Fresh, Void, Quiet, Away, Queued, netVars, Early, NotSent, Rejections, NoReply

(* Ownership of what is under way *)
LEMMA AliveFrame == Alive /\ UNCHANGED <<task, req, inbox, arrived>> => Alive'
BY DEF Alive, Away, Living

(* Ownership of trackers *)
LEMMA ReservedFrame ==
    Reserved /\ UNCHANGED <<caller, queue, req, stage>> => Reserved'
BY DEF Reserved, Owners

(* Owners that stay the same keep their reservations *)
LEMMA SameOwners ==
    ASSUME Reserved, UNCHANGED <<req, stage>>, \A t \in Trackers : Owners(t)' = Owners(t)
    PROVE  Reserved'
BY DEF Reserved

(* The time of sending goes with the stage *)
LEMMA StampedFrame == Stamped /\ UNCHANGED <<stage, sentAt>> => Stamped'
BY DEF Stamped

(* Permits that are dropped leave idle trackers *)
LEMMA StampedRelease == ASSUME Stamped, NEW R, Release(R) PROVE Stamped'
BY DEF Stamped, Release, Released

-----------------------------------------------------------------------------
(* Sequences *)

(* Taking the head of a queue without repetition *)
LEMMA TakeHead ==
    ASSUME TypeOK, Places, queue # <<>>, queue' = Tail(queue), NEW h, h = Head(queue)
    PROVE  /\ h \in Calls /\ queue' \in Seq(Calls)
           /\ Queued(h) /\ ~Queued(h)'
           /\ \A c \in Calls : c # h => (Queued(c)' <=> Queued(c))
           /\ \A i, j \in DOMAIN queue' : queue'[i] = queue'[j] => i = j
<1> DEFINE n == Len(queue)
<1>1. queue \in Seq(Calls) /\ n \in Nat /\ n > 0 /\ DOMAIN queue = 1 .. n
  BY EmptySeq, LenProperties DEF TypeOK
<1>2. /\ queue' \in Seq(Calls) /\ DOMAIN queue' = 1 .. n - 1
      /\ \A i \in 1 .. n - 1 : queue'[i] = queue[i + 1]
  BY <1>1, HeadTailProperties, LenProperties
<1>3. h = queue[1] /\ h \in Calls
  BY <1>1, HeadTailProperties
<1>4. \A i, j \in 1 .. n : queue[i] = queue[j] => i = j
  BY <1>1 DEF Places
<1> HIDE DEF n
<1>5. Queued(h)
  BY <1>1, <1>3 DEF Queued
<1>6. ~Queued(h)'
  <2>1. ASSUME NEW i \in 1 .. n - 1
        PROVE  queue'[i] # h
    <3>1. i + 1 \in 1 .. n /\ 1 \in 1 .. n /\ i + 1 # 1
      BY <1>1
    <3> QED BY <3>1, <1>2, <1>3, <1>4
  <2> QED BY <2>1, <1>2 DEF Queued
<1>7. ASSUME NEW c \in Calls, c # h
      PROVE  Queued(c)' <=> Queued(c)
  <2>1. ASSUME NEW i \in 1 .. n, queue[i] = c
        PROVE  i - 1 \in 1 .. n - 1 /\ queue'[i - 1] = c
    <3>1. i # 1
      BY <2>1, <1>3, <1>7
    <3>2. i - 1 \in 1 .. n - 1 /\ (i - 1) + 1 = i
      BY <3>1, <1>1
    <3> QED BY <2>1, <3>2, <1>2
  <2>2. ASSUME NEW i \in 1 .. n - 1, queue'[i] = c
        PROVE  i + 1 \in 1 .. n /\ queue[i + 1] = c
    BY <2>2, <1>1, <1>2
  <2> QED BY <2>1, <2>2, <1>1, <1>2 DEF Queued
<1>8. \A i, j \in DOMAIN queue' : queue'[i] = queue'[j] => i = j
  <2>1. ASSUME NEW i \in 1 .. n - 1, NEW j \in 1 .. n - 1, queue'[i] = queue'[j]
        PROVE  i = j
    <3>1. i + 1 \in 1 .. n /\ j + 1 \in 1 .. n
      BY <1>1
    <3>2. i + 1 = j + 1
      BY <2>1, <3>1, <1>2, <1>4
    <3> QED BY <3>2
  <2> QED BY <2>1, <1>2
<1> QED BY <1>2, <1>3, <1>5, <1>6, <1>7, <1>8

(* Queueing an invocation that is not queued *)
LEMMA Enqueued ==
    ASSUME TypeOK, Places, NEW c \in Calls, ~Queued(c), queue' = Append(queue, c)
    PROVE  /\ queue' \in Seq(Calls) /\ Queued(c)'
           /\ \A d \in Calls : d # c => (Queued(d)' <=> Queued(d))
           /\ \A i, j \in DOMAIN queue' : queue'[i] = queue'[j] => i = j
<1>1. queue \in Seq(Calls) /\ Len(queue) \in Nat /\ DOMAIN queue = 1 .. Len(queue)
  BY LenProperties DEF TypeOK
<1>2. /\ queue' \in Seq(Calls) /\ DOMAIN queue' = 1 .. Len(queue) + 1
      /\ \A i \in 1 .. Len(queue) : queue'[i] = queue[i]
      /\ queue'[Len(queue) + 1] = c
  BY <1>1, AppendProperties, LenProperties
<1>3. \A i, j \in 1 .. Len(queue) : queue[i] = queue[j] => i = j
  BY <1>1 DEF Places
<1>4. \A i \in 1 .. Len(queue) : queue[i] # c
  BY <1>1 DEF Queued
<1>5. \A i \in 1 .. Len(queue) + 1 : i \in 1 .. Len(queue) \/ i = Len(queue) + 1
  BY <1>1
<1>6. \A i, j \in DOMAIN queue' : queue'[i] = queue'[j] => i = j
  BY <1>2, <1>3, <1>4, <1>5
<1>7. Queued(c)' /\ \A d \in Calls : d # c => (Queued(d)' <=> Queued(d))
  BY <1>1, <1>2, <1>5 DEF Queued
<1> QED BY <1>2, <1>6, <1>7

-----------------------------------------------------------------------------
(* Callers *)

(* Callers leave the connection's own parts of the invariant alone *)
LEMMA CallerFrame ==
    ASSUME Inv, UNCHANGED <<senderVars, task, done, bad, netVars>>
    PROVE  Numbers' /\ Framing' /\ Unique' /\ Alive'
BY NumbersFrame, FramingFrame, UniqueFrame, AliveFrame DEF Inv, senderVars, netVars

(* try_acquire *)
LEMMA ReserveStep == ASSUME Inv, NEW c \in Calls, Reserve(c) PROVE Inv'
<1> USE DEF Reserve, queueVars, senderVars, netVars
<1> DEFINE k == Group[c]
<1>0. k \in Trackers
  BY RequestsAssumption DEF Tracked
<1>1. TypeOK'
  <2>1. caller' \in [Calls -> {"new", "reserved", "routed", "refused", "waiting", "gone", "told"}]
    BY DEF Inv, TypeOK
  <2>2. stage' \in [Trackers -> 0 .. 2]
    BY <1>0 DEF Inv, TypeOK
  <2>3. sentAt' \in [Trackers -> BOOLEAN]
    BY <1>0, Zenon DEF Inv, TypeOK
  <2> QED BY <2>1, <2>2, <2>3 DEF Inv, TypeOK, Reply, Requests
<1>2. Places'
  BY DEF Inv, TypeOK, Places, Queued, Requests, Early, NoRequest, Nobody
<1>3. Truthful'
  BY DEF Inv, TypeOK, Truthful, Fresh, Void, Quiet, Away, Queued, Early, NotSent, Rejections
<1>4. Reserved'
  <2>1. req[c].state = "none" /\ req[c].retries = 0
    BY DEF Inv, Places, Requests, Early, NoRequest
  <2>2. ASSUME NEW t \in Trackers, NEW d \in Calls
        PROVE  d \in Owners(t)' <=> d \in Owners(t) \/ (d = c /\ t = k)
    BY DEF Owners, Inv, TypeOK
  <2>3. Owners(k) = {}
    BY <1>0 DEF Inv, Reserved
  <2>4. \A t \in Trackers : Owners(t) \subseteq Calls /\ Owners(t)' \subseteq Calls
    BY DEF Owners
  <2>5. Owners(k)' = {c} /\ \A t \in Trackers : t # k => Owners(t)' = Owners(t)
    BY <2>2, <2>3, <2>4, <1>0
  <2>6. stage'[k] = 1 /\ \A t \in Trackers : t # k => stage'[t] = stage[t]
    BY <1>0 DEF Inv, TypeOK
  <2> HIDE DEF k, Reserve
  <2>7. UNCHANGED req
    BY DEF Reserve
  <2> QED BY <2>1, <2>5, <2>6, <2>7, <1>0 DEF Inv, Reserved
<1>5. Stamped'
  BY <1>0 DEF Inv, TypeOK, Stamped
<1> QED BY <1>1, <1>2, <1>3, <1>4, <1>5, CallerFrame DEF Inv

(* The permit of an invocation that was never queued is dropped *)
LEMMA WithdrawStep == ASSUME Inv, NEW c \in Calls, Withdraw(c) PROVE Inv'
<1>0. Stamped'
  BY StampedRelease DEF Inv, Withdraw
<1> USE DEF Withdraw, Release, Released, queueVars, senderVars, netVars
<1>1. TypeOK'
  BY DEF Inv, TypeOK, Tracked, Reply, Requests
<1>2. Places'
  BY DEF Inv, TypeOK, Places, Queued, Requests, Early, NoRequest, Nobody
<1>3. Truthful'
  BY DEF Inv, TypeOK, Truthful, Fresh, Void, Quiet, Away, Queued, Early, NotSent, Rejections
<1>4. Reserved'
  <2>1. req[c].state = "none" /\ Group[c] \in Trackers /\ ~Queued(c)
    BY RequestsAssumption DEF Inv, Places, Requests, Early, NoRequest, Tracked
  <2>2. ASSUME NEW t \in Trackers, NEW d \in Calls
        PROVE  d \in Owners(t)' <=> d \in Owners(t) /\ d # c
    BY <2>1 DEF Owners, Queued, Inv, TypeOK
  <2>3. c \in Owners(Group[c])
    BY <2>1 DEF Owners
  <2>4. \A t \in Trackers : Owners(t) \subseteq Calls /\ Owners(t)' \subseteq Calls
    BY DEF Owners
  <2>5. \A t \in Trackers : t # Group[c] => c \notin Owners(t)
    BY DEF Owners
  <2>6. stage' = [t \in Trackers |-> IF t = Group[c] THEN 0 ELSE stage[t]]
    OBVIOUS
  <2> QED BY <2>1, <2>2, <2>3, <2>4, <2>5, <2>6 DEF Inv, TypeOK, Reserved
<1> QED BY <1>1, <1>2, <1>3, <1>4, <1>0, CallerFrame DEF Inv

(* try_route finds a route *)
LEMMA TakeRouteStep == ASSUME Inv, NEW c \in Calls, TakeRoute(c) PROVE Inv'
<1> USE DEF TakeRoute, queueVars, senderVars, netVars, trackerVars
<1>1. TypeOK'
  BY DEF Inv, TypeOK, Reply, Requests
<1>2. Places'
  BY DEF Inv, TypeOK, Places, Queued, Requests, Early, NoRequest, Nobody
<1>3. Truthful'
  BY DEF Inv, TypeOK, Truthful, Fresh, Void, Quiet, Away, Queued, Early, NotSent, Rejections
<1>4. Reserved'
  <2>1. \A t \in Trackers : Owners(t)' = Owners(t)
    BY RequestsAssumption DEF Owners, Tracked, Inv, TypeOK
  <2>2. UNCHANGED <<req, stage>>
    OBVIOUS
  <2> HIDE DEF TakeRoute
  <2> QED BY <2>1, <2>2, SameOwners DEF Inv
<1> QED BY <1>1, <1>2, <1>3, <1>4, CallerFrame, StampedFrame DEF Inv

(* The clone of the route accepts or refuses *)
LEMMA SubmitStep == ASSUME Inv, NEW c \in Calls, Submit(c) PROVE Inv'
<1> USE DEF Submit, senderVars, netVars, trackerVars
<1>1. CASE closed
  <2>1. TypeOK'
    BY <1>1 DEF Inv, TypeOK, Reply, Requests
  <2>2. Places'
    BY <1>1 DEF Inv, TypeOK, Places, Queued, Requests, Early, NoRequest, Nobody
  <2>3. Truthful'
    BY <1>1 DEF Inv, TypeOK, Truthful, Fresh, Void, Quiet, Away, Queued, Early, NotSent, Rejections
  <2>4. Reserved'
    <3>1. \A t \in Trackers : Owners(t)' = Owners(t)
      BY <1>1 DEF Owners, Inv, TypeOK
    <3> QED BY <3>1, SameOwners DEF Inv
  <2> QED BY <2>1, <2>2, <2>3, <2>4, CallerFrame, StampedFrame DEF Inv
<1>2. CASE ~closed
  <2>1. ~Queued(c) /\ req[c].state = "none" /\ done.call # c
    BY DEF Inv, Places, Early
  <2>2. /\ queue' \in Seq(Calls) /\ Queued(c)'
        /\ \A d \in Calls : d # c => (Queued(d)' <=> Queued(d))
        /\ \A i, j \in DOMAIN queue' : queue'[i] = queue'[j] => i = j
    BY <2>1, <1>2, Enqueued DEF Inv
  <2>3. TypeOK'
    BY <1>2, <2>2 DEF Inv, TypeOK, Reply, Requests
  <2>4. \A d \in Calls : d # c => caller'[d] = caller[d]
    BY <1>2 DEF Inv, TypeOK
  <2>5. caller'[c] = "waiting"
    BY <1>2 DEF Inv, TypeOK
  <2>6. Places'
    <3>1. ASSUME NEW d \in Calls
          PROVE  /\ Queued(d)' => req[d].state = "none"
                 /\ done.call = d => req[d].state = "none" /\ ~Queued(d)'
                 /\ caller'[d] \in Early \cup {"told"} =>
                       ~Queued(d)' /\ req[d].state = "none" /\ done.call # d
                 /\ outcome[d] # "none" <=> caller'[d] = "told"
      BY <2>1, <2>2, <2>4, <2>5 DEF Inv, Places, Early
    <3> QED BY <2>2, <3>1 DEF Inv, Places, Requests, NoRequest, Nobody
  <2>7. Truthful'
    <3>1. ASSUME NEW d \in Calls, Fresh(d)'
          PROVE  Fresh(d)
      BY <3>1, <2>2, <2>4, <2>5 DEF Fresh, Early
    <3> QED BY <3>1 DEF Inv, Truthful, Void, Quiet, Away, Rejections
  <2>8. Reserved'
    <3>1. ASSUME NEW t \in Trackers, NEW d \in Calls
          PROVE  d \in Owners(t)' <=> d \in Owners(t)
      BY <2>2, <2>4, <2>5 DEF Owners, Queued
    <3>2. \A t \in Trackers : Owners(t)' = Owners(t)
      BY <3>1 DEF Owners
    <3> QED BY <3>2, SameOwners DEF Inv
  <2> QED BY <2>3, <2>6, <2>7, <2>8, CallerFrame, StampedFrame DEF Inv
<1> QED BY <1>1, <1>2

(* A response future is dropped *)
LEMMA CancelStep == ASSUME Inv, NEW c \in Calls, Cancel(c) PROVE Inv'
<1> USE DEF Cancel, queueVars, senderVars, netVars, trackerVars
<1>1. TypeOK'
  BY DEF Inv, TypeOK, Reply, Requests
<1>2. Places'
  BY DEF Inv, TypeOK, Places, Queued, Requests, Early, NoRequest, Nobody
<1>3. Truthful'
  BY DEF Inv, TypeOK, Truthful, Fresh, Void, Quiet, Away, Queued, Early, NotSent, Rejections
<1>4. Reserved'
  <2>1. \A t \in Trackers : Owners(t)' = Owners(t)
    BY DEF Owners, Inv, TypeOK
  <2> QED BY <2>1, SameOwners DEF Inv
<1> QED BY <1>1, <1>2, <1>3, <1>4, CallerFrame, StampedFrame DEF Inv

(* The pool drops its handles *)
LEMMA UnrouteStep == Inv /\ Unroute => Inv'
<1> SUFFICES ASSUME Inv, Unroute PROVE Inv'
  OBVIOUS
<1> USE DEF Unroute, callerVars, trackerVars, senderVars, netVars
<1>1. TypeOK'
  BY DEF Inv, TypeOK, Reply, Requests
<1> QED
  BY <1>1, CallerFrame, PlacesFrame, TruthfulFrame, ReservedFrame, StampedFrame DEF Inv

-----------------------------------------------------------------------------
(* Completing and dropping requests *)

(* The shape of requests and replies *)
RequestState == [state : {"none", "new", "framed", "sent"},
                 retries : 0 .. MaxRetries, packet : Nat]

(* The constant records have the types of the variables that hold them *)
LEMMA RequestTypes ==
    /\ NoRequest \in RequestState /\ NewRequest \in RequestState
    /\ NoReply \in Reply /\ Nobody \in [call : Requests, outcome : Outcomes]
    /\ NoPacket \in [n : Nat, rs : SUBSET Requests]
    /\ Calls \subseteq Requests /\ Ping \in Requests /\ Ping \notin Calls
BY RequestsAssumption, LimitsAssumption
   DEF RequestState, NoRequest, NewRequest, NoReply, Nobody, NoPacket, Reply, Outcomes, Requests

(* The requests R leave and drop their permits; the others keep their place *)
LEMMA LeaveReserved ==
    ASSUME Inv, NEW R \in SUBSET Requests, Release(R), UNCHANGED caller,
           \A d \in Calls \ R :
               /\ Queued(d)' <=> Queued(d)
               /\ req'[d].state = "none" <=> req[d].state = "none"
               /\ req'[d].state = "sent" <=> req[d].state = "sent"
               /\ req'[d].retries = req[d].retries,
           \A d \in Calls \cap R :
               /\ Queued(d) \/ req[d].state # "none"
               /\ ~Queued(d)' /\ req'[d].state = "none"
    PROVE  Reserved'
<1>1. \A d \in Calls \cap R : caller[d] \notin {"reserved", "routed", "refused"}
  BY DEF Inv, Places, Early
<1>2. ASSUME NEW t \in Trackers, NEW d \in Calls
      PROVE  /\ d \in Owners(t) <=> Group[d] = t /\
                   (caller[d] \in {"reserved", "routed", "refused"} \/ Queued(d) \/ req[d].state # "none")
             /\ d \in Owners(t)' <=> Group[d] = t /\
                   (caller'[d] \in {"reserved", "routed", "refused"} \/ Queued(d)' \/ req'[d].state # "none")
  BY DEF Owners, Queued
<1>3. ASSUME NEW t \in Trackers
      PROVE  Owners(t) \subseteq Calls /\ Owners(t)' \subseteq Calls
  BY DEF Owners
<1>4. ASSUME NEW t \in Trackers
      PROVE  /\ stage'[t] # 0 <=> Owners(t)' # {}
             /\ \A c, d \in Owners(t)' : c = d
             /\ \A c \in Owners(t)' :
                   stage'[t] = 2 <=> req'[c].state = "sent" \/ req'[c].retries > 0
  <2>1. CASE \E c \in R : c \in Calls /\ Group[c] = t
    <3>1. PICK c \in R : c \in Calls /\ Group[c] = t
      BY <2>1
    <3>2. c \in Owners(t)
      BY <3>1, <1>2
    <3>3. \A d \in Owners(t) : d = c
      BY <3>2 DEF Inv, Reserved
    <3>4. \A d \in Calls : d \notin Owners(t)'
      BY <3>1, <3>2, <3>3, <1>1, <1>2
    <3>5. Owners(t)' = {}
      BY <3>4, <1>3
    <3>6. stage'[t] = 0
      BY <2>1 DEF Release, Released
    <3> QED BY <3>5, <3>6
  <2>2. CASE ~\E c \in R : c \in Calls /\ Group[c] = t
    <3>1. \A d \in Calls : d \in Owners(t)' <=> d \in Owners(t)
      BY <2>2, <1>2
    <3>2. Owners(t)' = Owners(t)
      BY <3>1, <1>3
    <3>3. stage'[t] = stage[t]
      BY <2>2 DEF Release, Released
    <3>4. \A d \in Owners(t) : d \in Calls \ R
      BY <2>2, <1>2, <1>3
    <3> QED BY <3>2, <3>3, <3>4 DEF Inv, Reserved
  <2> QED BY <2>1, <2>2
<1> QED BY <1>4 DEF Reserved

(* Dropping permits keeps the types of the trackers *)
LEMMA ReleaseType ==
    ASSUME TypeOK, NEW R, Release(R)
    PROVE  stage' \in [Trackers -> 0 .. 2] /\ sentAt' \in [Trackers -> BOOLEAN]
BY DEF TypeOK, Release, Released

(* Request r is completed with outcome o, or dropped when nobody waits for it *)
Completes(r, o) ==
    /\ Release({r}) /\ UNCHANGED <<caller, outcome, inbox, arrived, executed>>
    /\ done = Nobody
    /\ done' = Nobody \/ (r \in Calls /\ done' = [call |-> r, outcome |-> o])
(* ... and leaves the place where it was *)
Leaves(r) ==
    /\ req'[r] = NoRequest /\ ~Queued(r)'
    /\ req[r].state # "none" \/ Queued(r)
    /\ \A d \in Requests \ {r} : req'[d] = req[d]
    /\ \A d \in Calls \ {r} : Queued(d)' <=> Queued(d)
    /\ \A i, j \in DOMAIN queue' : queue'[i] = queue'[j] => i = j

(* Request::complete keeps the parts that speak of callers and trackers, as long as
   what the caller will be told is true *)
LEMMA Settle ==
    ASSUME Inv, NEW r \in Requests, NEW o \in Outcomes \ {"none"},
           Completes(r, o), Leaves(r),
           replies' \subseteq replies, bad' \in {bad, NoReply},
           r \in Calls => (o \in NotSent => Quiet(r)) /\ (o = "answered" => executed[r] # 0)
    PROVE  /\ Places' /\ Truthful' /\ Reserved' /\ Stamped'
           /\ stage' \in [Trackers -> 0 .. 2] /\ sentAt' \in [Trackers -> BOOLEAN]
           /\ done' \in [call : Requests, outcome : Outcomes]
<1>1. Reserved'
  <2>1. Release({r}) /\ UNCHANGED caller
    BY DEF Completes
  <2>2. \A d \in Calls \ {r} : /\ Queued(d)' <=> Queued(d)
                               /\ req'[d] = req[d]
    BY RequestTypes DEF Leaves
  <2>3. \A d \in Calls \cap {r} : /\ Queued(d) \/ req[d].state # "none"
                                  /\ ~Queued(d)' /\ req'[d].state = "none"
    BY DEF Leaves, NoRequest
  <2> QED BY <2>1, <2>2, <2>3, LeaveReserved
<1>2. Stamped' /\ stage' \in [Trackers -> 0 .. 2] /\ sentAt' \in [Trackers -> BOOLEAN]
  BY StampedRelease, ReleaseType DEF Completes, Inv
<1>3. done' \in [call : Requests, outcome : Outcomes]
  BY RequestTypes DEF Completes
<1>4. /\ r \in Calls => caller[r] \notin Early \cup {"told"} /\ outcome[r] = "none"
      /\ UNCHANGED <<caller, outcome, inbox, arrived, executed>>
      /\ done = Nobody /\ Nobody.call \notin Calls
  BY RequestTypes DEF Inv, Places, Completes, Leaves, Nobody
<1>5. \A d \in Calls : done'.call = d => d = r /\ done'.outcome = o /\ done'.outcome # "none"
  BY RequestTypes DEF Completes, Nobody
<1>6. Places'
  <2>1. \A d \in Requests : req'[d].state = "none" => req'[d] = NoRequest
    BY DEF Leaves, Inv, Places
  <2>2. done' # Nobody => done'.call \in Calls /\ done'.outcome # "none"
    BY DEF Completes
  <2>3. ASSUME NEW d \in Calls
        PROVE  /\ Queued(d)' => req'[d].state = "none"
               /\ done'.call = d => req'[d].state = "none" /\ ~Queued(d)'
               /\ caller'[d] \in Early \cup {"told"} =>
                     ~Queued(d)' /\ req'[d].state = "none" /\ done'.call # d
               /\ outcome'[d] # "none" <=> caller'[d] = "told"
    BY <1>4, <1>5, RequestTypes DEF Leaves, NoRequest, Inv, Places
  <2> QED BY <2>1, <2>2, <2>3 DEF Leaves, Places
<1>7. Truthful'
  <2>1. \A c \in Calls : Quiet(c)' <=> Quiet(c)
    BY <1>4 DEF Quiet, Away
  <2>2. ASSUME NEW d \in Calls, Fresh(d)'
        PROVE  Quiet(d)
    <3>1. d # r => Fresh(d)
      BY <2>2, <1>4, <1>5, RequestTypes DEF Fresh, Leaves
    <3>2. d = r => done'.call = d /\ done'.outcome \in NotSent
      BY <2>2, <1>4, RequestTypes DEF Fresh, Leaves, NoRequest, NotSent
    <3> QED BY <3>1, <3>2, <1>5 DEF Inv, Truthful
  <2>3. ASSUME NEW m, Void(m)
        PROVE  Void(m)'
    BY <2>1, <2>3, RequestTypes DEF Void, Leaves, NoRequest
  <2>4. Void(bad)' /\ \A m \in replies' : Void(m)'
    <3>1. bad' = NoReply => Void(bad)'
      BY DEF Void, NoReply, Rejections
    <3>2. bad' = bad => Void(bad)'
      BY <2>1, RequestTypes DEF Void, Leaves, NoRequest, Inv, Truthful
    <3> QED BY <2>3, <3>1, <3>2 DEF Inv, Truthful
  <2>5. executed' = executed
    BY <1>4
  <2>6. done'.call \in Calls /\ done'.outcome = "answered" => executed'[done'.call] # 0
    BY <1>4, <1>5
  <2> QED BY <2>1, <2>2, <2>4, <2>5, <2>6 DEF Truthful, Inv
<1> QED BY <1>1, <1>2, <1>3, <1>6, <1>7

-----------------------------------------------------------------------------
(* Steps of the task that leave the requests alone *)

(* The number of no packet is in the past *)
LEMMA PastNone == Numbers /\ TypeOK => Past(NoReply.n)
BY DEF Numbers, Past, NoReply, TypeOK

(* A step that only moves the task on *)
LEMMA TaskStep ==
    ASSUME Inv, TypeOK',
           UNCHANGED <<callerVars, trackerVars, queue, req, packet, made, done, netVars>>,
           bad' \in {bad, NoReply}, task' \in Living => task \in Living
    PROVE  Inv'
<1> USE DEF callerVars, trackerVars, netVars
<1>1. Numbers'
  <2>1. \A n : Past(n)' <=> Past(n)
    BY DEF Past
  <2>2. Past(bad'.n)
    BY PastNone DEF Inv, Numbers
  <2>3. Past(bad.n)'
    BY <2>2 DEF Past
  <2> QED BY <2>1, <2>3 DEF Inv, Numbers
<1>2. Framing' /\ Alive'
  BY DEF Inv, Framing, Alive, Away
<1>3. Truthful'
  <2>1. \A c \in Calls : (Quiet(c)' <=> Quiet(c)) /\ (Fresh(c)' <=> Fresh(c))
    BY DEF Quiet, Away, Fresh, Queued
  <2>2. \A m \in replies : Void(m)' <=> Void(m)
    BY <2>1 DEF Void
  <2>3. CASE bad' = bad
    <3>1. Void(bad)' <=> Void(bad)
      BY <2>1, <2>3 DEF Void
    <3> QED BY <2>1, <2>2, <3>1 DEF Inv, Truthful
  <2>4. CASE bad' = NoReply
    <3>1. Void(bad)'
      BY <2>4 DEF Void, NoReply, Rejections
    <3> QED BY <2>1, <2>2, <3>1 DEF Inv, Truthful
  <2> QED BY <2>3, <2>4
<1> QED
  BY <1>1, <1>2, <1>3, PlacesFrame, UniqueFrame, ReservedFrame, StampedFrame DEF Inv

(* The ends of loops, failures, and the abort of the task *)
LEMMA PlainSteps ==
    ASSUME Inv,
           BadEnd \/ Fail \/ CloseQueue \/ DrainEnd \/ Stop \/ DropReceiver \/ DropEnd
    PROVE  Inv'
<1> USE DEF callerVars, trackerVars, queueVars, senderVars, netVars
<1>1. /\ UNCHANGED <<caller, outcome, stage, sentAt, queue, req, packet, partial, made, done>>
      /\ UNCHANGED <<limits, inbox, arrived, replies, executed, routed>>
      /\ bad' \in {bad, NoReply} /\ closed' \in {closed, TRUE}
      /\ task' \in {"top", "failing", "draining", "ended", "dropping"}
      /\ task' \in Living => task \in Living
  BY DEF BadEnd, Fail, CloseQueue, DrainEnd, Stop, DropReceiver, DropEnd, Living, At
<1>2. TypeOK'
  BY <1>1, RequestTypes DEF Inv, TypeOK, Reply, Requests
<1> QED BY <1>1, <1>2, TaskStep

(* process_bad_message, before its loop *)
LEMMA ProcessBadMessageStep ==
    ASSUME Inv, NEW m \in replies, NEW again \in BOOLEAN, ProcessBadMessage(m, again)
    PROVE  Inv'
<1> USE DEF ProcessBadMessage, At, callerVars, trackerVars, queueVars, senderVars
<1>1. replies' \subseteq replies /\ bad' = m
  OBVIOUS
<1>2. TypeOK'
  BY <1>1 DEF Inv, TypeOK, Reply, Requests
<1>3. Numbers'
  BY <1>1 DEF Inv, Numbers, Past
<1>4. Framing' /\ Alive'
  BY DEF Inv, Framing, Alive, Away, Living
<1>5. Truthful'
  <2>1. \A c \in Calls : (Quiet(c)' <=> Quiet(c)) /\ (Fresh(c)' <=> Fresh(c))
    BY DEF Quiet, Away, Fresh, Queued
  <2>2. \A k \in replies : Void(k)' <=> Void(k)
    BY <2>1 DEF Void
  <2>3. Void(bad)'
    <3>1. Void(m)
      BY DEF Inv, Truthful
    <3> QED BY <3>1, <2>1, <1>1 DEF Void
  <2> QED BY <2>1, <2>2, <2>3, <1>1 DEF Inv, Truthful, Rejections
<1> QED
  BY <1>2, <1>3, <1>4, <1>5, PlacesFrame, UniqueFrame, ReservedFrame, StampedFrame DEF Inv

(* The caller is told what Settle found *)
LEMMA NotifyStep == Inv /\ Notify => Inv'
<1> SUFFICES ASSUME Inv, Notify PROVE Inv'
  OBVIOUS
<1> USE DEF trackerVars, queueVars, senderVars, netVars
<1> DEFINE c == done.call
<1>1. c \in Calls /\ done.outcome # "none" /\ done.outcome \in Outcomes /\ done' = Nobody
  BY DEF Inv, TypeOK, Places, Notify
<1>2. /\ req[c].state = "none" /\ ~Queued(c) /\ caller[c] \notin Early \cup {"told"}
      /\ outcome[c] = "none"
  BY <1>1 DEF Inv, Places
<1>3. /\ \A d \in Calls : d # c => caller'[d] = caller[d] /\ outcome'[d] = outcome[d]
      /\ \/ caller' = caller /\ outcome' = outcome
         \/ caller'[c] = "told" /\ outcome'[c] = done.outcome
  BY <1>1 DEF Inv, TypeOK, Notify
<1>4. UNCHANGED <<stage, sentAt, queue, closed, routed, req, packet, partial, made, limits,
                  task, bad, inbox, arrived, replies, executed>>
  BY DEF Notify
<1>5. TypeOK'
  <2>1. caller' \in [Calls -> {"new", "reserved", "routed", "refused", "waiting", "gone", "told"}]
    BY DEF Inv, TypeOK, Notify
  <2>2. outcome' \in [Calls -> Outcomes]
    BY <1>1 DEF Inv, TypeOK, Notify
  <2> QED BY <2>1, <2>2, <1>1, <1>4, RequestTypes DEF Inv, TypeOK, Reply, Requests
<1>6. \A d \in Calls : Nobody.call # d
  BY RequestTypes DEF Nobody
<1>7. \A d \in Calls : Queued(d)' <=> Queued(d)
  BY <1>4 DEF Queued
<1> HIDE DEF c
<1>8. Places'
  <2>1. ASSUME NEW d \in Calls
        PROVE  /\ Queued(d)' => req'[d].state = "none"
               /\ done'.call # d
               /\ caller'[d] \in Early \cup {"told"} => ~Queued(d)' /\ req'[d].state = "none"
               /\ outcome'[d] # "none" <=> caller'[d] = "told"
    BY <1>1, <1>2, <1>3, <1>4, <1>6, <1>7 DEF Inv, Places
  <2>2. /\ \A i, j \in DOMAIN queue' : queue'[i] = queue'[j] => i = j
        /\ \A r \in Requests : req'[r].state = "none" => req'[r] = NoRequest
    BY <1>4 DEF Inv, Places
  <2> QED BY <2>1, <2>2, <1>1 DEF Places
<1>9. Truthful'
  <2>1. \A d \in Calls : Quiet(d)' <=> Quiet(d)
    BY <1>4 DEF Quiet, Away
  <2>2. ASSUME NEW d \in Calls, Fresh(d)'
        PROVE  Fresh(d)
    BY <2>2, <1>1, <1>2, <1>3, <1>4, <1>6, <1>7 DEF Fresh, Early, NotSent, c
  <2>3. Void(bad)' /\ \A m \in replies' : Void(m)'
    BY <2>1, <1>4 DEF Void, Inv, Truthful
  <2> QED BY <2>1, <2>2, <2>3, <1>1, <1>4, <1>6 DEF Inv, Truthful
<1>10. Reserved'
  <2>1. \A d \in Calls : caller[d] \in {"reserved", "routed", "refused"}
                            <=> caller'[d] \in {"reserved", "routed", "refused"}
    BY <1>2, <1>3 DEF Early
  <2>2. \A t \in Trackers : Owners(t)' = Owners(t)
    BY <2>1, <1>4 DEF Owners
  <2> QED BY <2>2, <1>4, SameOwners DEF Inv
<1> QED
  BY <1>4, <1>5, <1>8, <1>9, <1>10, NumbersFrame, FramingFrame, UniqueFrame, AliveFrame,
     StampedFrame DEF Inv

-----------------------------------------------------------------------------
(* Steps of the task that end a request *)

(* Request::complete keeps the whole invariant, if a living connection loses
   nothing that is framed or under way *)
LEMMA SettleStep ==
    ASSUME Inv, NEW r \in Requests, NEW o \in Outcomes \ {"none"},
           Completes(r, o), Leaves(r),
           replies' \subseteq replies, bad' \in {bad, NoReply},
           r \in Calls => (o \in NotSent => Quiet(r)) /\ (o = "answered" => executed[r] # 0),
           UNCHANGED <<packet, partial, made, limits, closed, routed>>,
           queue' \in Seq(Calls), req' \in [Requests -> RequestState],
           task' \in {"top", "io", "bad", "failing", "draining", "dropping", "ended"},
           task' \in Living =>
               task \in Living /\ req[r].state # "framed" /\ (r \in Calls => Away(r))
    PROVE  Inv'
<1>1. /\ Places' /\ Truthful' /\ Reserved' /\ Stamped'
      /\ stage' \in [Trackers -> 0 .. 2] /\ sentAt' \in [Trackers -> BOOLEAN]
      /\ done' \in [call : Requests, outcome : Outcomes]
  BY Settle
<1>2. UNCHANGED <<caller, outcome, inbox, arrived, executed>>
  BY DEF Completes
<1>3. TypeOK'
  BY <1>1, <1>2, RequestTypes DEF Inv, TypeOK, RequestState
<1>4. Numbers'
  <2>1. \A n : Past(n)' <=> Past(n)
    BY DEF Past
  <2>2. Past(bad'.n)
    BY PastNone DEF Inv, Numbers
  <2>3. Past(bad.n)'
    BY <2>2 DEF Past
  <2> QED BY <2>1, <2>3, <1>2 DEF Inv, Numbers
<1>5. Framing'
  <2>1. ASSUME NEW d \in Requests, req'[d].state = "framed"
        PROVE  req[d] = req'[d] /\ d # r
    BY <2>1 DEF Leaves, NoRequest
  <2>2. ASSUME task' \in Living, NEW d \in packet.rs
        PROVE  req'[d].state = "framed"
    <3>1. req[d].state = "framed" /\ d # r /\ d \in Requests
      BY <2>2 DEF Inv, Framing, TypeOK
    <3> QED BY <3>1 DEF Leaves
  <2> QED BY <2>1, <2>2 DEF Inv, Framing
<1>6. Alive'
  <2>1. ASSUME task' \in Living, NEW c \in Calls, req'[c].state # "sent"
        PROVE  Away(c)
    BY <2>1, RequestTypes DEF Leaves, Inv, Alive
  <2> QED BY <2>1, <1>2 DEF Alive, Away
<1> QED BY <1>1, <1>2, <1>3, <1>4, <1>5, <1>6, UniqueFrame DEF Inv

(* A request taken out of the vector is in no other place *)
LEMMA DropLeaves ==
    ASSUME Inv, NEW r \in Requests, req[r].state # "none", Drop(r), UNCHANGED queue
    PROVE  Leaves(r) /\ req' \in [Requests -> RequestState] /\ queue' \in Seq(Calls)
<1>1. req \in [Requests -> RequestState] /\ queue \in Seq(Calls)
  BY DEF Inv, TypeOK, RequestState
<1>2. req' \in [Requests -> RequestState] /\ req'[r] = NoRequest
      /\ \A d \in Requests \ {r} : req'[d] = req[d]
  BY <1>1, RequestTypes DEF Drop
<1>3. r \in Calls => ~Queued(r)
  BY DEF Inv, Places
<1>4. ~Queued(r)
  <2>1. \A i \in DOMAIN queue : queue[i] \in Calls
    BY <1>1, ElementOfSeq, LenProperties
  <2> QED BY <2>1, <1>3 DEF Queued
<1>5. \A d : Queued(d)' <=> Queued(d)
  BY DEF Queued
<1> QED BY <1>1, <1>2, <1>4, <1>5 DEF Leaves, Inv, Places

(* The head of the queue is in no other place, and nothing of it was sent *)
LEMMA HeadLeaves ==
    ASSUME Inv, queue # <<>>, queue' = Tail(queue), UNCHANGED req, NEW h, h = Head(queue)
    PROVE  /\ Leaves(h) /\ req' \in [Requests -> RequestState] /\ queue' \in Seq(Calls)
           /\ h \in Calls /\ Quiet(h) /\ req[h].state = "none"
<1>1. /\ h \in Calls /\ queue' \in Seq(Calls)
      /\ Queued(h) /\ ~Queued(h)'
      /\ \A c \in Calls : c # h => (Queued(c)' <=> Queued(c))
      /\ \A i, j \in DOMAIN queue' : queue'[i] = queue'[j] => i = j
  BY TakeHead DEF Inv
<1>2. req[h] = NoRequest /\ req[h].state = "none"
  BY <1>1, RequestTypes DEF Inv, Places
<1>3. Quiet(h)
  BY <1>1 DEF Inv, Truthful, Fresh
<1> QED BY <1>1, <1>2, <1>3 DEF Leaves, Inv, TypeOK, RequestState

(* A request that was not written whole is not under way *)
LEMMA UnsentQuiet ==
    ASSUME Inv, NEW c \in Calls, req[c].state \in {"new", "framed"}
    PROVE  Quiet(c)
BY DEF Inv, Truthful, Fresh

(* on_error: may_have_been_sent is true of what was sent or is half written *)
LEMMA OnErrorNextStep == ASSUME Inv, NEW r \in Requests, OnErrorNext(r) PROVE Inv'
<1> DEFINE o == IF MayHaveBeenSent(r) THEN "maybeSent" ELSE "unsent"
<1>1. o \in Outcomes \ {"none"} /\ o # "answered"
  BY DEF Outcomes
<1>2. Completes(r, o)
  BY DEF OnErrorNext, Completes, Retire, At, callerVars, netVars
<1>3. Leaves(r) /\ req' \in [Requests -> RequestState] /\ queue' \in Seq(Calls)
  BY DropLeaves DEF OnErrorNext, queueVars
<1>4. o \in NotSent => req[r].state \in {"new", "framed"}
  BY DEF MayHaveBeenSent, NotSent, OnErrorNext, Inv, TypeOK
<1>5. r \in Calls => (o \in NotSent => Quiet(r))
  BY <1>4, UnsentQuiet
<1>6. /\ UNCHANGED <<packet, partial, made, limits, closed, routed, replies, bad, task>>
      /\ task = "failing"
  BY DEF OnErrorNext, At, queueVars, netVars
<1> HIDE DEF o
<1> QED BY <1>1, <1>2, <1>3, <1>5, <1>6, SettleStep DEF Living

(* An aborted task drops its requests *)
LEMMA DropRequestStep == ASSUME Inv, NEW r \in Requests, DropRequest(r) PROVE Inv'
<1>1. Completes(r, "dropped") /\ "dropped" \in Outcomes \ {"none"} /\ "dropped" \notin NotSent
  BY DEF DropRequest, Completes, Retire, At, callerVars, netVars, Outcomes, NotSent
<1>2. Leaves(r) /\ req' \in [Requests -> RequestState] /\ queue' \in Seq(Calls)
  BY DropLeaves DEF DropRequest, queueVars
<1>3. /\ UNCHANGED <<packet, partial, made, limits, closed, routed, replies, bad, task>>
      /\ task = "dropping"
  BY DEF DropRequest, At, queueVars, netVars
<1> QED BY <1>1, <1>2, <1>3, SettleStep DEF Living

(* run_sender drains the closed queue *)
LEMMA DrainNextStep == Inv /\ DrainNext => Inv'
<1> SUFFICES ASSUME Inv, DrainNext, NEW h, h = Head(queue) PROVE Inv'
  OBVIOUS
<1>1. /\ Leaves(h) /\ req' \in [Requests -> RequestState] /\ queue' \in Seq(Calls)
      /\ h \in Calls /\ Quiet(h)
  BY HeadLeaves DEF DrainNext, senderVars
<1>2. Completes(h, "unsent") /\ "unsent" \in Outcomes \ {"none"}
  BY <1>1 DEF DrainNext, Completes, Retire, At, callerVars, netVars, Outcomes
<1>3. /\ UNCHANGED <<packet, partial, made, limits, closed, routed, replies, bad, task>>
      /\ task = "draining" /\ h \in Requests
  BY <1>1, RequestTypes DEF DrainNext, At, senderVars, netVars
<1> QED BY <1>1, <1>2, <1>3, SettleStep DEF Living

(* An aborted task drops its queue *)
LEMMA DropQueuedStep == Inv /\ DropQueued => Inv'
<1> SUFFICES ASSUME Inv, DropQueued, NEW h, h = Head(queue) PROVE Inv'
  OBVIOUS
<1>1. /\ Leaves(h) /\ req' \in [Requests -> RequestState] /\ queue' \in Seq(Calls)
      /\ h \in Calls /\ Quiet(h)
  BY HeadLeaves DEF DropQueued, senderVars
<1>2. Completes(h, "dropped") /\ "dropped" \in Outcomes \ {"none"}
  BY <1>1 DEF DropQueued, Completes, Retire, At, callerVars, netVars, Outcomes
<1>3. /\ UNCHANGED <<packet, partial, made, limits, closed, routed, replies, bad, task>>
      /\ task = "dropping" /\ h \in Requests
  BY <1>1, RequestTypes DEF DropQueued, At, senderVars, netVars
<1> QED BY <1>1, <1>2, <1>3, SettleStep DEF Living

(* What Telegram says does not name a request that is still being written *)
LEMMA NamedSent ==
    ASSUME Inv, NEW m, m \in replies \/ m = bad, NEW r \in Named(m)
    PROVE  req[r].state = "sent" /\ r \in Requests
<1>1. r \in Requests /\ Past(m.n) /\ m.n \in Nat /\ req[r].packet = m.n
      /\ req[r].state \in {"framed", "sent"}
  BY DEF Named, Inv, TypeOK, Reply, Numbers
<1>2. ASSUME req[r].state = "framed"
      PROVE  FALSE
  <2>1. r \in packet.rs /\ packet.n = m.n
    BY <1>1, <1>2 DEF Inv, Framing
  <2>2. packet # NoPacket
    BY <2>1 DEF NoPacket
  <2> QED BY <1>1, <2>1, <2>2 DEF Inv, Numbers, Past, TypeOK
<1> QED BY <1>1, <1>2

(* process_result and process_error *)
LEMMA ProcessResultStep ==
    ASSUME Inv, NEW m \in replies, NEW again \in BOOLEAN, ProcessResult(m, again)
    PROVE  Inv'
<1>1. \A r \in Named(m) : req[r].state = "sent" /\ r \in Requests
  BY NamedSent
<1>2. /\ UNCHANGED <<caller, outcome, queue, closed, routed, packet, partial, made, limits, bad>>
      /\ UNCHANGED <<inbox, arrived, executed>>
      /\ replies' \subseteq replies /\ done = Nobody /\ task' = "top" /\ task \in Living
  BY <1>1 DEF ProcessResult, callerVars, queueVars, At, Living
<1>3. CASE Named(m) = {}
  <2>1. UNCHANGED <<stage, sentAt, done, req>>
    BY <1>3 DEF ProcessResult, Keep, trackerVars
  <2>2. TypeOK'
    BY <2>1, <1>2 DEF Inv, TypeOK, Reply, Requests
  <2>3. Numbers'
    BY <1>2 DEF Inv, Numbers, Past
  <2>4. Framing' /\ Alive'
    BY <2>1, <1>2 DEF Inv, Framing, Alive, Away
  <2>5. Truthful'
    <3>1. \A c \in Calls : (Quiet(c)' <=> Quiet(c)) /\ (Fresh(c)' <=> Fresh(c))
      BY <2>1, <1>2 DEF Quiet, Away, Fresh, Queued
    <3>2. Void(bad)' /\ \A k \in replies : Void(k)' <=> Void(k)
      BY <3>1, <2>1, <1>2 DEF Void, Inv, Truthful
    <3> QED BY <3>1, <3>2, <2>1, <1>2 DEF Inv, Truthful
  <2> QED
    BY <1>2, <2>1, <2>2, <2>3, <2>4, <2>5, PlacesFrame, UniqueFrame, ReservedFrame,
       StampedFrame DEF Inv
<1>4. CASE Named(m) # {}
  <2>1. PICK r \in Named(m) : Retire(r, "answered") /\ Drop(r)
    BY <1>1, <1>4 DEF ProcessResult
  <2>2. r \in Requests /\ req[r].state = "sent" /\ r \in m.rs /\ m.kind = "answer"
    BY <2>1, <1>1 DEF Named, ProcessResult
  <2>3. Leaves(r) /\ req' \in [Requests -> RequestState] /\ queue' \in Seq(Calls)
    BY <2>1, <2>2, <1>2, DropLeaves
  <2>4. /\ Completes(r, "answered") /\ "answered" \in Outcomes \ {"none"}
        /\ "answered" \notin NotSent
    BY <2>1, <1>2 DEF Completes, Retire, Outcomes, NotSent
  <2>5. r \in Calls => executed[r] # 0 /\ Away(r)
    BY <2>2 DEF Inv, Truthful, Unique
  <2>6. req[r].state # "framed"
    BY <2>2
  <2> QED BY <1>2, <2>2, <2>3, <2>4, <2>5, <2>6, SettleStep
<1> QED BY <1>3, <1>4

(* A rejected request goes back to the vector, to be framed again *)
LEMMA RetryStep ==
    ASSUME Inv, NEW r \in Requests, req[r].state = "sent", task = "bad", done = Nobody,
           r \in Calls => Quiet(r), req[r].retries < MaxRetries,
           req' = [req EXCEPT ![r] = [NewRequest EXCEPT !.retries = req[r].retries + 1]],
           UNCHANGED <<callerVars, trackerVars, queueVars, packet, partial, made, limits,
                       task, done, bad, netVars>>
    PROVE  Inv'
<1> USE DEF callerVars, trackerVars, queueVars, netVars
<1>1. /\ req \in [Requests -> RequestState] /\ req[r].retries \in 0 .. MaxRetries
      /\ MaxRetries \in Nat
  BY LimitsAssumption DEF Inv, TypeOK, RequestState
<1>2. /\ req'[r].state = "new" /\ req'[r].retries = req[r].retries + 1 /\ req'[r] \in RequestState
      /\ \A d \in Requests \ {r} : req'[d] = req[d]
  BY <1>1 DEF NewRequest, RequestState
<1>3. req' \in [Requests -> RequestState]
  BY <1>1, <1>2
<1>4. TypeOK'
  BY <1>3 DEF Inv, TypeOK, RequestState
<1>5. Framing'
  <2>1. r \notin packet.rs
    BY DEF Inv, Framing, Living
  <2> QED BY <2>1, <1>2 DEF Inv, Framing, Living, TypeOK
<1>6. Places'
  <2>1. ASSUME NEW c \in Calls
        PROVE  req'[c].state = "none" <=> req[c].state = "none"
    BY <1>2, RequestTypes
  <2>2. \A d \in Requests : req'[d].state = "none" => req'[d] = NoRequest
    BY <1>2 DEF Inv, Places
  <2> QED BY <2>1, <2>2 DEF Inv, Places, Queued
<1>7. Truthful'
  <2>1. \A c \in Calls : Quiet(c)' <=> Quiet(c)
    BY DEF Quiet, Away
  <2>2. ASSUME NEW c \in Calls, Fresh(c)'
        PROVE  c = r \/ Fresh(c)
    BY <2>2, <1>2, RequestTypes DEF Fresh, Queued
  <2>3. Void(bad)' /\ \A m \in replies' : Void(m)'
    BY <2>1, <1>2, RequestTypes DEF Void, Inv, Truthful
  <2> QED BY <2>1, <2>2, <2>3 DEF Inv, Truthful
<1>8. Alive'
  BY <1>2, RequestTypes DEF Inv, Alive, Away, Quiet
<1>9. Reserved'
  <2>1. \A c \in Calls : req'[c].state = "none" <=> req[c].state = "none"
    BY <1>2, RequestTypes
  <2>2. \A t \in Trackers : Owners(t)' = Owners(t)
    BY <2>1 DEF Owners
  <2>3. ASSUME NEW t \in Trackers, NEW c \in Owners(t)
        PROVE  req'[c].state = "sent" \/ req'[c].retries > 0 <=>
               req[c].state = "sent" \/ req[c].retries > 0
    <3>1. c \in Requests
      BY RequestTypes DEF Owners
    <3> QED BY <3>1, <1>1, <1>2
  <2> QED BY <2>2, <2>3 DEF Inv, Reserved
<1> QED
  BY <1>4, <1>5, <1>6, <1>7, <1>8, <1>9, NumbersFrame, UniqueFrame, StampedFrame DEF Inv

(* One request of process_bad_message: cancelled, put back or given up *)
LEMMA BadNextStep == ASSUME Inv, NEW r \in Requests, BadNext(r) PROVE Inv'
<1>1. req[r].state = "sent" /\ req[r].packet = bad.n /\ r \in bad.rs
  BY NamedSent DEF BadNext, Named
<1>2. bad.kind \in Rejections
  BY <1>1 DEF Inv, Truthful, NoReply
<1>3. r \in Calls => Quiet(r) /\ Away(r)
  BY <1>1, <1>2 DEF Inv, Truthful, Void, Quiet
<1>4. /\ UNCHANGED <<caller, outcome, queue, closed, routed, packet, partial, made, limits,
                     inbox, arrived, replies, executed, task, bad>>
      /\ task = "bad" /\ done = Nobody /\ req[r].state # "framed"
  BY <1>1 DEF BadNext, At, callerVars, queueVars, netVars
<1>5. CASE IsGone(r)
  <2>1. Drop(r) /\ Release({r}) /\ UNCHANGED done
    BY <1>1, <1>5 DEF BadNext
  <2>2. Leaves(r) /\ req' \in [Requests -> RequestState] /\ queue' \in Seq(Calls)
    BY <2>1, <1>1, <1>4, DropLeaves
  <2>3. Completes(r, "dropped") /\ "dropped" \in Outcomes \ {"none"} /\ "dropped" \notin NotSent
    BY <2>1, <1>4 DEF Completes, Outcomes, NotSent
  <2> QED BY <1>1, <1>3, <1>4, <2>2, <2>3, SettleStep DEF Living
<1>6. CASE ~IsGone(r) /\ bad.kind = "retry" /\ MayRetry(r)
  <2>1. /\ req' = [req EXCEPT ![r] = [NewRequest EXCEPT !.retries = req[r].retries + 1]]
        /\ Keep /\ req[r].retries < MaxRetries
    BY <1>1, <1>6 DEF BadNext, MayRetry
  <2> QED BY <2>1, <1>1, <1>3, <1>4, RetryStep DEF Keep, trackerVars, callerVars, queueVars, netVars
<1>7. CASE ~IsGone(r) /\ ~(bad.kind = "retry" /\ MayRetry(r))
  <2>1. Drop(r) /\ Retire(r, "badMessage")
    BY <1>1, <1>7 DEF BadNext, GiveUp
  <2>2. Leaves(r) /\ req' \in [Requests -> RequestState] /\ queue' \in Seq(Calls)
    BY <2>1, <1>1, <1>4, DropLeaves
  <2>3. Completes(r, "badMessage") /\ "badMessage" \in Outcomes \ {"none"}
    BY <2>1, <1>4 DEF Completes, Retire, Outcomes
  <2> QED BY <1>1, <1>3, <1>4, <2>2, <2>3, SettleStep DEF Living
<1> QED BY <1>5, <1>6, <1>7

(* A queued invocation enters the vector *)
LEMMA AdmitStep ==
    ASSUME Inv, queue # <<>>, queue' = Tail(queue), NEW h, h = Head(queue),
           req' = [req EXCEPT ![h] = NewRequest], done = Nobody,
           task \in Living, task' = "top",
           UNCHANGED <<callerVars, trackerVars, closed, routed, packet, partial, made, limits,
                       done, bad, netVars>>
    PROVE  Inv'
<1> USE DEF callerVars, trackerVars, netVars
<1>1. /\ h \in Calls /\ queue' \in Seq(Calls)
      /\ Queued(h) /\ ~Queued(h)'
      /\ \A c \in Calls : c # h => (Queued(c)' <=> Queued(c))
      /\ \A i, j \in DOMAIN queue' : queue'[i] = queue'[j] => i = j
  BY TakeHead DEF Inv
<1>2. /\ req[h].state = "none" /\ req[h].retries = 0 /\ h \in Requests /\ Quiet(h)
      /\ caller[h] \notin Early \cup {"told"}
  BY <1>1, RequestTypes DEF Inv, Places, NoRequest, Truthful, Fresh
<1>3. /\ req' \in [Requests -> RequestState] /\ req'[h] = NewRequest
      /\ \A d \in Requests \ {h} : req'[d] = req[d]
  BY <1>2, RequestTypes DEF Inv, TypeOK, RequestState
<1>4. TypeOK'
  BY <1>1, <1>3 DEF Inv, TypeOK, RequestState
<1>5. Framing'
  BY <1>2, <1>3 DEF Inv, Framing, TypeOK, NewRequest
<1>6. Places'
  <2>1. ASSUME NEW d \in Calls
        PROVE  /\ Queued(d)' => req'[d].state = "none"
               /\ done'.call # d
               /\ caller'[d] \in Early \cup {"told"} => ~Queued(d)' /\ req'[d].state = "none"
               /\ outcome'[d] # "none" <=> caller'[d] = "told"
    BY <1>1, <1>2, <1>3, RequestTypes DEF Inv, Places, Nobody
  <2>2. \A d \in Requests : req'[d].state = "none" => req'[d] = NoRequest
    BY <1>3 DEF Inv, Places, NewRequest
  <2> QED BY <1>1, <2>1, <2>2 DEF Places
<1>7. Truthful'
  <2>1. \A c \in Calls : Quiet(c)' <=> Quiet(c)
    BY DEF Quiet, Away
  <2>2. ASSUME NEW c \in Calls, Fresh(c)'
        PROVE  c = h \/ Fresh(c)
    BY <2>2, <1>1, <1>3, RequestTypes DEF Fresh
  <2>3. Void(bad)' /\ \A m \in replies' : Void(m)'
    BY <2>1, <1>3, RequestTypes DEF Void, NewRequest, Inv, Truthful
  <2> QED BY <2>1, <2>2, <2>3, <1>2 DEF Inv, Truthful
<1>8. Alive'
  BY <1>2, <1>3, RequestTypes DEF Inv, Alive, Away, Quiet
<1>9. Reserved'
  <2>1. ASSUME NEW t \in Trackers, NEW d \in Calls
        PROVE  d \in Owners(t)' <=> d \in Owners(t)
    <3>1. d = h => (d \in Owners(t)' <=> Group[d] = t) /\ (d \in Owners(t) <=> Group[d] = t)
      BY <1>1, <1>3 DEF Owners, Queued, NewRequest
    <3>2. d # h => (d \in Owners(t)' <=> d \in Owners(t))
      BY <1>1, <1>3, RequestTypes DEF Owners, Queued
    <3> QED BY <3>1, <3>2
  <2>2. \A t \in Trackers : Owners(t)' = Owners(t)
    BY <2>1 DEF Owners
  <2>3. ASSUME NEW t \in Trackers, NEW c \in Owners(t)
        PROVE  req'[c].state = "sent" \/ req'[c].retries > 0 <=>
               req[c].state = "sent" \/ req[c].retries > 0
    <3>1. c \in Requests
      BY RequestTypes DEF Owners
    <3> QED BY <3>1, <1>2, <1>3 DEF NewRequest
  <2> QED BY <2>2, <2>3 DEF Inv, Reserved
<1> QED
  BY <1>4, <1>5, <1>6, <1>7, <1>8, <1>9, NumbersFrame, UniqueFrame, StampedFrame DEF Inv

(* recv and enqueue_tracked_body *)
LEMMA ReceiveStep == Inv /\ Receive => Inv'
<1> SUFFICES ASSUME Inv, Receive, NEW h, h = Head(queue) PROVE Inv'
  OBVIOUS
<1>1. /\ UNCHANGED <<caller, outcome, closed, routed, packet, partial, made, limits, bad,
                     inbox, arrived, replies, executed>>
      /\ queue # <<>> /\ queue' = Tail(queue) /\ done = Nobody
      /\ task \in Living /\ task' = "top"
  BY DEF Receive, At, callerVars, netVars, Living
<1>2. CASE IsGone(h)
  <2>1. Release({h}) /\ UNCHANGED <<req, done>>
    BY <1>2 DEF Receive
  <2>2. /\ Leaves(h) /\ req' \in [Requests -> RequestState] /\ queue' \in Seq(Calls)
        /\ h \in Calls /\ Quiet(h) /\ req[h].state = "none"
    BY <1>1, <2>1, HeadLeaves
  <2>3. /\ Completes(h, "dropped") /\ "dropped" \in Outcomes \ {"none"}
        /\ "dropped" \notin NotSent /\ h \in Requests
    BY <2>1, <2>2, <1>1, RequestTypes DEF Completes, Outcomes, NotSent
  <2> QED BY <1>1, <2>2, <2>3, SettleStep DEF Quiet
<1>3. CASE ~IsGone(h) /\ h \in Malformed
  <2>1. Retire(h, "invalid") /\ UNCHANGED req
    BY <1>3 DEF Receive
  <2>2. /\ Leaves(h) /\ req' \in [Requests -> RequestState] /\ queue' \in Seq(Calls)
        /\ h \in Calls /\ Quiet(h) /\ req[h].state = "none"
    BY <1>1, <2>1, HeadLeaves
  <2>3. Completes(h, "invalid") /\ "invalid" \in Outcomes \ {"none"} /\ h \in Requests
    BY <2>1, <2>2, <1>1, RequestTypes DEF Completes, Retire, Outcomes
  <2> QED BY <1>1, <2>2, <2>3, SettleStep DEF Quiet
<1>4. CASE ~IsGone(h) /\ h \notin Malformed
  <2>1. req' = [req EXCEPT ![h] = NewRequest] /\ Keep
    BY <1>4 DEF Receive
  <2> QED BY <1>1, <2>1, AdmitStep DEF Keep, trackerVars, callerVars, netVars
<1> QED BY <1>2, <1>3, <1>4

-----------------------------------------------------------------------------
(* Writing *)

(* on_ping_timeout touches no invocation *)
LEMMA OnPingTimeoutStep == Inv /\ OnPingTimeout => Inv'
<1> SUFFICES ASSUME Inv, OnPingTimeout PROVE Inv'
  OBVIOUS
<1>1. /\ UNCHANGED <<caller, outcome, stage, sentAt, queue, closed, routed, packet, partial,
                     made, done, bad, inbox, arrived, replies, executed>>
      /\ task \in Living /\ task' = "top"
      /\ limits' = [limits EXCEPT !.pings = @ + 1]
  BY DEF OnPingTimeout, At, Living, callerVars, trackerVars, queueVars, netVars
<1>2. \/ req' = req
      \/ req' = [req EXCEPT ![Ping] = NewRequest] /\ req[Ping].state \in {"none", "sent"}
  BY DEF OnPingTimeout, PingOver
<1>3. /\ \A r \in Requests :
            \/ req'[r] = req[r]
            \/ r = Ping /\ req'[r] = NewRequest /\ req[r].state \in {"none", "sent"}
      /\ \A c \in Calls : req'[c] = req[c]
  <2>1. req \in [Requests -> RequestState]
    BY DEF Inv, TypeOK, RequestState
  <2> QED BY <2>1, <1>2, RequestTypes
<1>4. TypeOK'
  <2>1. req' \in [Requests -> RequestState]
    BY <1>2, RequestTypes DEF Inv, TypeOK, RequestState
  <2>2. limits' \in [pings : Nat, services : Nat]
    <3>1. limits \in [pings : Nat, services : Nat]
      BY DEF Inv, TypeOK
    <3> QED BY <3>1, <1>1
  <2> QED BY <2>1, <2>2, <1>1 DEF Inv, TypeOK, RequestState
<1>5. Framing'
  <2>1. ASSUME NEW r \in Requests
        PROVE  req'[r].state = "framed" <=> req[r].state = "framed"
    BY <1>3 DEF NewRequest
  <2>2. ASSUME NEW r \in Requests, req'[r].state = "framed"
        PROVE  req'[r] = req[r]
    BY <1>3, <2>2 DEF NewRequest
  <2> QED BY <2>1, <2>2, <1>1 DEF Inv, Framing, TypeOK, Living
<1>6. Places'
  <2>1. \A r \in Requests : req'[r].state = "none" => req'[r] = NoRequest
    BY <1>3 DEF Inv, Places, NewRequest
  <2> QED BY <2>1, <1>1, <1>3 DEF Inv, Places, Queued
<1>7. Truthful'
  <2>1. \A c \in Calls : (Quiet(c)' <=> Quiet(c)) /\ (Fresh(c)' <=> Fresh(c))
    BY <1>1, <1>3 DEF Quiet, Away, Fresh, Queued
  <2>2. Void(bad)' /\ \A m \in replies : Void(m)' <=> Void(m)
    BY <2>1, <1>1, <1>3 DEF Void, Inv, Truthful
  <2> QED BY <2>1, <2>2, <1>1 DEF Inv, Truthful
<1>8. Alive'
  BY <1>1, <1>3 DEF Inv, Alive, Away
<1>9. Reserved'
  <2>1. \A t \in Trackers : Owners(t)' = Owners(t)
    BY <1>1, <1>3 DEF Owners
  <2>2. \A t \in Trackers : \A c \in Owners(t) : req'[c] = req[c]
    BY <1>3 DEF Owners
  <2> QED BY <2>1, <2>2, <1>1 DEF Inv, Reserved
<1> QED
  BY <1>1, <1>4, <1>5, <1>6, <1>7, <1>8, <1>9, NumbersFrame, UniqueFrame, StampedFrame DEF Inv

(* try_fill_write discards what was cancelled and frames what push accepts *)
LEMMA TryFillWriteStep ==
    ASSUME Inv, NEW S \in SUBSET Requests, NEW service \in BOOLEAN, TryFillWrite(S, service)
    PROVE  Inv'
<1> DEFINE R == {r \in Requests : Discarded(r)}
           left == [r \in Requests |-> IF r \in R THEN NoRequest ELSE req[r]]
           filled == S # {} \/ service
<1>1. /\ UNCHANGED <<caller, outcome, queue, closed, routed, partial, done, bad,
                     inbox, arrived, replies, executed>>
      /\ task \in Living /\ task' = "io" /\ done = Nobody
      /\ Release(R) /\ R \in SUBSET Requests
      /\ limits' = [limits EXCEPT !.services = IF service THEN @ + 1 ELSE @]
  BY DEF TryFillWrite, At, Living, callerVars, queueVars, netVars
<1>2. /\ \A r \in S : r \in Requests /\ r \notin R /\ req[r].state = "new"
      /\ \A r \in R : r \in Calls /\ req[r].state = "new"
  BY RequestTypes DEF TryFillWrite, Unframed, Discarded, IsGone, NoRequest
<1>3. req' \in [Requests -> RequestState]
  <2>1. left \in [Requests -> RequestState]
    BY RequestTypes DEF Inv, TypeOK, RequestState
  <2>2. made + 1 \in Nat
    BY DEF Inv, TypeOK
  <2>3. \A r \in Requests : [left[r] EXCEPT !.state = "framed", !.packet = made + 1] \in RequestState
    BY <2>1, <2>2 DEF RequestState
  <2> QED BY <2>1, <2>3 DEF TryFillWrite
<1>4. /\ \A r \in R : req'[r] = NoRequest
      /\ \A r \in S : /\ req'[r].state = "framed" /\ req'[r].packet = made + 1
                      /\ req'[r].retries = req[r].retries
      /\ \A r \in Requests : r \notin R /\ r \notin S => req'[r] = req[r]
  <2>1. req \in [Requests -> RequestState]
    BY DEF Inv, TypeOK, RequestState
  <2>2. req' = [r \in Requests |-> IF r \in S THEN
                   [left[r] EXCEPT !.state = "framed", !.packet = made + 1] ELSE left[r]]
    BY DEF TryFillWrite
  <2>3. \A r \in R : left[r] = NoRequest /\ r \notin S /\ r \in Requests
    BY <1>2
  <2>4. \A r \in Requests : r \notin R => left[r] = req[r]
    OBVIOUS
  <2> HIDE DEF R, left
  <2>5. ASSUME NEW r \in S
        PROVE  /\ req'[r].state = "framed" /\ req'[r].packet = made + 1
               /\ req'[r].retries = req[r].retries
    <3>1. r \in Requests /\ left[r] = req[r] /\ req[r] \in RequestState
      BY <1>2, <2>1, <2>4
    <3>2. req'[r] = [req[r] EXCEPT !.state = "framed", !.packet = made + 1]
      BY <2>2, <3>1
    <3> QED BY <3>1, <3>2 DEF RequestState
  <2> QED BY <2>2, <2>3, <2>4, <2>5
<1>5. /\ filled => /\ packet = NoPacket
                   /\ packet' = [n |-> made + 1, rs |-> S] /\ made' = made + 1
      /\ ~filled => UNCHANGED <<packet, made>>
  BY DEF TryFillWrite
<1>6. ASSUME NEW c \in Calls
      PROVE  /\ req'[c].state = "sent" <=> req[c].state = "sent"
             /\ req'[c].state = "sent" => req'[c] = req[c]
             /\ c \notin R => (req'[c].state = "none" <=> req[c].state = "none")
             /\ c \notin R => req'[c].retries = req[c].retries
             /\ req'[c].state \in {"new", "framed"} => req[c].state \in {"new", "framed"}
  BY <1>2, <1>4, RequestTypes DEF NoRequest
<1>7. \A c \in Calls : Queued(c)' <=> Queued(c)
  BY <1>1 DEF Queued
<1> HIDE DEF R, left
<1>8. TypeOK'
  <2>1. packet' \in [n : Nat, rs : SUBSET Requests] /\ made' \in Nat
    BY <1>5 DEF Inv, TypeOK
  <2>2. limits' \in [pings : Nat, services : Nat]
    <3>1. limits \in [pings : Nat, services : Nat]
      BY DEF Inv, TypeOK
    <3> QED BY <3>1, <1>1
  <2>3. stage' \in [Trackers -> 0 .. 2] /\ sentAt' \in [Trackers -> BOOLEAN]
    BY <1>1, ReleaseType DEF Inv
  <2> QED BY <1>1, <1>3, <2>1, <2>2, <2>3 DEF Inv, TypeOK, RequestState
<1>9. Numbers'
  <2>1. CASE ~filled
    BY <2>1, <1>1, <1>5, NumbersFrame DEF Inv
  <2>2. CASE filled
    <3>1. packet'.n = made' /\ made' = made + 1 /\ made \in Nat
      BY <2>2, <1>5 DEF Inv, TypeOK
    <3>2. \A n \in Nat : Past(n) => Past(n)'
      BY <3>1 DEF Past
    <3>3. /\ bad.n \in Nat /\ \A m \in replies : m.n \in Nat
          /\ \A p \in inbox : p.n \in Nat
          /\ \A m \in arrived : m.n \in Nat
      BY DEF Inv, TypeOK, Reply
    <3>4. Past(bad.n)'
      BY <3>2, <3>3, <1>1 DEF Inv, Numbers, Past
    <3> QED BY <3>1, <3>2, <3>3, <3>4, <1>1 DEF Inv, Numbers
  <2> QED BY <2>1, <2>2
<1>10. Framing'
  <2>1. CASE ~filled
    <3>1. \A r \in Requests : req'[r].state = "framed" <=> req[r].state = "framed"
      BY <2>1, <1>2, <1>4 DEF NoRequest
    <3>2. \A r \in Requests : req'[r].state = "framed" => req'[r] = req[r]
      BY <2>1, <1>2, <1>4 DEF NoRequest
    <3> QED BY <2>1, <3>1, <3>2, <1>1, <1>5 DEF Inv, Framing, TypeOK
  <2>2. CASE filled
    <3>1. \A r \in Requests : req[r].state # "framed"
      BY <2>2, <1>5 DEF Inv, Framing, NoPacket
    <3>2. packet'.rs = S /\ packet'.n = made + 1
      BY <2>2, <1>5
    <3>3. \A r \in Requests : req'[r].state = "framed" <=> r \in S
      BY <3>1, <1>2, <1>4 DEF NoRequest
    <3> QED BY <3>2, <3>3, <1>2, <1>4 DEF Framing
  <2> QED BY <2>1, <2>2
<1>11. Places'
  <2>1. \A r \in Requests : req'[r].state = "none" => req'[r] = NoRequest
    BY <1>4 DEF Inv, Places
  <2>2. ASSUME NEW c \in Calls
        PROVE  req[c].state = "none" => req'[c].state = "none"
    BY <1>2, <1>4, RequestTypes DEF NoRequest
  <2> QED BY <2>1, <2>2, <1>1, <1>7 DEF Inv, Places
<1>12. Truthful'
  <2>1. \A c \in Calls : Quiet(c)' <=> Quiet(c)
    BY <1>1 DEF Quiet, Away
  <2>2. ASSUME NEW c \in Calls, Fresh(c)'
        PROVE  Fresh(c)
    BY <2>2, <1>1, <1>6, <1>7 DEF Fresh
  <2>3. Void(bad)' /\ \A m \in replies : Void(m)'
    BY <2>1, <1>1, <1>6 DEF Void, Inv, Truthful
  <2> QED BY <2>1, <2>2, <2>3, <1>1 DEF Inv, Truthful
<1>13. Alive'
  BY <1>1, <1>6 DEF Inv, Alive, Away
<1>14. Reserved'
  <2>1. \A d \in Calls \cap R : ~Queued(d)' /\ req[d].state # "none" /\ req'[d].state = "none"
    BY <1>2, <1>4, <1>7 DEF Inv, Places, NoRequest
  <2> QED BY <2>1, <1>1, <1>6, <1>7, LeaveReserved
<1>15. Stamped'
  BY <1>1, StampedRelease DEF Inv
<1> QED
  BY <1>1, <1>8, <1>9, <1>10, <1>11, <1>12, <1>13, <1>14, <1>15, UniqueFrame DEF Inv

(* The last byte of a packet is written: its requests are sent *)
LEMMA WrittenStep == Inv /\ OnNetWrite(TRUE) => Inv'
<1> SUFFICES ASSUME Inv, OnNetWrite(TRUE) PROVE Inv'
  OBVIOUS
<1> DEFINE F == {r \in Requests : req[r].state = "framed"}
<1>1. /\ UNCHANGED <<caller, outcome, queue, closed, routed, made, limits, done, bad,
                     arrived, replies, executed>>
      /\ task \in Living /\ task' = "top" /\ done = Nobody /\ packet # NoPacket
      /\ packet' = NoPacket /\ partial' = FALSE /\ MarkSent(F)
      /\ inbox' = IF packet.rs = {} THEN inbox ELSE inbox \cup {packet}
      /\ req' = [r \in Requests |-> IF r \in F THEN [req[r] EXCEPT !.state = "sent"] ELSE req[r]]
  BY DEF OnNetWrite, At, Living, callerVars, queueVars
<1>2. /\ req \in [Requests -> RequestState] /\ F \subseteq Requests
      /\ \A r \in F : req[r].state = "framed"
      /\ \A r \in Requests : r \notin F => req[r].state # "framed"
  BY DEF Inv, TypeOK, RequestState
<1> HIDE DEF F
<1>3. /\ req' \in [Requests -> RequestState]
      /\ \A r \in F : /\ req'[r].state = "sent" /\ req'[r].packet = req[r].packet
                      /\ req'[r].retries = req[r].retries
      /\ \A r \in Requests : r \notin F => req'[r] = req[r]
  BY <1>1, <1>2 DEF RequestState
<1>4. packet.rs = F
  <2>1. packet.rs \subseteq Requests
    BY DEF Inv, TypeOK
  <2>2. \A r \in packet.rs : req[r].state = "framed"
    BY <1>1 DEF Inv, Framing
  <2>3. \A r \in F : r \in packet.rs
    BY <1>2 DEF Inv, Framing
  <2> QED BY <1>2, <2>1, <2>2, <2>3
<1>5. /\ packet.n = made /\ made \in Nat /\ \A r \in F : req[r].packet = made
      /\ packet \in [n : Nat, rs : SUBSET Requests]
  BY <1>1, <1>2 DEF Inv, Numbers, Framing, TypeOK
<1>6. /\ \A p \in inbox' : p \in inbox \/ p = packet
      /\ inbox \subseteq inbox'
  BY <1>1
<1>7. ASSUME NEW c \in Calls, c \in F
      PROVE  /\ Quiet(c) /\ caller[c] \notin Early \cup {"told"} /\ outcome[c] = "none"
             /\ ~Queued(c)
  BY <1>2, <1>7 DEF Inv, Truthful, Fresh, Places
<1>8. ASSUME NEW c \in Calls, c \notin F
      PROVE  (Away(c)' <=> Away(c)) /\ (Quiet(c)' <=> Quiet(c))
  <2>1. Away(c)' <=> Away(c)
    BY <1>1, <1>4, <1>6, <1>8 DEF Away
  <2> QED BY <2>1, <1>1 DEF Quiet
<1>9. \A c \in Calls : Queued(c)' <=> Queued(c)
  BY <1>1 DEF Queued
<1>10. TypeOK'
  <2>1. inbox' \subseteq [n : Nat, rs : SUBSET Requests]
    BY <1>5, <1>6 DEF Inv, TypeOK
  <2>2. stage' \in [Trackers -> 0 .. 2] /\ sentAt' \in [Trackers -> BOOLEAN]
    BY <1>1 DEF Inv, TypeOK, MarkSent
  <2> QED BY <1>1, <1>3, <2>1, <2>2, RequestTypes DEF Inv, TypeOK, RequestState
<1>11. Numbers'
  <2>1. \A n \in Nat : Past(n) => Past(n)'
    BY <1>1, <1>5 DEF Past
  <2>2. Past(packet.n) \/ packet.n <= made
    BY <1>5
  <2>3. \A p \in inbox' : p.n \in Nat /\ p.n <= made
    BY <1>5, <1>6 DEF Inv, TypeOK, Numbers, Past
  <2>4. /\ bad.n <= made /\ \A m \in replies : m.n <= made
        /\ \A m \in arrived : m.n <= made
    BY DEF Inv, Numbers, Past
  <2>5. \A n : n <= made => Past(n)'
    BY <1>1 DEF Past
  <2>6. Past(bad.n)'
    BY <2>4, <1>1 DEF Past
  <2> QED BY <2>3, <2>4, <2>5, <2>6, <1>1 DEF Numbers
<1>12. Framing'
  <2>1. \A r \in Requests : req'[r].state # "framed"
    BY <1>2, <1>3
  <2>2. packet'.rs = {}
    BY <1>1 DEF NoPacket
  <2> QED BY <2>1, <2>2 DEF Framing
<1>13. Places'
  <2>1. \A r \in Requests : req'[r].state = "none" => req'[r] = NoRequest
    BY <1>2, <1>3 DEF Inv, Places
  <2>2. ASSUME NEW c \in Calls
        PROVE  req'[c].state = "none" <=> req[c].state = "none"
    BY <1>2, <1>3, RequestTypes
  <2> QED BY <2>1, <2>2, <1>1, <1>9 DEF Inv, Places
<1>14. Unique'
  <2>1. \A c \in Calls : executed'[c] # 0 => executed'[c] = 1 /\ Away(c)'
    BY <1>1, <1>7, <1>8 DEF Inv, Unique, Quiet
  <2>2. ASSUME NEW p \in inbox', NEW q \in inbox', NEW c \in Calls, c \in p.rs, c \in q.rs
        PROVE  p = q
    <3>1. c \in F => p = packet /\ q = packet
      BY <2>2, <1>6, <1>7 DEF Quiet, Away
    <3>2. c \notin F => p \in inbox /\ q \in inbox
      BY <2>2, <1>4, <1>6
    <3> QED BY <2>2, <3>1, <3>2 DEF Inv, Unique
  <2>3. ASSUME NEW p \in inbox', NEW m \in arrived, m.r \in Calls
        PROVE  m.r \notin p.rs
    <3>1. m.r \notin F
      BY <2>3, <1>7 DEF Quiet, Away
    <3> QED BY <2>3, <3>1, <1>4, <1>6 DEF Inv, Unique
  <2> QED BY <2>1, <2>2, <2>3, <1>1 DEF Inv, Unique
<1>15. Truthful'
  <2>1. ASSUME NEW c \in Calls, Fresh(c)'
        PROVE  Quiet(c)'
    <3>1. \A d \in Calls : done.call # d
      BY <1>1, RequestTypes DEF Nobody
    <3>2. c \notin F
      BY <2>1, <1>1, <1>3, <1>7, <1>9, <3>1 DEF Fresh, NotSent
    <3>3. Fresh(c)
      BY <2>1, <3>2, <1>1, <1>3, <1>9, RequestTypes DEF Fresh
    <3> QED BY <3>2, <3>3, <1>8 DEF Inv, Truthful
  <2>2. ASSUME NEW m, Void(m), Past(m.n), m.n \in Nat
        PROVE  \A c \in Calls \cap m.rs : m.kind \in Rejections /\ req'[c].state = "sent"
                   /\ req'[c].packet = m.n => Quiet(c)'
    <3>1. m.n # made
      BY <2>2, <1>1, <1>5 DEF Past
    <3> QED BY <2>2, <3>1, <1>3, <1>5, <1>8, RequestTypes DEF Void
  <2>3. Void(bad)' /\ \A m \in replies : Void(m)'
    <3>1. /\ Void(bad) /\ Past(bad.n) /\ bad.n \in Nat
          /\ \A m \in replies : Void(m) /\ Past(m.n) /\ m.n \in Nat
      BY DEF Inv, Truthful, Numbers, TypeOK, Reply
    <3> QED BY <3>1, <2>2, <1>1 DEF Void
  <2> QED BY <2>1, <2>3, <1>1 DEF Inv, Truthful
<1>16. Alive'
  BY <1>1, <1>3, <1>8, RequestTypes DEF Inv, Alive
<1>17. Reserved'
  <2>1. \A c \in Calls : req'[c].state = "none" <=> req[c].state = "none"
    BY <1>2, <1>3, RequestTypes
  <2>2. \A t \in Trackers : Owners(t)' = Owners(t)
    BY <2>1, <1>1 DEF Owners
  <2>3. ASSUME NEW t \in Trackers
        PROVE  /\ stage'[t] # 0 <=> Owners(t) # {}
               /\ \A c \in Owners(t) :
                     stage'[t] = 2 <=> req'[c].state = "sent" \/ req'[c].retries > 0
    <3>1. CASE t \in Marked(F)
      <4>1. PICK c \in F : c \in Calls /\ Group[c] = t
        BY <3>1 DEF Marked
      <4>2. c \in Owners(t)
        BY <4>1, <1>2 DEF Owners
      <4>3. \A d \in Owners(t) : d = c
        BY <4>2 DEF Inv, Reserved
      <4>4. stage'[t] = 2
        BY <3>1, <1>1 DEF MarkSent
      <4> QED BY <4>1, <4>2, <4>3, <4>4, <1>3
    <3>2. CASE t \notin Marked(F)
      <4>1. \A d \in Owners(t) : d \in Requests /\ d \notin F
        BY <3>2, RequestTypes DEF Owners, Marked
      <4>2. stage'[t] = stage[t]
        BY <3>2, <1>1 DEF MarkSent
      <4> QED BY <4>1, <4>2, <1>3 DEF Inv, Reserved
    <3> QED BY <3>1, <3>2
  <2> QED BY <2>2, <2>3 DEF Inv, Reserved
<1>18. Stamped'
  BY <1>1 DEF Inv, Stamped, MarkSent
<1> QED
  BY <1>10, <1>11, <1>12, <1>13, <1>14, <1>15, <1>16, <1>17, <1>18 DEF Inv

(* on_net_write, of a part or of the rest of the packet *)
LEMMA OnNetWriteStep == ASSUME Inv, NEW complete \in BOOLEAN, OnNetWrite(complete) PROVE Inv'
<1>1. CASE complete = TRUE
  BY <1>1, WrittenStep
<1>2. CASE complete = FALSE
  <2>1. /\ UNCHANGED <<caller, outcome, stage, sentAt, queue, closed, routed, req, packet, made,
                       limits, done, bad, inbox, arrived, replies, executed>>
        /\ partial' = TRUE /\ task' = "top" /\ task \in Living
    BY <1>2 DEF OnNetWrite, At, Living, callerVars, queueVars, trackerVars
  <2>2. TypeOK'
    BY <2>1 DEF Inv, TypeOK, Reply, Requests
  <2> QED BY <2>1, <2>2, TaskStep DEF callerVars, trackerVars, netVars
<1> QED BY <1>1, <1>2

-----------------------------------------------------------------------------
(* Telegram *)

(* Telegram takes a packet apart *)
LEMMA AcceptPacketStep == ASSUME Inv, NEW p \in inbox, AcceptPacket(p) PROVE Inv'
<1>1. /\ UNCHANGED <<caller, outcome, stage, sentAt, queue, closed, routed, req, packet, partial,
                     made, limits, task, done, bad, replies, executed>>
      /\ inbox' = inbox \ {p}
      /\ arrived' = arrived \cup {[n |-> p.n, r |-> r] : r \in p.rs}
  BY DEF AcceptPacket, callerVars, trackerVars, queueVars, senderVars
<1>2. p.n \in Nat /\ p.rs \subseteq Requests
  BY DEF Inv, TypeOK
<1>3. \A m \in arrived' : m \in arrived \/ (m.r \in p.rs /\ m.n = p.n /\ m = [n |-> p.n, r |-> m.r])
  BY <1>1
<1>4. ASSUME NEW c \in Calls, Away(c)
      PROVE  Away(c)'
  BY <1>1, <1>3, <1>4 DEF Away
<1>5. \A c \in Calls : Quiet(c) => Quiet(c)'
  BY <1>1, <1>4 DEF Quiet
<1>6. TypeOK'
  <2>1. arrived' \subseteq [n : Nat, r : Requests]
    BY <1>1, <1>2 DEF Inv, TypeOK
  <2> QED BY <1>1, <2>1 DEF Inv, TypeOK
<1>7. Numbers'
  <2>1. \A n : Past(n)' <=> Past(n)
    BY <1>1 DEF Past
  <2>2. Past(bad.n)'
    BY <1>1 DEF Past, Inv, Numbers
  <2>3. \A m \in arrived' : Past(m.n)
    BY <1>3 DEF Inv, Numbers
  <2> QED BY <2>1, <2>2, <2>3, <1>1 DEF Inv, Numbers
<1>8. Unique'
  <2>1. ASSUME NEW m \in arrived', NEW k \in arrived', m.r \in Calls, m.r = k.r
        PROVE  m = k
    <3>1. m.r \in p.rs => m \notin arrived /\ k \notin arrived
      BY <2>1 DEF Inv, Unique
    <3>2. m.r \notin p.rs => m \in arrived /\ k \in arrived
      BY <2>1, <1>3
    <3> QED BY <2>1, <3>1, <3>2, <1>3 DEF Inv, Unique
  <2>2. ASSUME NEW q \in inbox', NEW m \in arrived', m.r \in Calls
        PROVE  m.r \notin q.rs
    <3>1. q \in inbox /\ q # p
      BY <1>1
    <3> QED BY <2>2, <3>1, <1>3 DEF Inv, Unique
  <2>3. \A q, s \in inbox' : \A c \in Calls : c \in q.rs /\ c \in s.rs => q = s
    BY <1>1 DEF Inv, Unique
  <2>4. \A c \in Calls : executed'[c] # 0 => executed'[c] = 1 /\ Away(c)'
    BY <1>1, <1>4 DEF Inv, Unique
  <2> QED BY <2>1, <2>2, <2>3, <2>4 DEF Unique
<1>9. Truthful'
  <2>1. \A c \in Calls : Fresh(c)' <=> Fresh(c)
    BY <1>1 DEF Fresh, Queued
  <2>2. Void(bad)' /\ \A m \in replies : Void(m)'
    BY <1>1, <1>5 DEF Void, Inv, Truthful
  <2> QED BY <2>1, <2>2, <1>1, <1>5 DEF Inv, Truthful
<1>10. Alive'
  BY <1>1, <1>4 DEF Inv, Alive
<1> QED
  BY <1>1, <1>6, <1>7, <1>8, <1>9, <1>10, FramingFrame, PlacesFrame, ReservedFrame, StampedFrame
  DEF Inv

(* A rejection that leaves nothing of its requests behind *)
LEMMA RejectStep ==
    ASSUME Inv, NEW m \in Reply, m.kind \in Rejections, Past(m.n), Answer(m),
           inbox' \subseteq inbox, arrived' \subseteq arrived,
           \A c \in Calls \cap m.rs : executed[c] = 0 /\ Away(c)',
           UNCHANGED <<callerVars, trackerVars, queueVars, senderVars, task, done, bad, executed>>
    PROVE  Inv'
<1> USE DEF callerVars, trackerVars, queueVars, senderVars
<1>1. \A k \in replies' : k \in replies \/ k = m
  BY DEF Answer
<1>2. \A c \in Calls : (Away(c) => Away(c)') /\ (Quiet(c) => Quiet(c)')
  BY DEF Away, Quiet
<1>3. TypeOK'
  BY <1>1 DEF Inv, TypeOK
<1>4. Numbers'
  <2>1. \A n : Past(n)' <=> Past(n)
    BY DEF Past
  <2>2. Past(bad.n)'
    BY DEF Past, Inv, Numbers
  <2> QED BY <1>1, <2>1, <2>2 DEF Inv, Numbers
<1>5. Unique'
  BY <1>2 DEF Inv, Unique
<1>6. Truthful'
  <2>1. \A c \in Calls : Fresh(c)' <=> Fresh(c)
    BY DEF Fresh, Queued
  <2>2. Void(bad)' /\ \A k \in replies : Void(k)'
    BY <1>2 DEF Void, Inv, Truthful
  <2>3. \A k \in replies' : Void(k)'
    BY <1>1, <2>2 DEF Void, Quiet
  <2>4. m.kind # "answer"
    BY DEF Rejections
  <2> QED BY <1>1, <1>2, <2>1, <2>2, <2>3, <2>4 DEF Inv, Truthful
<1>7. Alive'
  BY <1>2 DEF Inv, Alive
<1> QED
  BY <1>3, <1>4, <1>5, <1>6, <1>7, FramingFrame, PlacesFrame, ReservedFrame, StampedFrame DEF Inv

(* Telegram rejects a container *)
LEMMA RejectPacketStep ==
    ASSUME Inv, NEW p \in inbox, NEW kind \in Rejections, RejectPacket(p, kind)
    PROVE  Inv'
<1> DEFINE m == [kind |-> kind, n |-> p.n, rs |-> p.rs]
<1>1. m \in Reply /\ m.kind \in Rejections /\ m.n = p.n /\ m.rs = p.rs /\ Past(m.n)
  BY DEF Inv, TypeOK, Numbers, Reply, Rejections
<1>2. /\ Answer(m) /\ inbox' = inbox \ {p} /\ arrived' = arrived
      /\ UNCHANGED <<callerVars, trackerVars, queueVars, senderVars, task, done, bad, executed>>
  BY DEF RejectPacket
<1> HIDE DEF m
<1>3. ASSUME NEW c \in Calls, c \in p.rs
      PROVE  executed[c] = 0 /\ Away(c)'
  <2>1. \A q \in inbox' : c \notin q.rs
    BY <1>2, <1>3 DEF Inv, Unique
  <2>2. \A k \in arrived' : k.r # c
    BY <1>2, <1>3 DEF Inv, Unique
  <2>3. executed[c] = 0
    BY <1>3 DEF Inv, Unique, Away
  <2> QED BY <2>1, <2>2, <2>3 DEF Away
<1> QED BY <1>1, <1>2, <1>3, RejectStep

(* Telegram rejects one message *)
LEMMA RejectMessageStep ==
    ASSUME Inv, NEW k \in arrived, NEW kind \in Rejections, RejectMessage(k, kind)
    PROVE  Inv'
<1> DEFINE m == [kind |-> kind, n |-> k.n, rs |-> {k.r}]
<1>1. m \in Reply /\ m.kind \in Rejections /\ m.n = k.n /\ m.rs = {k.r} /\ Past(m.n)
  BY DEF Inv, TypeOK, Numbers, Reply, Rejections
<1>2. /\ Answer(m) /\ inbox' = inbox /\ arrived' = arrived \ {k}
      /\ UNCHANGED <<callerVars, trackerVars, queueVars, senderVars, task, done, bad, executed>>
  BY DEF RejectMessage
<1> HIDE DEF m
<1>3. ASSUME NEW c \in Calls, c = k.r
      PROVE  executed[c] = 0 /\ Away(c)'
  <2>1. \A q \in inbox' : c \notin q.rs
    BY <1>2, <1>3 DEF Inv, Unique
  <2>2. \A j \in arrived' : j.r # c
    BY <1>2, <1>3 DEF Inv, Unique
  <2>3. executed[c] = 0
    BY <1>3 DEF Inv, Unique, Away
  <2> QED BY <2>1, <2>2, <2>3 DEF Away
<1> QED BY <1>1, <1>2, <1>3, RejectStep

(* Telegram executes a message: it was the only one of its invocation *)
LEMMA ExecuteStep == ASSUME Inv, NEW k \in arrived, Execute(k) PROVE Inv'
<1> DEFINE m == [kind |-> "answer", n |-> k.n, rs |-> {k.r}]
<1>1. /\ m \in Reply /\ m.kind = "answer" /\ m.n = k.n /\ m.rs = {k.r} /\ Past(m.n)
      /\ k.r \in Requests
  BY DEF Inv, TypeOK, Numbers, Reply
<1>2. /\ \A j \in replies' : j \in replies \/ j = m
      /\ arrived' = arrived \ {k}
      /\ executed' = [executed EXCEPT ![k.r] = @ + 1]
      /\ UNCHANGED <<caller, outcome, stage, sentAt, queue, closed, routed, req, packet, partial,
                     made, limits, task, done, bad, inbox>>
  BY DEF Execute, Answer, callerVars, trackerVars, queueVars, senderVars
<1> HIDE DEF m
<1>3. /\ executed \in [Requests -> Nat] /\ executed' \in [Requests -> Nat]
      /\ executed'[k.r] = executed[k.r] + 1 /\ executed'[k.r] # 0
      /\ \A r \in Requests : r # k.r => executed'[r] = executed[r]
  BY <1>1, <1>2 DEF Inv, TypeOK
<1>4. \A c \in Calls : Away(c) => Away(c)'
  BY <1>2 DEF Away
<1>5. \A c \in Calls : Quiet(c) => Quiet(c)' /\ c # k.r
  BY <1>3, <1>4, RequestTypes DEF Quiet, Away
<1>6. k.r \in Calls => executed[k.r] = 0 /\ Away(k.r)'
  <2>1. k.r \in Calls => \A q \in inbox' : k.r \notin q.rs
    BY <1>2 DEF Inv, Unique
  <2>2. k.r \in Calls => \A j \in arrived' : j.r # k.r
    BY <1>2 DEF Inv, Unique
  <2>3. k.r \in Calls => executed[k.r] = 0
    BY DEF Inv, Unique, Away
  <2>4. ASSUME NEW c, c = k.r, k.r \in Calls
        PROVE  Away(c)'
    BY <2>1, <2>2, <2>4 DEF Away
  <2> QED BY <2>3, <2>4
<1>7. TypeOK'
  BY <1>1, <1>2, <1>3 DEF Inv, TypeOK
<1>8. Numbers'
  <2>1. \A n : Past(n)' <=> Past(n)
    BY <1>2 DEF Past
  <2>2. Past(bad.n)'
    BY <1>2 DEF Past, Inv, Numbers
  <2> QED BY <1>1, <1>2, <2>1, <2>2 DEF Inv, Numbers
<1>9. Unique'
  <2>1. ASSUME NEW c \in Calls, executed'[c] # 0
        PROVE  executed'[c] = 1 /\ Away(c)'
    <3>1. CASE c = k.r
      BY <3>1, <1>3, <1>6
    <3>2. CASE c # k.r
      BY <2>1, <3>2, <1>3, <1>4, RequestTypes DEF Inv, Unique
    <3> QED BY <3>1, <3>2
  <2> QED BY <2>1, <1>2 DEF Inv, Unique
<1>10. Truthful'
  <2>1. \A c \in Calls : Fresh(c)' <=> Fresh(c)
    BY <1>2 DEF Fresh, Queued
  <2>2. Void(bad)' /\ \A j \in replies : Void(j)'
    BY <1>2, <1>5 DEF Void, Inv, Truthful
  <2>3. \A j \in replies' : Void(j)'
    BY <1>1, <1>2, <2>2 DEF Void, Rejections
  <2>4. \A c \in Calls : executed[c] # 0 => executed'[c] # 0
    BY <1>3, RequestTypes
  <2>5. \A j \in replies' : j.kind = "answer" => \A c \in Calls \cap j.rs : executed'[c] # 0
    BY <1>1, <1>2, <1>3, <2>4 DEF Inv, Truthful
  <2> QED BY <1>2, <1>5, <2>1, <2>2, <2>3, <2>4, <2>5 DEF Inv, Truthful
<1>11. Alive'
  BY <1>2, <1>4 DEF Inv, Alive
<1> QED
  BY <1>2, <1>7, <1>8, <1>9, <1>10, <1>11, FramingFrame, PlacesFrame, ReservedFrame, StampedFrame
  DEF Inv

-----------------------------------------------------------------------------
(* The theorems *)

(* A fresh connection satisfies the invariant *)
LEMMA InitInv == Init => Inv
<1> SUFFICES ASSUME Init PROVE Inv
  OBVIOUS
<1>1. queue \in Seq(Calls) /\ DOMAIN queue = {}
  BY EmptySeq, LenProperties DEF Init
<1>2. TypeOK
  <2>1. /\ caller \in [Calls -> {"new", "reserved", "routed", "refused", "waiting", "gone", "told"}]
        /\ outcome \in [Calls -> Outcomes] /\ stage \in [Trackers -> 0 .. 2]
        /\ executed \in [Requests -> Nat]
    BY DEF Init, Outcomes
  <2>2. sentAt \in [Trackers -> BOOLEAN] /\ closed \in BOOLEAN /\ routed \in BOOLEAN
        /\ partial \in BOOLEAN
    BY Zenon DEF Init
  <2>3. req \in [Requests -> RequestState]
    BY RequestTypes DEF Init
  <2>4. /\ limits \in [pings : Nat, services : Nat] /\ made \in Nat
        /\ packet \in [n : Nat, rs : SUBSET Requests] /\ bad \in Reply
        /\ done \in [call : Requests, outcome : Outcomes]
    BY RequestTypes DEF Init
  <2>5. /\ task \in {"top", "io", "bad", "failing", "draining", "dropping", "ended"}
        /\ inbox = {} /\ arrived = {} /\ replies = {}
    BY DEF Init
  <2> QED BY <1>1, <2>1, <2>2, <2>3, <2>4, <2>5 DEF TypeOK, RequestState
<1>3. Numbers /\ Framing /\ Unique /\ Alive
  BY RequestTypes DEF Init, Numbers, Past, Framing, Unique, Alive, Away, NoPacket, NoReply, NoRequest
<1>4. Places
  BY <1>1, RequestTypes DEF Init, Places, Queued, NoRequest, Nobody, Early
<1>5. Truthful
  BY RequestTypes DEF Init, Truthful, Quiet, Away, Void, NoReply, Rejections, Nobody
<1>6. Reserved /\ Stamped
  <2>1. \A t \in Trackers : Owners(t) = {}
    BY <1>1, RequestTypes DEF Init, Owners, NoRequest
  <2> QED BY <2>1 DEF Init, Reserved, Stamped
<1> QED BY <1>2, <1>3, <1>4, <1>5, <1>6 DEF Inv

(* Every step of Telegram keeps it *)
LEMMA TelegramStep == Inv /\ Telegram => Inv'
BY AcceptPacketStep, RejectPacketStep, RejectMessageStep, ExecuteStep DEF Telegram, Rejections

(* Every step of the task keeps it *)
LEMMA TaskActionStep == Inv /\ Task => Inv'
<1> SUFFICES ASSUME Inv, Task PROVE Inv'
  OBVIOUS
<1>1. CASE Receive \/ OnPingTimeout \/ Fail \/ Stop
  BY <1>1, ReceiveStep, OnPingTimeoutStep, PlainSteps
<1>2. CASE Fill
  BY <1>2, TryFillWriteStep DEF Fill
<1>3. CASE Handle
  BY <1>3, ProcessResultStep, ProcessBadMessageStep DEF Handle
<1>4. CASE Proceed
  <2>1. CASE Notify \/ DrainNext \/ DropQueued
    BY <2>1, NotifyStep, DrainNextStep, DropQueuedStep
  <2>2. CASE BadEnd \/ CloseQueue \/ DrainEnd \/ DropReceiver \/ DropEnd
    BY <2>2, PlainSteps
  <2>3. CASE \E r \in Requests : BadNext(r) \/ OnErrorNext(r) \/ DropRequest(r)
    BY <2>3, BadNextStep, OnErrorNextStep, DropRequestStep
  <2> QED BY <1>4, <2>1, <2>2, <2>3 DEF Proceed
<1>5. CASE \E complete \in BOOLEAN : OnNetWrite(complete)
  BY <1>5, OnNetWriteStep
<1> QED BY <1>1, <1>2, <1>3, <1>4, <1>5 DEF Task

(* Stuttering keeps it *)
LEMMA StutterInv == Inv /\ UNCHANGED vars => Inv'
<1> SUFFICES ASSUME Inv, UNCHANGED vars PROVE Inv'
  OBVIOUS
<1>1. UNCHANGED <<callerVars, trackerVars, queueVars, senderVars, task, done, bad, netVars>>
  BY DEF vars
<1>2. TypeOK'
  BY <1>1 DEF Inv, TypeOK, callerVars, trackerVars, queueVars, senderVars, netVars
<1> QED
  BY <1>1, <1>2, TaskStep DEF queueVars, senderVars

(* The invariant is inductive *)
LEMMA NextInv == Inv /\ [Next]_vars => Inv'
<1> SUFFICES ASSUME Inv, [Next]_vars PROVE Inv'
  OBVIOUS
<1>1. CASE \E c \in Calls : Caller(c)
  BY <1>1, ReserveStep, WithdrawStep, TakeRouteStep, SubmitStep, CancelStep DEF Caller
<1>2. CASE Task \/ Telegram \/ Unroute
  BY <1>2, TaskActionStep, TelegramStep, UnrouteStep
<1>3. CASE UNCHANGED vars
  BY <1>3, StutterInv
<1> QED BY <1>1, <1>2, <1>3 DEF Next

(* The invariant of a connection: where an invocation is, what of it is under
   way, and who owns its tracker *)
THEOREM SenderInvariance == Spec => []Inv
BY InitInv, NextInv, PTL DEF Spec

(* Every variable of the connection has its type; retries stay in their budget *)
THEOREM TypeCorrect == Spec => []TypeOK
<1>1. Inv => TypeOK
  BY DEF Inv
<1> QED BY <1>1, SenderInvariance, PTL

(* Telegram executes an invocation at most once, however often process_bad_message
   puts it back *)
THEOREM ExecutedOnceCorrect == Spec => []ExecutedOnce
<1>1. ASSUME Inv PROVE ExecutedOnce
  <2>1. \A c \in Calls : executed[c] = 0 \/ executed[c] = 1
    BY <1>1 DEF Inv, Unique
  <2> QED BY <2>1 DEF ExecutedOnce
<1> QED BY <1>1, SenderInvariance, PTL

(* The two ways to say that nothing of c is under way *)
LEMMA AwayNotOnTheWay ==
    ASSUME NEW c
    PROVE  Away(c) <=> OnTheWay(c) = {}
BY DEF Away, OnTheWay

(* Whoever is told by on_error, process_bad_message or the end of run_sender that
   a request was not delivered may send it again *)
THEOREM DeliveryCertaintyCorrect == Spec => []DeliveryCertainty
<1>1. Inv => DeliveryCertainty
  BY AwayNotOnTheWay DEF Inv, DeliveryCertainty, Truthful, Fresh, Quiet, NotSent
<1> QED BY <1>1, SenderInvariance, PTL

(* The framed requests are those of the packet in the write buffer, and no reply
   names them: the invalid-response branches of process_result and
   process_bad_message are not reached *)
THEOREM PacketKeptWholeCorrect == Spec => []PacketKeptWhole
<1>1. ASSUME Inv PROVE PacketKeptWhole
  <2>1. ASSUME NEW m \in replies, NEW r \in m.rs, req[r].state = "framed"
        PROVE  req[r].packet # m.n
    <3>1. r \in Requests
      BY <1>1 DEF Inv, TypeOK, Reply
    <3>2. req[r].packet = m.n => r \in Named(m)
      BY <2>1 DEF Named
    <3> QED BY <1>1, <2>1, <3>2, NamedSent
  <2>2. \A r \in Requests : task \in {"top", "io", "bad"} =>
           (req[r].state = "framed" <=> r \in packet.rs)
    BY <1>1 DEF Inv, Framing, Living
  <2> QED BY <2>1, <2>2 DEF PacketKeptWhole
<1> QED BY <1>1, SenderInvariance, PTL

(* A tracker that is not idle has exactly one owner, also after its caller left,
   and is Sent exactly when that request was written whole *)
THEOREM ReservationExclusiveCorrect == Spec => []ReservationExclusive
<1>1. ASSUME Inv, NEW t \in Trackers
      PROVE  /\ Cardinality(Owners(t)) = (IF stage[t] = 0 THEN 0 ELSE 1)
             /\ stage[t] = 2 => sentAt[t]
             /\ \A c \in Owners(t) :
                   stage[t] = 2 <=> req[c].state = "sent" \/ req[c].retries > 0
  <2>1. stage[t] = 0 => Owners(t) = {}
    BY <1>1 DEF Inv, Reserved
  <2>2. ASSUME stage[t] # 0
        PROVE  \E c : Owners(t) = {c}
    <3>1. PICK c \in Owners(t) : TRUE
      BY <1>1, <2>2 DEF Inv, Reserved
    <3>2. \A d \in Owners(t) : d = c
      BY <1>1, <3>1 DEF Inv, Reserved
    <3> QED BY <3>1, <3>2
  <2>3. Cardinality(Owners(t)) = (IF stage[t] = 0 THEN 0 ELSE 1)
    BY <2>1, <2>2, FS_EmptySet, FS_Singleton
  <2>4. stage[t] = 2 => sentAt[t]
    BY <1>1 DEF Inv, Stamped
  <2> QED BY <1>1, <2>3, <2>4 DEF Inv, Reserved
<1>2. Inv => ReservationExclusive
  BY <1>1 DEF ReservationExclusive
<1> QED BY <1>2, SenderInvariance, PTL

(* While the connection lives, requests of one tracker never overlap at Telegram *)
THEOREM NoOverlapCorrect == Spec => []NoOverlap
<1>1. ASSUME Inv, task \in {"top", "io", "bad"}, NEW c \in Calls, NEW d \in Calls,
             c # d, Tracked(c), Group[c] = Group[d], OnTheWay(c) # {}
      PROVE  OnTheWay(d) = {} /\ req[d].state # "framed"
  <2>1. req[c].state = "sent"
    BY <1>1, AwayNotOnTheWay DEF Inv, Alive, Living
  <2>2. Group[c] \in Trackers
    BY <1>1, RequestsAssumption DEF Tracked
  <2>3. c \in Owners(Group[c])
    BY <2>1 DEF Owners
  <2>4. req[d].state = "none"
    <3>1. req[d].state # "none" => d \in Owners(Group[c])
      BY <1>1 DEF Owners
    <3> QED BY <1>1, <2>2, <2>3, <3>1 DEF Inv, Reserved
  <2>5. Away(d)
    BY <1>1, <2>4 DEF Inv, Alive, Living
  <2> QED BY <2>4, <2>5, AwayNotOnTheWay
<1>2. Inv => NoOverlap
  BY <1>1 DEF NoOverlap
<1> QED BY <1>2, SenderInvariance, PTL

-----------------------------------------------------------------------------
(* The connection keeps its promise *)

(* Only Telegram and the end of a completion touch what the promise is about *)
LEMMA SilentSteps ==
    ASSUME [Next]_vars, ~Notify, ~\E k \in arrived : Execute(k)
    PROVE  UNCHANGED <<executed, outcome>>
<1> USE DEF callerVars, netVars
<1>1. CASE \E c \in Calls : Caller(c)
  BY <1>1 DEF Caller, Reserve, Withdraw, TakeRoute, Submit, Cancel
<1>2. CASE Unroute \/ UNCHANGED vars
  BY <1>2 DEF Unroute, vars
<1>3. CASE Telegram
  BY <1>3 DEF Telegram, AcceptPacket, RejectPacket, RejectMessage
<1>4. CASE Task
  <2>1. CASE Receive \/ OnPingTimeout \/ Fail \/ Stop
    BY <2>1 DEF Receive, OnPingTimeout, Fail, Stop
  <2>2. CASE Fill \/ \E complete \in BOOLEAN : OnNetWrite(complete)
    BY <2>2 DEF Fill, TryFillWrite, OnNetWrite
  <2>3. CASE Handle
    BY <2>3 DEF Handle, ProcessResult, ProcessBadMessage
  <2>4. CASE Proceed
    BY <2>4 DEF Proceed, BadEnd, CloseQueue, DrainNext, DrainEnd, DropReceiver, DropQueued,
                DropEnd, BadNext, OnErrorNext, DropRequest
  <2> QED BY <1>4, <2>1, <2>2, <2>3, <2>4 DEF Task
<1> QED BY <1>1, <1>2, <1>3, <1>4 DEF Next

(* Sender implements Invocations: a request takes effect at most once and never
   after its caller was told that it did not, and an answer belongs to a
   request that took effect (InvocationError::may_have_been_sent) *)
THEOREM PromiseKept == Spec => Promised
<1> DEFINE ex == [c \in Calls |-> executed[c]]
<1>1. Init => Promise!Init
  BY RequestTypes DEF Init, Promise!Init
<1>2. ASSUME Inv, [Next]_vars
      PROVE  [Promise!Next]_<<ex, outcome>>
  <2>1. CASE Notify
    <3> DEFINE c == done.call
               o == done.outcome
    <3>1. /\ c \in Calls /\ o \in Outcomes /\ o # "none" /\ outcome[c] = "none"
          /\ caller[c] # "told"
      BY <1>2, <2>1 DEF Notify, Inv, TypeOK, Places
    <3>2. o \in NotSent => executed[c] = 0
      BY <1>2, <3>1 DEF Inv, Truthful, Fresh, Quiet
    <3>3. o = "answered" => executed[c] = 1
      BY <1>2, <3>1 DEF Inv, Truthful, Unique
    <3>4. ex' = ex
      BY <2>1 DEF Notify, netVars
    <3>5. outcome' = outcome \/ outcome' = [outcome EXCEPT ![c] = o]
      BY <2>1 DEF Notify
    <3>6. ex[c] = executed[c]
      BY <3>1
    <3> HIDE DEF c, o, ex
    <3>7. CASE outcome' = outcome
      BY <3>4, <3>7
    <3>8. CASE outcome' = [outcome EXCEPT ![c] = o]
      <4>1. o \in Promise!NotDelivered \cup Promise!Uncertain \cup {"answered"}
        BY <3>1 DEF Outcomes, Promise!NotDelivered, Promise!Uncertain
      <4>2. Promise!Tell(c, o)
        BY <3>1, <3>2, <3>3, <3>4, <3>6, <3>8
        DEF Promise!Tell, Promise!NotDelivered, NotSent, ex
      <4> QED BY <3>1, <4>1, <4>2 DEF Promise!Next
    <3> QED BY <3>5, <3>7, <3>8
  <2>2. CASE \E k \in arrived : Execute(k)
    <3>1. PICK k \in arrived : Execute(k)
      BY <2>2
    <3>2. /\ k.r \in Requests /\ executed \in [Requests -> Nat]
          /\ executed' = [executed EXCEPT ![k.r] = @ + 1] /\ outcome' = outcome
      BY <1>2, <3>1 DEF Execute, Inv, TypeOK, callerVars
    <3>3. CASE k.r \notin Calls
      BY <3>2, <3>3, RequestTypes
    <3>4. CASE k.r \in Calls
      <4>1. executed[k.r] = 0 /\ ~Away(k.r)
        BY <1>2, <3>4 DEF Inv, Unique, Away
      <4>2. outcome[k.r] \notin NotSent
        BY <1>2, <3>4, <4>1 DEF Inv, Truthful, Fresh, Quiet
      <4>3. ex' = [ex EXCEPT ![k.r] = 1]
        <5>1. executed'[k.r] = 1
          BY <3>2, <4>1
        <5>2. \A c \in Calls : c # k.r => executed'[c] = executed[c]
          BY <3>2, RequestTypes
        <5>3. ex' = [c \in Calls |-> executed'[c]]
          OBVIOUS
        <5>4. [ex EXCEPT ![k.r] = 1] = [c \in Calls |-> IF c = k.r THEN 1 ELSE executed[c]]
          OBVIOUS
        <5> QED BY <5>1, <5>2, <5>3, <5>4
      <4>4. Promise!TakeEffect(k.r)
        BY <3>2, <3>4, <4>1, <4>2, <4>3 DEF Promise!TakeEffect, Promise!NotDelivered, NotSent
      <4> QED BY <3>4, <4>4 DEF Promise!Next
    <3> QED BY <3>3, <3>4
  <2>3. CASE ~Notify /\ ~\E k \in arrived : Execute(k)
    <3>1. UNCHANGED <<executed, outcome>>
      BY <1>2, <2>3, SilentSteps
    <3> QED BY <3>1
  <2> QED BY <2>1, <2>2, <2>3
<1>3. Inv /\ [Next]_vars => [Promise!Next]_<<ex, outcome>>
  BY <1>2
<1> HIDE DEF ex
<1> QED BY <1>1, <1>3, SenderInvariance, PTL DEF Spec, Promised, Promise!Spec, ex
=============================================================================
