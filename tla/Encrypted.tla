----------------------------- MODULE Encrypted ------------------------------
(***************************************************************************)
(* grammers-mtproto/src/mtp/encrypted.rs: a session with Telegram.  Message*)
(* identifiers and the correction of the clock, sequence numbers, salts    *)
(* and their prefetch, acknowledgements, and the decoding of packets that  *)
(* arrive late, again, or in containers.                                   *)
(*                                                                         *)
(* The sender frames requests (push), seals the packet (finalize) and is   *)
(* told what a packet means (deserialize); it sends a request again when   *)
(* its rejection permits that.  Telegram is an environment: it checks the  *)
(* clock and the salt of a packet, answers, and sends its messages in any  *)
(* order, also more than once.                                             *)
(*                                                                         *)
(* An identifier is a point in time: PerSecond of them make a second.  A   *)
(* length is in units: a header is one, as are the fixed part of an        *)
(* acknowledgement, each identifier in it, and a request for salts.        *)
(***************************************************************************)
EXTENDS Integers, Sequences, FiniteSets, SequencesExt, ReplayIds

CONSTANTS
    Requests,       \* requests of users
    PerSecond,      \* identifiers in a second (2^30)
    Step,           \* by how many of them the clocks advance at once
    MaxMessages,    \* MessageContainer::MAXIMUM_LENGTH
    MaxSize,        \* MessageContainer::MAXIMUM_SIZE
    MaxAcks,        \* identifiers in one acknowledgement (8192)
    AckLimit,       \* identifiers that may wait to be acknowledged (65536)
    Jitter,         \* the seconds by which the last identifier may be ahead (3)
    UseDelay,       \* SALT_USE_DELAY
    SaltPeriod,     \* seconds after which Telegram changes its salt
    NumSalts,       \* NUM_FUTURE_SALTS
    Early, Late,    \* seconds by which Telegram lets an identifier be off
    Skews,          \* by how much the local clock may be wrong
    Start,          \* the time at which the session starts
    Budgets         \* bounds on what the environment does; one is chosen

VARIABLES
    time,       \* Telegram's clock, by which all monotonic clocks advance
    skew,       \* how far the local clock is ahead of it
    mtp,        \* Encrypted
    packet,     \* the messages framed so far, their length, and whether push
                \* has refused more
    request,    \* each request: where it is, its identifier and its packet's
    wire,       \* packets on their way to Telegram
    out,        \* messages Telegram has to send
    pending,    \* what is left of the packet that is decoded, and the
                \* pending_received of its budget
    server,     \* Telegram: the last identifier and whether the session is known
    got,        \* history: identifiers that were received, updates that were
                \* delivered, also again, messages that were held back, and
                \* whether the clock was corrected since it last jumped
    acked,      \* history: identifiers that were acknowledged
    open,       \* FALSE when decoding has failed: the sender gives up
    budget      \* what the environment may still do

vars == <<time, skew, mtp, packet, request, wire, out, pending, server, got, acked, open, budget>>

None == -1
NoPacket == [messages |-> <<>>, size |-> 0, full |-> FALSE]
Quiet == [left |-> <<>>, ids |-> {}, nested |-> FALSE, floor |-> 0]
Second(id) == id \div PerSecond
Local == time + skew

(* What the environment may do, when acknowledgements are due, and what is sent *)
Budget == [updates : Nat, containers : Nat, services : Nat, resends : Nat, reorders : Nat,
           whims : Nat, ticks : Nat, jumps : Nat, timer : BOOLEAN, batch : Nat, salt : Nat,
           requests : SUBSET Requests, size : Nat]

ASSUME EncryptedAssumption ==
    /\ Skews \subseteq Int /\ Start \in Nat
    /\ {PerSecond, Step, MaxMessages, MaxSize, MaxAcks, AckLimit, SaltPeriod, NumSalts} \subseteq Nat \ {0}
    /\ {Jitter, UseDelay, Early, Late} \subseteq Nat
    /\ Budgets \subseteq Budget

-----------------------------------------------------------------------------
(* Identifiers, sequence numbers and room *)

(* get_new_msg_id *)
NewMsgId(m) ==
    LET seconds == Bigger(Second(Local) + m.offset, 0)
        fresh == seconds * PerSecond + (Local % PerSecond)
    IN  IF m.last >= fresh THEN m.last + 1 ELSE fresh

(* correct_time_offset *)
FaultyCorrectTimeOffset(m, id) == [m EXCEPT !.offset = Second(id) - Second(Local)]
CorrectTimeOffset(m, id) ==
    [m EXCEPT !.offset = Second(id) - Second(Local),
              !.last = IF Second(@) > Second(id) + Jitter THEN 0 ELSE @]

(* message_fits *)
FaultyFits(p, length) == Len(p.messages) < MaxMessages /\ p.size + 1 + length < MaxSize
Fits(p, length) == Len(p.messages) < MaxMessages /\ p.size + 1 + length <= MaxSize

(* serialize_msg: the next identifier and sequence number go to the message *)
Framed(p, message, length) ==
    [p EXCEPT !.messages = Append(@, message), !.size = @ + 1 + length]
Advanced(m, related) == [m EXCEPT !.last = NewMsgId(m), !.seq = IF related THEN @ + 2 ELSE @]

-----------------------------------------------------------------------------
(* Acknowledgements *)

(* queue_ack; the result is an error beyond the limit *)
QueueAck(m, id) == [m EXCEPT !.acks = Append(@, id), !.old = @ /\ m.acks # <<>>]

(* ack_due *)
FaultyAckDue(m) == m.acks # <<>> /\ Len(m.acks) >= budget.batch
AckDue(m) == m.acks # <<>> /\ (m.flush \/ Len(m.acks) >= budget.batch \/ m.old)

(* The identifiers that messages acknowledge *)
AcksIn(messages) ==
    UNION {ToSet(messages[i].ids) : i \in {j \in DOMAIN messages : messages[j].kind = "ack"}}

(* serialize_pending_ack: as many as fit; the rest keep their deadline *)
AckCount(p, m) ==
    LET room == MaxSize - p.size - 2
        smaller(a, b) == IF a < b THEN a ELSE b
    IN  smaller(smaller(Len(m.acks), MaxAcks), room)
CanAck(p, m) == AckCount(p, m) > 0 /\ Fits(p, 1 + AckCount(p, m))
FaultyAfterAck(p, m) ==
    LET n == AckCount(p, m)
    IN  [packet |-> Framed(p, [kind |-> "ack", id |-> NewMsgId(m), ids |-> SubSeq(m.acks, 1, n)], 1 + n),
         mtp |-> [Advanced(m, FALSE) EXCEPT !.acks = <<>>, !.old = FALSE, !.flush = FALSE]]
AfterAck(p, m) ==
    LET n == AckCount(p, m)
        rest == SubSeq(m.acks, n + 1, Len(m.acks))
    IN  [packet |-> Framed(p, [kind |-> "ack", id |-> NewMsgId(m), ids |-> SubSeq(m.acks, 1, n)], 1 + n),
         mtp |-> [Advanced(m, FALSE) EXCEPT !.acks = rest, !.old = @ /\ rest # <<>>,
                                            !.flush = @ /\ rest # <<>>]]

-----------------------------------------------------------------------------
(* Salts; the one in use comes first *)

CurrentSalt(m) == m.salts[1].salt
OnlySalt(n) == <<[salt |-> n, since |-> 0]>>

(* push moves on to the next salt when it has been valid for a while *)
NextSalt(m) ==
    IF /\ m.saltTime # <<>> /\ Len(m.salts) > 1
       /\ m.saltTime[1] + Second(time - m.saltTime[2]) >= m.salts[2].since + UseDelay
    THEN [m EXCEPT !.salts = Tail(@)] ELSE m

(* try_request_salts *)
WantsSalts(p, m) ==
    /\ p.messages = <<>> /\ Len(m.salts) = 1 /\ m.saltRequest = None /\ m.saltFailures <= 3
    /\ CurrentSalt(m) # 0 /\ Fits(p, 1)

(* fail_salt_request *)
FaultyFailSaltRequest(m, id) ==
    IF m.saltRequest = id THEN [m EXCEPT !.saltFailures = @ + 1] ELSE m
FailSaltRequest(m, id) ==
    IF m.saltRequest = id THEN [m EXCEPT !.saltRequest = None, !.saltFailures = @ + 1] ELSE m

-----------------------------------------------------------------------------
(* Framing *)

(* Framing and decoding are synchronous: between two calls the session is idle,
   and only then does anything else happen *)
Decoding == pending # Quiet \/ ~open
Idle == pending = Quiet /\ packet = NoPacket
Queued == {r \in Requests : request[r].where = "queued"}

(* push: a salt request goes alone; acknowledgements go first unless they have
   just kept a request out; a request that does not fit is refused *)
Push(r) ==
    LET m == NextSalt(mtp)
        wrote == ~m.deferred /\ AckDue(m) /\ CanAck(packet, m)
        a == IF wrote THEN AfterAck(packet, m) ELSE [packet |-> packet, mtp |-> m]
    IN  /\ ~Decoding /\ ~packet.full /\ r \in Queued
        /\ \/ /\ WantsSalts(packet, m)
              /\ packet' = [Framed(packet, [kind |-> "salts", id |-> NewMsgId(m)], 1) EXCEPT !.full = TRUE]
              /\ mtp' = [Advanced(m, TRUE) EXCEPT !.saltRequest = NewMsgId(m)]
              /\ UNCHANGED request
           \/ /\ ~WantsSalts(packet, m) /\ Fits(a.packet, budget.size)
              /\ packet' = Framed(a.packet, [kind |-> "request", id |-> NewMsgId(a.mtp)], budget.size)
              /\ mtp' = [Advanced(a.mtp, TRUE) EXCEPT !.deferred = FALSE]
              /\ request' = [request EXCEPT ![r] = [where |-> "framed", id |-> NewMsgId(a.mtp), outer |-> None]]
           \/ /\ ~WantsSalts(packet, m) /\ ~Fits(a.packet, budget.size)
              /\ packet' = [a.packet EXCEPT !.full = TRUE]
              /\ mtp' = [a.mtp EXCEPT !.deferred = @ \/ wrote]
              /\ UNCHANGED request
    /\ UNCHANGED <<time, skew, wire, out, pending, server, got, acked, open, budget>>

(* finalize: acknowledgements join unless the packet is a salt request, and a
   container is put around several messages *)
FaultySaltOnly == FALSE
SaltOnly == Len(packet.messages) = 1 /\ mtp.saltRequest = mtp.last
Finalize ==
    LET joins == /\ ~SaltOnly /\ AckDue(mtp)
                 /\ mtp.flush \/ packet.messages # <<>> \/ Len(mtp.acks) >= MaxAcks \/ mtp.old
                 /\ CanAck(packet, mtp)
        a == IF joins THEN AfterAck(packet, mtp) ELSE [packet |-> packet, mtp |-> mtp]
        messages == a.packet.messages
        m == IF Len(messages) > 1 THEN Advanced(a.mtp, FALSE) ELSE a.mtp
    IN  /\ ~Decoding /\ (packet.full \/ Queued = {}) /\ messages # <<>>
        /\ mtp' = m
        /\ wire' = Append(wire, [id |-> m.last, salt |-> CurrentSalt(m), messages |-> messages])
        /\ request' = [r \in Requests |-> IF request[r].where # "framed" THEN request[r]
                                          ELSE [request[r] EXCEPT !.where = "sent", !.outer = m.last]]
        /\ packet' = NoPacket
        /\ acked' = acked \cup AcksIn(messages)
        /\ UNCHANGED <<time, skew, out, pending, server, got, open, budget>>

(* Acknowledgements have waited for ACK_MAX_DELAY; on_service_timeout *)
AcksAge ==
    /\ Idle /\ mtp.acks # <<>> /\ ~mtp.old /\ budget.timer
    /\ mtp' = [mtp EXCEPT !.old = TRUE]
    /\ UNCHANGED <<time, skew, packet, request, wire, out, pending, server, got, acked, open, budget>>
OnServiceTimeout ==
    /\ Idle /\ open /\ mtp.old /\ ~mtp.flush
    /\ mtp' = [mtp EXCEPT !.flush = TRUE]
    /\ UNCHANGED <<time, skew, packet, request, wire, out, pending, server, got, acked, open, budget>>

-----------------------------------------------------------------------------
(* Decoding *)

(* process_plaintext: a packet is decoded message by message.  The floor stays
   what it was, and so does the window when the packet is a container. *)
Deserialize(message) ==
    /\ Idle /\ open
    /\ message \in out
    /\ LET again == message.id \in got.received
           overtakes == ~again /\ \E x \in out : x.id < message.id /\ x.id \notin got.received
       IN  /\ again => budget.resends > 0
           /\ overtakes => budget.reorders > 0
           /\ budget' = [budget EXCEPT !.resends = IF again THEN @ - 1 ELSE @,
                                      !.reorders = IF overtakes THEN @ - 1 ELSE @]
    /\ pending' = [left |-> <<message>>, ids |-> {}, nested |-> FALSE, floor |-> mtp.floor]
    /\ UNCHANGED <<time, skew, mtp, packet, request, wire, out, server, got, acked, open>>

NeedsAck(message) == message.kind \in {"update", "result", "session"}

(* The sender acts on what was decoded *)
Answered(id) == [r \in Requests |-> IF request[r].where = "sent" /\ request[r].id = id
                                    THEN [request[r] EXCEPT !.where = "done"] ELSE request[r]]
Retryable(code) == code \in {16, 17, 48}
Rejected(id, code) ==
    [r \in Requests |->
        IF request[r].where # "sent" \/ id \notin {request[r].id, request[r].outer} THEN request[r]
        ELSE [request[r] EXCEPT !.where = IF Retryable(code) THEN "queued" ELSE "done"]]

(* handle_bad_notification; a late one retires its request and nothing else *)
Notified(m, message, fresh) ==
    LET f == FailSaltRequest(m, message.of)
    IN  IF ~fresh THEN f
        ELSE CASE message.code = 48 -> [f EXCEPT !.salts = OnlySalt(message.salt), !.saltRequest = None]
               [] message.code \in {16, 17} -> CorrectTimeOffset(f, message.id)
               [] message.code = 32 -> [f EXCEPT !.seq = @ + 64]
               [] message.code = 33 -> [f EXCEPT !.seq = Bigger(@ - 16, 0)]
               [] OTHER -> f

(* handle_future_salts *)
Salted(m, message, fresh) ==
    LET f == IF m.saltRequest = message.of THEN [m EXCEPT !.saltRequest = None] ELSE m
    IN  IF ~fresh \/ message.salts = <<>>
        THEN [f EXCEPT !.saltFailures = IF m.saltRequest = message.of THEN @ + 1 ELSE @]
        ELSE [f EXCEPT !.salts = message.salts, !.saltTime = <<message.now, time>>, !.saltFailures = 0]

(* What a message does to the session *)
Handled(m, message, fresh) ==
    CASE message.kind = "result" -> FailSaltRequest(m, message.of)
      [] message.kind = "bad" -> Notified(m, message, fresh)
      [] message.kind = "salts" -> Salted(m, message, fresh)
      [] message.kind = "session" -> [m EXCEPT !.salts = OnlySalt(message.salt)]
      [] message.kind = "detailed" -> QueueAck(m, message.of)
      [] OTHER -> m

(* Kinds that retire requests are looked at even when they are late *)
FaultySuppressed(message, stale) == FALSE
Suppressed(message, stale) ==
    stale /\ message.kind \notin {"result", "container", "salts", "bad"}

(* remember_received; nothing else changes the window *)
FaultyRemembered(m, id) == [m EXCEPT !.window = Remember(mtp.window, id).window]
HastyRemembered(m, id) ==
    LET r == Remember(mtp.window, id)
    IN  [m EXCEPT !.window = r.window, !.floor = IF r.evicted = NoId THEN @ ELSE Bigger(@, id)]
Remembered(m, id) ==
    LET r == Remember(mtp.window, id)
    IN  [m EXCEPT !.window = r.window, !.floor = Bigger(@, r.evicted)]

IsReplay(id) == Holds(mtp.window, id) \/ id \in pending.ids

(* process_bounded.  A container is opened; its messages come next and are only
   remembered, with it, when the last of them was decoded.  What cannot be
   decoded, and an acknowledgement too many, ends the session. *)
Acked(m, message) == IF NeedsAck(message) THEN QueueAck(m, message.id) ELSE m
FaultyFails(message) == message.kind = "invalid"
Fails(message) ==
    \/ message.kind = "invalid"
    \/ (NeedsAck(message) \/ message.kind = "detailed") /\ Len(mtp.acks) >= AckLimit
AfterMessage(message, keep) ==
    IF pending.nested
    THEN [pending EXCEPT !.left = Tail(@), !.ids = IF keep THEN @ \cup {message.id} ELSE @]
    ELSE Quiet
Process ==
    LET message == Head(pending.left)
        late == message.id <= pending.floor
        replay == IsReplay(message.id)
        skip == replay \/ Suppressed(message, late)
        m == IF skip THEN Acked(mtp, message) ELSE Handled(Acked(mtp, message), message, ~late)
        opens == message.kind = "container" /\ ~skip
        keep == ~skip /\ ~late
        updates == ~skip /\ (message.kind = "update" \/ (message.kind = "result" /\ ~late))
    IN  /\ open /\ pending.left # <<>> /\ ~Fails(message)
        /\ pending' = IF opens THEN [left |-> message.parts, nested |-> TRUE, floor |-> pending.floor,
                                     ids |-> IF keep THEN {message.id} ELSE {}]
                      ELSE AfterMessage(message, keep)
        /\ mtp' = IF keep /\ ~pending.nested /\ ~opens THEN Remembered(m, message.id) ELSE m
        /\ request' = IF skip THEN request
                      ELSE CASE message.kind = "result" -> Answered(message.of)
                             [] message.kind = "bad" /\ mtp.saltRequest # message.of -> Rejected(message.of, message.code)
                             [] OTHER -> request
        /\ got' = [got EXCEPT !.received = @ \cup {message.id},
                              !.updates = IF updates THEN @ \cup {message.id} ELSE @,
                              !.corrected = @ \/ (~skip /\ ~late /\ message.kind = "bad" /\ message.code \in {16, 17}),
                              !.again = @ \/ (updates /\ message.id \in got.updates),
                              !.lost = IF Suppressed(message, late) /\ message.id \notin got.received
                                       THEN @ \cup {message.id} ELSE @]
        /\ UNCHANGED <<time, skew, packet, wire, out, server, acked, open, budget>>

DecodeFails ==
    /\ open /\ pending.left # <<>> /\ Fails(Head(pending.left))
    /\ open' = FALSE /\ pending' = Quiet
    /\ UNCHANGED <<time, skew, mtp, packet, request, wire, out, server, got, acked, budget>>

(* The identifiers of a container are remembered in ascending order *)
RememberNext ==
    /\ open /\ pending.left = <<>> /\ pending.nested
    /\ IF pending.ids = {} THEN pending' = Quiet /\ UNCHANGED mtp
       ELSE LET id == CHOOSE x \in pending.ids : \A y \in pending.ids : x <= y
            IN  /\ mtp' = Remembered(mtp, id)
                /\ pending' = [pending EXCEPT !.ids = @ \ {id}]
    /\ UNCHANGED <<time, skew, packet, request, wire, out, server, got, acked, open, budget>>

-----------------------------------------------------------------------------
(* Telegram and the clocks *)

Salt == 1 + Second(time) \div SaltPeriod
(* The code of a packet that is refused *)
Refusal(p) ==
    IF Second(p.id) + Late < Second(time) THEN 16
    ELSE IF Second(p.id) > Second(time) + Early THEN 17
    ELSE IF p.salt \notin {Salt, Salt - 1} THEN 48
    ELSE 0
NextId == Bigger(server.last + 1, time)
Upcoming == [i \in 1 .. NumSalts |-> [salt |-> Salt + i - 1, since |-> (Salt + i - 2) * SaltPeriod]]

(* Answers to the messages of a packet; a request for salts may be answered with
   nothing or with an error *)
Answer(message, id, whim) ==
    CASE message.kind = "request" -> {[kind |-> "result", id |-> id, of |-> message.id]}
      [] message.kind = "salts" ->
           {IF whim = "error" THEN [kind |-> "result", id |-> id, of |-> message.id]
            ELSE [kind |-> "salts", id |-> id, of |-> message.id, now |-> Second(time),
                  salts |-> IF whim = "empty" THEN <<>> ELSE Upcoming]}
      [] OTHER -> {}

Whims == {"none"} \cup (IF budget.whims > 0 THEN {"empty", "error", "low", "high"} ELSE {})
ServerReceives ==
    /\ Idle /\ wire # <<>>
    /\ wire' = Tail(wire)
    /\ \E whim \in Whims :
         LET p == Head(wire)
             code == IF Refusal(p) # 0 THEN Refusal(p)
                     ELSE IF whim = "low" THEN 32 ELSE IF whim = "high" THEN 33 ELSE 0
             greeting == IF server.known THEN {} ELSE {[kind |-> "session", id |-> NextId, salt |-> Salt]}
             answers == greeting \cup UNION {Answer(p.messages[i], NextId + i, whim) : i \in DOMAIN p.messages}
         IN  /\ out' = out \cup (IF code = 0 THEN answers
                                 ELSE {[kind |-> "bad", id |-> NextId, of |-> p.id, code |-> code, salt |-> Salt]})
             /\ server' = [last |-> IF code = 0 THEN NextId + Len(p.messages) ELSE NextId,
                           known |-> server.known \/ code = 0]
             /\ budget' = IF whim = "none" THEN budget ELSE [budget EXCEPT !.whims = @ - 1]
    /\ UNCHANGED <<time, skew, mtp, packet, request, pending, got, acked, open>>

(* Updates, containers of what was or is to be sent, and service messages *)
ServerSends(message, spent) ==
    /\ Idle
    /\ out' = out \cup {message}
    /\ server' = [server EXCEPT !.last = message.id]
    /\ budget' = spent
    /\ UNCHANGED <<time, skew, mtp, packet, request, wire, pending, got, acked, open>>
ServerUpdate ==
    /\ budget.updates > 0
    /\ ServerSends([kind |-> "update", id |-> NextId], [budget EXCEPT !.updates = @ - 1])
ServerContainer ==
    \E a, b \in {x \in out : x.kind # "container"} :
        /\ budget.containers > 0
        /\ ServerSends([kind |-> "container", id |-> NextId, parts |-> <<a, b>>],
                       [budget EXCEPT !.containers = @ - 1])
ServerService ==
    /\ budget.services > 0
    /\ \/ \E x \in out : ServerSends([kind |-> "detailed", id |-> NextId, of |-> x.id],
                                     [budget EXCEPT !.services = @ - 1])
       \/ ServerSends([kind |-> "invalid", id |-> NextId], [budget EXCEPT !.services = @ - 1])

Tick ==
    /\ Idle /\ budget.ticks > 0
    /\ time' = time + Step /\ budget' = [budget EXCEPT !.ticks = @ - 1]
    /\ UNCHANGED <<skew, mtp, packet, request, wire, out, pending, server, got, acked, open>>

ClockJump ==
    /\ Idle /\ budget.jumps > 0
    /\ skew' \in Skews /\ budget' = [budget EXCEPT !.jumps = @ - 1]
    /\ got' = [got EXCEPT !.corrected = FALSE]
    /\ UNCHANGED <<time, mtp, packet, request, wire, out, pending, server, acked, open>>

-----------------------------------------------------------------------------
(* Builder::finish *)
Init ==
    /\ budget \in Budgets
    /\ time = Start /\ skew \in IF budget.jumps > 0 THEN Skews ELSE {0}
    /\ mtp = [offset |-> 0, last |-> 0, seq |-> 0, salts |-> OnlySalt(budget.salt), saltTime |-> <<>>,
              saltRequest |-> None, saltFailures |-> 0, acks |-> <<>>, old |-> FALSE, flush |-> FALSE,
              deferred |-> FALSE, window |-> EmptyWindow, floor |-> 0]
    /\ packet = NoPacket /\ wire = <<>> /\ out = {} /\ pending = Quiet /\ acked = {} /\ open = TRUE
    /\ request = [r \in Requests |-> [where |-> IF r \in budget.requests THEN "queued" ELSE "done",
                                    id |-> None, outer |-> None]]
    /\ server = [last |-> 0, known |-> FALSE]
    /\ got = [received |-> {}, updates |-> {}, again |-> FALSE, lost |-> {}, corrected |-> FALSE]

Frame == Finalize \/ \E r \in Requests : Push(r)
Decode == Process \/ RememberNext \/ DecodeFails
Deliver == \E message \in out : Deserialize(message)
Next ==
    \/ Frame \/ Decode \/ Deliver \/ AcksAge \/ OnServiceTimeout
    \/ ServerReceives \/ ServerUpdate \/ ServerContainer \/ ServerService \/ Tick \/ ClockJump

Spec == Init /\ [][Next]_vars

(* Fairness: the sender frames what it can and decodes what arrives, its timer
   fires, and Telegram receives packets and sends every message at least once *)
FairSpec ==
    /\ Spec
    /\ WF_vars(Frame) /\ WF_vars(Decode) /\ WF_vars(AcksAge) /\ WF_vars(OnServiceTimeout)
    /\ WF_vars(ServerReceives)
    /\ WF_vars(\E message \in out : message.id \notin got.received /\ Deserialize(message))

-----------------------------------------------------------------------------
(* Properties *)

(* Messages of Telegram: alone, and in a container *)
MsgIds == Nat \ {0}
Salts == Seq([salt : Nat, since : Int])
Single ==
    [kind : {"update", "invalid"}, id : MsgIds]
    \cup [kind : {"result", "detailed"}, id : MsgIds, of : Nat]
    \cup [kind : {"bad"}, id : MsgIds, of : Nat, code : Nat, salt : Nat]
    \cup [kind : {"salts"}, id : MsgIds, of : Nat, now : Nat, salts : Salts]
    \cup [kind : {"session"}, id : MsgIds, salt : Nat]
Message == Single \cup [kind : {"container"}, id : MsgIds, parts : Seq(Single)]

(* Messages of the client *)
Framable == [kind : {"request", "salts"}, id : Nat] \cup [kind : {"ack"}, id : Nat, ids : Seq(Nat)]

(* Encrypted *)
Session ==
    [offset : Int, last : Nat, seq : Nat, salts : Salts, saltTime : Seq(Nat),
     saltRequest : Nat \cup {None}, saltFailures : 0 .. 4, acks : Seq(Nat), old : BOOLEAN,
     flush : BOOLEAN, deferred : BOOLEAN, floor : Nat,
     window : [base : Int, offsets : Seq(0 .. OffsetLimit - 1)]]

(* The variables keep their types, within the limits of the code *)
TypeClocks == time \in Nat /\ skew \in Int /\ open \in BOOLEAN /\ budget \in Budget
TypeSession ==
    /\ mtp \in Session /\ mtp.salts # <<>>
    /\ Len(mtp.acks) <= AckLimit /\ Len(mtp.window.offsets) <= Capacity
TypeRequest ==
    request \in [Requests -> [where : {"queued", "framed", "sent", "done"}, id : Nat \cup {None},
                             outer : Nat \cup {None}]]
TypePacket ==
    /\ packet \in [messages : Seq(Framable), size : 0 .. MaxSize, full : BOOLEAN]
    /\ Len(packet.messages) <= MaxMessages
TypeWire ==
    /\ wire \in Seq([id : Nat, salt : Nat, messages : Seq(Framable)])
    /\ \A i \in DOMAIN wire : Len(wire[i].messages) \in 1 .. MaxMessages
TypeTelegram == out \subseteq Message /\ server \in [last : Nat, known : BOOLEAN]
TypeDecoding ==
    /\ pending \in [left : Seq(Message), ids : SUBSET MsgIds, nested : BOOLEAN, floor : Nat]
    /\ got \in [received : SUBSET MsgIds, updates : SUBSET MsgIds, again : BOOLEAN,
                lost : SUBSET MsgIds, corrected : BOOLEAN]
    /\ acked \subseteq Nat
TypeOK ==
    /\ TypeClocks /\ TypeSession /\ TypeRequest /\ TypePacket /\ TypeWire
    /\ TypeTelegram /\ TypeDecoding

(* An update is delivered at most once, although its message may be sent again,
   alone or in containers, after its identifier has left the window *)
UpdatesOnce == ~got.again

(* A message that arrives for the first time is held back only when it is old:
   a full window of later ones has been received, or one that is MaxAge later *)
HeldBackOnlyWhenOld ==
    \A x \in got.lost :
        \/ Cardinality({y \in got.received : y > x}) >= Capacity
        \/ \E y \in got.received : y - x > MaxAge

(* The replay window holds back exactly what it has to *)
DeliveredOnce == UpdatesOnce /\ HeldBackOnlyWhenOld

(* Once the clock was corrected the next identifier is one that Telegram takes,
   however far ahead the last one was and however late the correction came *)
Corrected ==
    got.corrected => Second(NewMsgId(mtp)) \in Second(time) - Late .. Second(time) + Early

(* A request for salts has a packet of its own: when the packet is rejected, the
   identifier in the rejection is that of the request *)
SaltRequestAlone ==
    \A i \in DOMAIN wire :
        (\E j \in DOMAIN wire[i].messages : wire[i].messages[j].kind = "salts") => Len(wire[i].messages) = 1

(* What is on the wire is within the limits of a container, and a request for salts
   is alone there *)
WellFramed == TypeOK /\ SaltRequestAlone

(* A message that demands it is acknowledged, or waits to be: no identifier is
   dropped when an acknowledgement is full or does not fit *)
AcksKept ==
    \A x \in out : NeedsAck(x) /\ x.id \in got.received =>
        x.id \in ToSet(mtp.acks) \cup AcksIn(packet.messages) \cup acked

(* Every request is settled, whatever the local clock says at first, when salts
   change on the way, and when acknowledgements compete for the packet *)
RequestsSettled == <>(~open \/ \A r \in Requests : request[r].where = "done")

(* Acknowledgements do not wait for ever, also when the user sends nothing *)
AcksLeave == []<>(~open \/ ~budget.timer \/ mtp.acks = <<>>)

(* A request for salts does not stay in flight *)
SaltRequestRetired == []<>(~open \/ mtp.saltRequest = None)

(* Nothing the session owes is owed for ever: answers to the user, acknowledgements
   to Telegram, and salts to itself *)
SessionServed == RequestsSettled /\ AcksLeave /\ SaltRequestRetired
=============================================================================
