---------------------------- MODULE PacketReader ----------------------------
(***************************************************************************)
(* How the bytes of a connection become packets: the read half of          *)
(* Sender::step in grammers-mtsender/src/sender.rs with its buffer and its *)
(* liveness deadline, over the transports of grammers-mtproto/src/         *)
(* transport/ and of net/mtproxy.rs.  The socket gives the stream in       *)
(* pieces of any size.  A stream is a sequence of cells; a header is one   *)
(* or two of them, so that it can arrive in part, and a ciphered cell can  *)
(* be read only when it is decrypted once, at its place in the keystream.  *)
(***************************************************************************)
EXTENDS Integers, Sequences, SequencesExt

CONSTANTS
    Transports,     \* of "abridged", "intermediate", "full" and "padded"
    Plans,          \* what Telegram sends: sequences of Packet, which may be plain (not
                    \* encrypted, as while keys are exchanged), and Status
    Short,          \* sizes below this have an abridged header of one cell
    FirstBuffer,    \* INITIAL_READ_BUFFER_SIZE
    BusyBuffer,     \* BUSY_READ_BUFFER_SIZE and RETAINED_BUFFER_SIZE
    MaximumData,    \* MAXIMUM_DATA
    Segment         \* cells that reach this host at once

VARIABLES
    transport,  \* the transport, and whether its bytes are ciphered
    plan,       \* what Telegram sends
    arrived,    \* cells that reached this host
    ready,      \* cells the reactor has noticed
    rx,         \* the reading half of the sender: see Start
    expired,    \* the liveness deadline has passed
    probe,      \* read_expired_liveness: "no", "armed" or "fired"
    due         \* cells that had arrived when the probe began

readerVars == <<transport, plan, arrived, ready, rx, expired, probe, due>>

Packet(size, pad, plain) == [size |-> size, pad |-> pad, status |-> FALSE, plain |-> plain]
Status == [size |-> 1, pad |-> 0, status |-> TRUE, plain |-> FALSE]

-----------------------------------------------------------------------------

(* What the other side writes.  Cells of a header carry the length; a full *)
(* packet counts and sums up its cells; a padded one ends in padding.      *)
Cell(part, k, v) == [part |-> part, packet |-> k, value |-> v]
Body(k, n) == [i \in 1..n |-> Cell("body", k, i)]
Frame(kind, k, p) ==
    CASE kind = "abridged" ->
           (IF p.size < Short THEN <<Cell("len", k, p.size)>>
                              ELSE <<Cell("long", k, p.size), Cell("len", k, p.size)>>) \o Body(k, p.size)
      [] kind = "full" /\ p.status -> <<Cell("low", k, -1), Cell("len", k, -1)>>
      [] kind = "full" ->
           <<Cell("low", k, p.size), Cell("len", k, p.size), Cell("seq", k, k - 1)>>
             \o Body(k, p.size) \o <<Cell("crc", k, 0)>>
      [] kind = "intermediate" ->
           <<Cell("low", k, p.size), Cell("len", k, p.size)>> \o Body(k, p.size)
      [] kind = "padded" ->
           <<Cell("low", k, p.size + p.pad), Cell("len", k, p.size + p.pad)>> \o Body(k, p.size + p.pad)
StreamTo(k) == FoldLeft(LAMBDA s, j : s \o Frame(transport.kind, j, plan[j]), <<>>, [j \in 1..k |-> j])
Stream == StreamTo(Len(plan))
FrameEnd(k) == Len(StreamTo(k))

-----------------------------------------------------------------------------

(* The transports' unpack of the cells v, which are places in the stream.  *)
(* "next" is next_offset, "data" the data range.  A length read from cells *)
(* that do not hold one is "garbage".                                      *)
Missing == [res |-> "missing", next |-> 0, data |-> <<>>]
Refused(why) == [res |-> why, next |-> 0, data |-> <<>>]
Found(v, header, size, next) == [res |-> "ok", next |-> next, data |-> SubSeq(v, header + 1, header + size)]
Clear(c, part) == c.state = "clear" /\ Stream[c.at].part = part
Value(c) == Stream[c.at].value
IsStatus(c) == plan[Stream[c.at].packet].status

UnpackAbridged(v) ==
    IF v = <<>> THEN Missing
    ELSE IF ~Clear(v[1], "len") /\ ~Clear(v[1], "long") THEN Refused("garbage")
    ELSE LET header == IF Clear(v[1], "len") THEN 1 ELSE 2
             size == Value(v[1])
         IN  IF Len(v) < header + size THEN Missing
             ELSE IF header = 1 /\ size = 1 /\ IsStatus(v[1]) THEN Refused("status")
             ELSE Found(v, header, size, header + size)

UnpackIntermediate(v) ==
    IF Len(v) < 2 THEN Missing
    ELSE IF ~Clear(v[1], "low") \/ ~Clear(v[2], "len") THEN Refused("garbage")
    ELSE LET size == Value(v[2])
         IN  IF Len(v) < 2 + size THEN Missing
             ELSE IF size = 1 THEN Refused("status")
             ELSE Found(v, 2, size, 2 + size)

Sound(v) == \A i \in DOMAIN v : v[i].state = "clear" /\ v[i].at = v[1].at + i - 1
UnpackFull(v, seq) ==
    IF Len(v) < 2 THEN Missing
    ELSE IF ~Clear(v[1], "low") \/ ~Clear(v[2], "len") THEN Refused("garbage")
    ELSE LET size == Value(v[2])
         IN  IF size < 0 THEN Refused("status")
             ELSE IF Len(v) < size + 4 THEN Missing
             ELSE IF Value(v[3]) # seq THEN Refused("seq")
             ELSE IF ~Sound(SubSeq(v, 1, size + 4)) THEN Refused("crc")
             ELSE Found(v, 3, size, size + 4)

(* unpack_padded: the padding is less than a cipher block of two cells.  A *)
(* plain packet tells the length of its body, an encrypted one is made of  *)
(* whole blocks after its first cell                                       *)
Told(v) == plan[Stream[v[1].at].packet]
PaddedSize(v, size) == IF Told(v).plain THEN Told(v).size ELSE 1 + ((size - 1) \div 2) * 2
UnpackPadded(v) ==
    IF Len(v) < 2 THEN Missing
    ELSE IF ~Clear(v[1], "low") \/ ~Clear(v[2], "len") THEN Refused("garbage")
    ELSE LET size == Value(v[2])
             data == PaddedSize(v, size)
         IN  IF size < 1 \/ size > MaximumData - 2 THEN Refused("length")
             ELSE IF Len(v) < 2 + size THEN Missing
             ELSE IF size < 2 THEN Refused(IF IsStatus(v[1]) THEN "status" ELSE "length")
             ELSE IF (~Told(v).plain /\ size < 3) \/ data > size \/ size - data > 1 THEN Refused("length")
             ELSE Found(v, 2, data, 2 + size)

Unpacked(v, seq) ==
    CASE transport.kind = "abridged" -> UnpackAbridged(v)
      [] transport.kind = "intermediate" -> UnpackIntermediate(v)
      [] transport.kind = "full" -> UnpackFull(v, seq)
      [] transport.kind = "padded" -> UnpackPadded(v)

(* Obfuscated and MtProxyTransport decrypt what they have not seen yet *)
Decrypted(v, c) ==
    [i \in DOMAIN v |->
        IF ~transport.ciphered \/ i <= c.tail THEN v[i]
        ELSE [v[i] EXCEPT !.state =
                IF @ = "cipher" /\ v[i].at = c.key + i - c.tail THEN "clear" ELSE "garbled"]]
FaultyRemaining(c, v, next) == [key |-> c.key + Len(v) - c.tail, tail |-> Len(v)]
Remaining(c, v, next) == [key |-> c.key + Len(v) - c.tail, tail |-> Len(v) - next]

-----------------------------------------------------------------------------

(* The reading half of a new sender: cells taken from the socket, those of *)
(* read_buffer below read_tail, its length, decrypt_tail with the cipher's *)
(* place in the keystream, recv_seq, the data given to mtp.deserialize,    *)
(* last_large_transfer being recent, and why the connection ended          *)
Start == [taken |-> 0, cells |-> <<>>, length |-> FirstBuffer, crypt |-> [key |-> 0, tail |-> 0],
          seq |-> 0, got |-> <<>>, busy |-> FALSE, closed |-> "open"]
Lesser(m, n) == IF m < n THEN m ELSE n

(* The loop of on_net_read: one unpack after another until bytes are       *)
(* missing or none are left                                                *)
AfterUnpack(acc, v, u) ==
    [cells |-> SubSeq(acc.cells, 1, acc.next) \o v,
     next |-> acc.next + u.next,
     crypt |-> Remaining(acc.crypt, v, u.next),
     seq |-> IF u.res = "ok" /\ transport.kind = "full" THEN acc.seq + 1 ELSE acc.seq,
     got |-> IF u.res = "ok" THEN Append(acc.got, u.data) ELSE acc.got,
     res |-> u.res]
Unpack(acc, v) == AfterUnpack(acc, v, Unpacked(v, acc.seq))
UnpackNext(acc) ==
    IF acc.next = Len(acc.cells) \/ acc.res # "ok" THEN acc
    ELSE Unpack(acc, Decrypted(SubSeq(acc.cells, acc.next + 1, Len(acc.cells)), acc.crypt))
UnpackAll(cells, r) ==
    FoldLeft(LAMBDA acc, i : UnpackNext(acc),
             [cells |-> cells, next |-> 0, crypt |-> r.crypt, seq |-> r.seq, got |-> r.got, res |-> "ok"],
             [i \in 1..Len(cells) |-> i])

(* release_idle_buffers gives back a grown buffer that holds nothing *)
Releasable(r, left) == r.length > FirstBuffer /\ ~r.busy /\ left = <<>>

Sized(r, cells, left) ==
    LET filled == Len(cells) = r.length
        grow == filled /\ r.length < BusyBuffer
        large == Len(cells) > BusyBuffer \/ (filled /\ r.length > FirstBuffer)
    IN  [r EXCEPT !.busy = @ \/ grow \/ large,
                  !.length = IF grow THEN Lesser(r.length * 2, BusyBuffer)
                             ELSE IF ~large /\ Releasable(r, left) THEN FirstBuffer ELSE @]
(* Bytes that are left when a buffer is given back are lost *)
Left(left, shrunk) == [i \in DOMAIN left |-> IF shrunk THEN [left[i] EXCEPT !.state = "garbled"] ELSE left[i]]
Keep(r, sized, n, u, left) ==
    [sized EXCEPT !.taken = r.taken + n, !.cells = Left(left, sized.length < r.length),
                  !.crypt = u.crypt, !.seq = u.seq, !.got = u.got]
AfterRead(r, n, cells, u, left) ==
    IF u.res \notin {"ok", "missing"} THEN [r EXCEPT !.taken = @ + n, !.got = u.got, !.closed = u.res]
    ELSE Keep(r, Sized(r, cells, left), n, u, left)
Received(r, n, cells, u) == AfterRead(r, n, cells, u, SubSeq(u.cells, u.next + 1, Len(u.cells)))
UnpackRead(r, n, cells) == Received(r, n, cells, UnpackAll(cells, r))
OnNetRead(r, n) ==
    UnpackRead(r, n, r.cells \o [i \in 1..n |->
        [at |-> r.taken + i, state |-> IF transport.ciphered THEN "cipher" ELSE "clear"]])

(* prepare_read_buffer, before every read *)
FaultyPrepared(r) ==
    IF Len(r.cells) < r.length THEN r
    ELSE IF r.length * 2 > MaximumData THEN [r EXCEPT !.closed = "limit"]
    ELSE [r EXCEPT !.length = r.length * 2]
Prepared(r) ==
    IF Len(r.cells) < r.length THEN r
    ELSE IF Len(r.cells) >= MaximumData THEN [r EXCEPT !.closed = "limit"]
    ELSE [r EXCEPT !.length = Lesser(r.length * 2, MaximumData)]
Room(r) == r.length - Len(r.cells)

-----------------------------------------------------------------------------

(* step while the deadline is ahead: a read of what fits and is ready, of  *)
(* any size.  A valid packet moves the deadline.                           *)
Open == rx.closed = "open"
Step ==
    /\ Open /\ ~expired
    /\ LET r == Prepared(rx)
       IN  \/ /\ r.closed # "open"
              /\ rx' = r
              /\ UNCHANGED <<expired, probe>>
           \/ /\ r.closed = "open"
              /\ \E n \in 1..Lesser(Room(r), ready - r.taken) : rx' = OnNetRead(r, n)
              /\ UNCHANGED expired
              /\ probe' = IF Len(rx'.got) > Len(rx.got) THEN "no" ELSE probe
    /\ UNCHANGED <<transport, plan, arrived, ready, due>>

(* step after it: read_expired_liveness arms its timer, unless a call that *)
(* was dropped has armed it, and then reads what is ready until a packet   *)
(* is complete                                                             *)
FaultyArmed == "fired"
Armed == "armed"
BeginProbe ==
    /\ Open /\ expired /\ probe = "no"
    /\ probe' = Armed
    /\ due' = arrived
    /\ UNCHANGED <<transport, plan, arrived, ready, rx, expired>>

ProbeRead(acc, r, n) ==
    IF r.closed # "open" THEN [acc EXCEPT !.rx = r]
    ELSE IF n = 0 THEN [acc EXCEPT !.rx = [r EXCEPT !.closed = "silent"]]
    ELSE [rx |-> OnNetRead(r, n), budget |-> acc.budget - n]
Probe(acc, r) == ProbeRead(acc, r, Lesser(Lesser(Room(r), acc.budget), ready - r.taken))
ProbeNext(acc) ==
    IF acc.rx.closed # "open" \/ Len(acc.rx.got) > Len(rx.got) THEN acc
    ELSE IF acc.budget = 0 THEN [acc EXCEPT !.rx.closed = "silent"]
    ELSE Probe(acc, Prepared(acc.rx))
ProbeReads ==
    /\ Open /\ expired /\ probe = "fired"
    /\ rx' = FoldLeft(LAMBDA acc, i : ProbeNext(acc), [rx |-> rx, budget |-> MaximumData],
                      [i \in 1..MaximumData + 1 |-> i]).rx
    /\ expired' = (Len(rx'.got) = Len(rx.got))
    /\ probe' = IF expired' THEN probe ELSE "no"
    /\ UNCHANGED <<transport, plan, arrived, ready, due>>

(* The other side's cells arrive; the reactor takes a turn, in which it    *)
(* notices them and fires timers; time passes                              *)
Arrive ==
    /\ Open
    /\ arrived < Len(Stream)
    /\ arrived' = Lesser(arrived + Segment, Len(Stream))
    /\ UNCHANGED <<transport, plan, ready, rx, expired, probe, due>>
ReactorTurn ==
    /\ Open /\ (ready # arrived \/ probe = "armed")
    /\ ready' = arrived
    /\ probe' = IF probe = "armed" THEN "fired" ELSE probe
    /\ UNCHANGED <<transport, plan, arrived, rx, expired, due>>
TimePasses ==
    /\ Open /\ (~expired \/ rx.busy)
    /\ \/ ~expired /\ expired' = TRUE /\ rx' = rx
       \/ rx.busy /\ rx' = [rx EXCEPT !.busy = FALSE] /\ UNCHANGED expired
    /\ UNCHANGED <<transport, plan, arrived, ready, probe, due>>

-----------------------------------------------------------------------------

Init ==
    /\ transport \in [kind : Transports, ciphered : BOOLEAN]
    /\ transport.kind = "padded" => transport.ciphered
    /\ transport.kind = "full" => ~transport.ciphered
    /\ plan \in Plans
    /\ arrived = 0 /\ ready = 0 /\ due = 0
    /\ rx = Start
    /\ expired = FALSE
    /\ probe = "no"

Next == Step \/ BeginProbe \/ ProbeReads \/ Arrive \/ ReactorTurn \/ TimePasses
Spec == Init /\ [][Next]_readerVars

-----------------------------------------------------------------------------

(* However the stream is cut, the packets given to the session are the     *)
(* packets Telegram sent, whole, deciphered and in order: decrypt_tail,    *)
(* the leftover bytes and recv_seq survive every partial read              *)
Payload(k) == LET first == FrameEnd(k) - (IF transport.kind = "full" THEN 1 ELSE 0)
                             - (IF transport.kind = "padded" THEN plan[k].pad ELSE 0) - plan[k].size
              IN  [i \in 1..plan[k].size |-> [at |-> first + i, state |-> "clear"]]
PacketsIntact == \A k \in DOMAIN rx.got : k <= Len(plan) /\ rx.got[k] = Payload(k)

(* The connection ends for the reason there is: a status that was sent, or *)
(* a packet that is larger than the buffer may ever be                     *)
FrameSize(k) == FrameEnd(k) - (IF k = 1 THEN 0 ELSE FrameEnd(k - 1))
EndsForAReason ==
    LET k == Len(rx.got) + 1
    IN  CASE rx.closed = "status" -> plan[k].status
          [] rx.closed \in {"limit", "length"} -> FrameSize(k) > MaximumData
          [] OTHER -> rx.closed \in {"open", "silent"}

(* The liveness deadline ends no connection whose next packet had arrived, *)
(* unless no buffer could hold it: a delayed task finds the reply in the   *)
(* socket first                                                            *)
AnswerBeatsDeadline ==
    rx.closed = "silent" /\ Len(rx.got) < Len(plan) =>
        FrameEnd(Len(rx.got) + 1) > due \/ FrameSize(Len(rx.got) + 1) > MaximumData
=============================================================================
