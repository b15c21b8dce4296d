---------------------------- MODULE ProxyStream ----------------------------
(***************************************************************************)
(* A connection through a proxy: the HTTP CONNECT exchange of              *)
(* grammers-mtsender/src/net/http_connect.rs, the records of FakeTlsStream *)
(* in net/mtproxy.rs, and FlushWriter of net/tls_proxy.rs below            *)
(* Sender::step, whose select! drops a read or a write at any point where  *)
(* it waits and calls it again later with the same bytes.  Positions that  *)
(* survive such a drop are the state; each action is one poll.             *)
(***************************************************************************)
EXTENDS Integers, Sequences, FiniteSets, SequencesExt

CONSTANTS
    Kinds,          \* of "http", "tls" (an https proxy) and "faketls"
    Replies,        \* what an HTTP proxy answers: sequences of [size, code]
    MaxHeader,      \* MAX_HEADER_BYTES
    MaxInformational,
    Tunnel,         \* cells that follow, from the other side
    Records,        \* sizes of the records they come in
    Writes,         \* sizes of the packets that are written
    RecordMax       \* TLS_RECORD_MAX

VARIABLES
    proxy,      \* the kind of stream, and what the proxy answers
    tunnel,     \* "connecting", "open", or why it ended
    reply,      \* the CONNECT exchange: responses read, cells of this one, budget left
    taken,      \* cells of the inbound wire that were read
    rxHead,     \* rx_at: cells of a record's header
    rxLeft,     \* rx_left
    given,      \* cells given to the sender
    out,        \* the sender's write_buffer and write_head: packet number, cells written
    tx,         \* tx_at, tx_len, tx_left and first
    pending,    \* FlushWriter's pending, or None
    outer,      \* what the inner stream holds until it is flushed
    wire        \* what the other side receives

proxyVars == <<proxy, tunnel, reply, taken, rxHead, rxLeft, given, out, tx, pending, outer, wire>>

None == -1
HeadCells == 2
Least(S) == CHOOSE m \in S : \A n \in S : m <= n

-----------------------------------------------------------------------------

(* The inbound wire: responses that end in a blank line, then the tunnel,  *)
(* which for fake TLS comes in records                                     *)
Response(r) == [i \in 1..r.size |-> [part |-> IF i = r.size THEN "end" ELSE "line", value |-> r.code]]
Body(from, n) == [i \in 1..n |-> [part |-> "body", value |-> from + i]]
Concat(s) == FoldLeft(LAMBDA a, b : a \o b, <<>>, s)
RecordAt(k) == Body(FoldLeft(LAMBDA a, b : a + b, 0, SubSeq(Records, 1, k - 1)), Records[k])
Inbound ==
    IF proxy.kind = "faketls"
    THEN Concat([k \in DOMAIN Records |->
                   [i \in 1..HeadCells |-> [part |-> "head", value |-> Records[k]]] \o RecordAt(k)])
    ELSE Concat([k \in DOMAIN proxy.replies |-> Response(proxy.replies[k])]) \o Body(0, Tunnel)
Left == Len(Inbound) - taken

(* read_header: what can be seen is appended to the header, up to the      *)
(* blank line, and just that is consumed.  A 1xx answer is followed by     *)
(* another; 2xx opens the tunnel.                                          *)
Answered(code) ==
    CASE code \in 200..299 -> "open"
      [] code \in 100..199 /\ code # 101 ->
           IF reply.read >= MaxInformational THEN "refused" ELSE "connecting"
      [] OTHER -> "refused"
FaultyConsumed(seen) == Len(seen)
Consumed(seen) ==
    Least({Len(seen)} \cup {i \in DOMAIN seen : seen[i].part = "end"})
ReadHeader ==
    /\ tunnel = "connecting"
    /\ \/ /\ reply.size = reply.left
          /\ tunnel' = "oversized"
          /\ UNCHANGED <<reply, taken>>
       \/ \E n \in 1..Least({Left, reply.left - reply.size}) :
            LET seen == SubSeq(Inbound, taken + 1, taken + n)
                count == Consumed(seen)
                done == \E i \in 1..count : seen[i].part = "end"
            IN  /\ taken' = taken + count
                /\ reply' = IF done THEN [read |-> reply.read + 1, size |-> 0, left |-> reply.left - reply.size - count]
                            ELSE [reply EXCEPT !.size = @ + count]
                /\ tunnel' = IF done THEN Answered(seen[count].value) ELSE "connecting"
    /\ UNCHANGED <<proxy, rxHead, rxLeft, given, out, tx, pending, outer, wire>>

(* A poll of the read half, with room for some cells.  A record's header   *)
(* may come in part, and what was read of it is kept.                      *)
ReadHead ==
    /\ tunnel = "open" /\ proxy.kind = "faketls" /\ rxLeft = 0
    /\ \E n \in 1..Least({HeadCells - rxHead, Left}) :
         /\ taken' = taken + n
         /\ rxHead' = IF rxHead + n < HeadCells THEN rxHead + n ELSE 0
         /\ rxLeft' = IF rxHead + n < HeadCells THEN 0
                      ELSE IF Inbound[taken + n].part = "head" THEN Inbound[taken + n].value ELSE None
         /\ tunnel' = IF rxLeft' = None THEN "malformed" ELSE "open"
    /\ UNCHANGED <<proxy, reply, given, out, tx, pending, outer, wire>>
Limit(room) == IF proxy.kind = "faketls" THEN Least({room, rxLeft}) ELSE room
ReadBody ==
    /\ tunnel = "open" /\ (proxy.kind = "faketls" => rxLeft > 0)
    /\ \E room \in 1..Tunnel : \E n \in 1..Least({Limit(room), Left}) :
         /\ taken' = taken + n
         /\ given' = given \o [i \in 1..n |-> Inbound[taken + i].value]
         /\ rxLeft' = IF proxy.kind = "faketls" THEN rxLeft - n ELSE 0
    /\ UNCHANGED <<proxy, tunnel, reply, rxHead, out, tx, pending, outer, wire>>

-----------------------------------------------------------------------------

(* The sender's packets, one in the write buffer at a time.  Cells are     *)
(* numbered through all packets.                                           *)
Before(k) == FoldLeft(LAMBDA a, b : a + b, 0, SubSeq(Writes, 1, k - 1))
Unwritten == Writes[out.packet] - out.head
Rest == [i \in 1..Unwritten |-> Before(out.packet) + out.head + i]
(* on_net_write *)
Advance(n) == IF n = Unwritten THEN [packet |-> out.packet + 1, head |-> 0] ELSE [out EXCEPT !.head = @ + n]

(* The inner stream takes cells.  A socket passes them on at once; TLS     *)
(* keeps them until it is flushed.                                         *)
Pass(cells) ==
    IF proxy.kind = "tls" THEN outer' = outer \o cells /\ UNCHANGED wire
                          ELSE wire' = wire \o cells /\ UNCHANGED outer
Item(n) == [part |-> "body", value |-> n]

(* FakeTlsStream::poll_write opens a record for what it is given, writes   *)
(* the rest of its header, and then as much of the record as is taken      *)
Opened ==
    IF tx.left # 0 THEN tx
    ELSE [left |-> Least({Unwritten, RecordMax}), at |-> 0,
          len |-> HeadCells + (IF tx.first THEN 1 ELSE 0), first |-> FALSE]
HeadItems(t, n) ==
    [i \in 1..n |-> IF t.len > HeadCells /\ t.at + i = 1 THEN [part |-> "ccs", value |-> 0]
                    ELSE [part |-> "head", value |-> t.left]]
Writing == tunnel = "open" /\ out.packet <= Len(Writes) /\ pending = None
WriteHead ==
    /\ Writing /\ proxy.kind = "faketls"
    /\ LET t == Opened
       IN  /\ t.at < t.len
           /\ \E n \in 1..(t.len - t.at) :
                /\ wire' = wire \o HeadItems(t, n)
                /\ tx' = [t EXCEPT !.at = @ + n]
    /\ UNCHANGED <<proxy, tunnel, reply, taken, rxHead, rxLeft, given, out, pending, outer>>
FaultyFlushes == FALSE
Flushes == proxy.kind # "http"
WriteBody ==
    /\ Writing
    /\ proxy.kind = "faketls" => tx.left > 0 /\ tx.at = tx.len
    /\ \E n \in 1..(IF proxy.kind = "faketls" THEN Least({Unwritten, tx.left}) ELSE Unwritten) :
         /\ Pass([i \in 1..n |-> Item(Rest[i])])
         /\ tx' = IF proxy.kind = "faketls" THEN [tx EXCEPT !.left = @ - n] ELSE tx
         /\ IF Flushes THEN pending' = n /\ UNCHANGED out
                       ELSE out' = Advance(n) /\ UNCHANGED pending
    /\ UNCHANGED <<proxy, tunnel, reply, taken, rxHead, rxLeft, given>>

(* FlushWriter: the accepted count is kept while the flush waits, and      *)
(* on_net_write hears of it afterwards                                     *)
Flush ==
    /\ pending # None
    /\ wire' = wire \o outer
    /\ outer' = <<>>
    /\ out' = Advance(pending)
    /\ pending' = None
    /\ UNCHANGED <<proxy, tunnel, reply, taken, rxHead, rxLeft, given, tx>>
(* The flush waits, and the write is dropped by the select! *)
FaultyKept == None
Kept == pending
FlushWaits ==
    /\ pending # None
    /\ \E n \in 0..Len(outer) : wire' = wire \o SubSeq(outer, 1, n) /\ outer' = SubSeq(outer, n + 1, Len(outer))
    /\ pending' = Kept
    /\ UNCHANGED <<proxy, tunnel, reply, taken, rxHead, rxLeft, given, out, tx>>

-----------------------------------------------------------------------------

Init ==
    /\ proxy \in [kind : Kinds \cap {"faketls"}, replies : {<<>>}]
                  \cup [kind : Kinds \ {"faketls"}, replies : Replies]
    /\ tunnel = IF proxy.kind = "faketls" THEN "open" ELSE "connecting"
    /\ reply = [read |-> 0, size |-> 0, left |-> MaxHeader]
    /\ taken = 0 /\ rxHead = 0 /\ rxLeft = 0
    /\ given = <<>>
    /\ out = [packet |-> 1, head |-> 0]
    /\ tx = [left |-> 0, at |-> 0, len |-> 0, first |-> TRUE]
    /\ pending = None
    /\ outer = <<>> /\ wire = <<>>

Next == ReadHeader \/ ReadHead \/ ReadBody \/ WriteHead \/ WriteBody \/ Flush \/ FlushWaits
Spec == Init /\ [][Next]_proxyVars

-----------------------------------------------------------------------------

(* The sender reads the tunnel's bytes and nothing else, from the first    *)
(* one: no byte behind a CONNECT response or a record's header is lost     *)
TunnelIntact == \A i \in DOMAIN given : given[i] = i

(* The other side can read the records, and they hold the sender's bytes   *)
(* once and in order, whatever was dropped between two polls               *)
Bodies == SelectSeq(wire \o outer, LAMBDA c : c.part = "body")
RecordsHold ==
    \A i \in DOMAIN wire : wire[i].part = "head" /\ (i = 1 \/ wire[i - 1].part # "head") =>
        \A j \in (i + 1)..Least({Len(wire), i + 1 + wire[i].value}) :
            wire[j].part = IF j < i + HeadCells THEN "head" ELSE "body"
WrittenOnce == RecordsHold /\ \A i \in DOMAIN Bodies : Bodies[i].value = i

(* A packet counts as sent only when its last byte left this process *)
SentIsFlushed == Before(out.packet) + out.head <= Cardinality({i \in DOMAIN wire : wire[i].part = "body"})
=============================================================================
