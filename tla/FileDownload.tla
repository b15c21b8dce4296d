---------------------------- MODULE FileDownload ----------------------------
(***************************************************************************)
(* Downloads of grammers-client/src/client/files.rs: the parallel one,     *)
(* whose chunks share the number of the file's datacenter, and the         *)
(* iterator, which may be dropped at every await and called again.  Both   *)
(* fetch with the same recovery from a file that has moved and from a      *)
(* datacenter without authorization.  Telegram may move the file at any    *)
(* moment, and answers arrive in any order.                                *)
(***************************************************************************)
EXTENDS Integers, Sequences, FiniteSets, FiniteSetsExt

CONSTANTS
    Sizes,              \* how many bytes the file may have
    Chunk,              \* bytes of a chunk (MAX_CHUNK_SIZE)
    Workers,            \* chunks in flight at most (WORKER_COUNT)
    LastDc,             \* the file moves from datacenter 1 up to this one
    MaxRecoveries,      \* recoveries of one chunk
    MaxDownloadFaults   \* failed requests, short answers and dropped calls

VARIABLES
    mode,       \* "chunks", or "iter" with or without a known size ("blind"),
                \* or the iterator of a file that is nowhere ("lost")
    fetch,      \* by offset: fetch_download_file, where it is and what it holds
    route,      \* the shared number of the datacenter
    fileDc,     \* Telegram: where the file is, and who is authorized
    disk,       \* the file being written, and the position of its cursor
    iter,       \* DownloadIter: offset, done, its datacenter, and what it gave
    result,     \* "running", "ok" or "error"
    downloadFaults

downloadVars == <<mode, fetch, route, fileDc, disk, iter, result, downloadFaults>>

Size == Cardinality(DOMAIN disk.bytes)
Offsets == {o \in 0 .. (Size - 1) : \E i \in 0 .. o : o = i * Chunk}
Expected(o) == Min({Size - o, Chunk})
Blank == -1
Idle == [pc |-> "idle", dc |-> 0, left |-> MaxRecoveries, tried |-> {}, kind |-> "none", value |-> 0]
InFlight == {o \in Offsets : fetch[o].pc \notin {"idle", "done"}}
Fault == downloadFaults > 0 /\ downloadFaults' = downloadFaults - 1
Ends(o, r) == fetch' = [fetch EXCEPT ![o].pc = "done"] /\ result' = r

-----------------------------------------------------------------------------
(* fetch_download_file, for the chunk at offset o *)

Load(o) ==
    /\ fetch[o].pc = "load"
    /\ fetch' = [fetch EXCEPT ![o].pc = "sent", ![o].dc = route]
    /\ UNCHANGED <<mode, route, fileDc, disk, iter, result, downloadFaults>>
(* Telegram answers: a failure, or what holds when it answers; a lost file it
   sends back and forth between two datacenters *)
Answer(o) ==
    LET dc == fetch[o].dc
        to(kind, value) == fetch' = [fetch EXCEPT ![o].pc = "answered", ![o].kind = kind, ![o].value = value]
    IN  /\ fetch[o].pc = "sent"
        /\ \/ /\ mode = "lost" /\ to("migrate", 3 - dc) /\ UNCHANGED downloadFaults
           \/ /\ mode # "lost" /\ dc \notin fileDc.authorized /\ to("unauthorized", 0) /\ UNCHANGED downloadFaults
           \/ /\ mode # "lost" /\ dc \in fileDc.authorized /\ dc # fileDc.at /\ to("migrate", fileDc.at) /\ UNCHANGED downloadFaults
           \/ /\ mode # "lost" /\ dc \in fileDc.authorized /\ dc = fileDc.at /\ to("bytes", Expected(o)) /\ UNCHANGED downloadFaults
           \/ /\ Fault /\ (to("failed", 0) \/ (Expected(o) > 1 /\ to("bytes", Expected(o) - 1)))
        /\ UNCHANGED <<mode, route, fileDc, disk, iter, result>>
(* Unauthorized: nothing to do when the route has changed meanwhile; else the
   authorization is copied, once for a datacenter *)
Unauthorized(o) ==
    LET f == fetch[o]
    IN  /\ f.pc = "answered" /\ f.kind = "unauthorized"
        /\ IF f.left = 0 \/ (route = f.dc /\ f.dc \in f.tried)
           THEN Ends(o, "error")
           ELSE /\ fetch' = [fetch EXCEPT ![o] =
                       IF route # f.dc THEN [f EXCEPT !.pc = "load", !.left = @ - 1]
                       ELSE [f EXCEPT !.pc = "authorize", !.left = @ - 1, !.tried = @ \cup {f.dc}]]
                /\ UNCHANGED result
        /\ UNCHANGED <<mode, route, fileDc, disk, iter, downloadFaults>>
Authorize(o) ==
    /\ fetch[o].pc = "authorize"
    /\ \/ /\ fileDc' = [fileDc EXCEPT !.authorized = @ \cup {fetch[o].dc}]
          /\ fetch' = [fetch EXCEPT ![o].pc = "load"] /\ UNCHANGED <<result, downloadFaults>>
       \/ Fault /\ Ends(o, "error") /\ UNCHANGED fileDc
    /\ UNCHANGED <<mode, route, disk, iter>>
(* Migrated: an answer from an earlier route changes nothing *)
FaultyRerouted(dc, to) == to
Rerouted(dc, to) == IF route = dc THEN to ELSE route
FaultyMayGoOn(f) == TRUE
MayGoOn(f) == f.left > 0
Migrated(o) ==
    LET f == fetch[o]
    IN  /\ f.pc = "answered" /\ f.kind = "migrate"
        /\ IF MayGoOn(f)
           THEN /\ route' = Rerouted(f.dc, f.value)
                /\ IF route = f.dc /\ f.value = f.dc THEN Ends(o, "error")
                   ELSE fetch' = [fetch EXCEPT ![o].pc = "load", ![o].left = IF @ > 0 THEN @ - 1 ELSE 0] /\ UNCHANGED result
           ELSE Ends(o, "error") /\ UNCHANGED route
        /\ UNCHANGED <<mode, fileDc, disk, iter, downloadFaults>>
Failed(o) ==
    /\ fetch[o].pc = "answered" /\ fetch[o].kind = "failed"
    /\ Ends(o, "error")
    /\ UNCHANGED <<mode, route, fileDc, disk, iter, downloadFaults>>

-----------------------------------------------------------------------------
(* download_chunks: a window of chunks, written where they belong *)

Started(f) == IF \E o \in Offsets : f[o].pc = "idle"
              THEN [f EXCEPT ![Min({o \in Offsets : f[o].pc = "idle"})].pc = "load"] ELSE f
FaultyCursorAfter(o, n) == disk.position
CursorAfter(o, n) == o + n
(* The cursor the code remembers and the one the file has: a seek only when they
   would differ *)
Write(o) ==
    LET n == fetch[o].value
        at == IF disk.position = o THEN disk.cursor ELSE o
    IN  /\ mode = "chunks" /\ result = "running"
        /\ fetch[o].pc = "answered" /\ fetch[o].kind = "bytes"
        /\ IF n # Expected(o)
           THEN Ends(o, "error") /\ UNCHANGED disk
           ELSE /\ disk' = [bytes |-> [b \in DOMAIN disk.bytes |->
                                         IF b \in at .. (at + n - 1) THEN o + (b - at) ELSE disk.bytes[b]],
                            cursor |-> at + n, position |-> CursorAfter(o, n)]
                /\ fetch' = Started([fetch EXCEPT ![o].pc = "done"])
                /\ UNCHANGED result
        /\ UNCHANGED <<mode, route, fileDc, iter, downloadFaults>>
(* The disk fails *)
WriteFails(o) ==
    /\ mode = "chunks" /\ result = "running" /\ Fault
    /\ fetch[o].pc = "answered" /\ fetch[o].kind = "bytes" /\ Ends(o, "error")
    /\ UNCHANGED <<mode, route, fileDc, disk, iter>>
FlushFails ==
    /\ mode = "chunks" /\ result = "running" /\ InFlight = {} /\ Fault /\ result' = "error"
    /\ UNCHANGED <<mode, fetch, route, fileDc, disk, iter>>
Flush ==
    /\ mode = "chunks" /\ result = "running" /\ InFlight = {}
    /\ result' = "ok"
    /\ UNCHANGED <<mode, fetch, route, fileDc, disk, iter, downloadFaults>>

-----------------------------------------------------------------------------
(* DownloadIter::next *)

KnowsSize == mode = "iter"
CallNext ==
    /\ mode # "chunks" /\ result = "running" /\ ~iter.done /\ InFlight = {}
    /\ iter.offset < Size
    /\ route' = iter.dc
    /\ fetch' = [fetch EXCEPT ![iter.offset] = [Idle EXCEPT !.pc = "load"]]
    /\ UNCHANGED <<mode, fileDc, disk, iter, result, downloadFaults>>
(* Past the last byte Telegram answers with none.  The call, in one step: it may
   follow the file, and fail or be dropped on the way *)
CallPastEnd ==
    /\ mode # "chunks" /\ result = "running" /\ ~iter.done /\ InFlight = {}
    /\ iter.offset >= Size
    /\ \E dc \in iter.dc .. fileDc.at :
         /\ fileDc' = [fileDc EXCEPT !.authorized = @ \cup {dc}]
         /\ \/ dc = fileDc.at /\ iter' = [iter EXCEPT !.dc = dc, !.done = TRUE] /\ UNCHANGED downloadFaults
            \/ Fault /\ iter' = [iter EXCEPT !.dc = dc]
    /\ UNCHANGED <<mode, fetch, route, disk, result>>
IsLast(n) == n < Chunk \/ (KnowsSize /\ iter.offset + n >= Size)
Give ==
    LET o == iter.offset
        n == fetch[o].value
    IN  /\ mode # "chunks" /\ InFlight # {}
        /\ fetch[o].pc = "answered" /\ fetch[o].kind = "bytes"
        /\ iter' = [iter EXCEPT !.dc = route, !.done = IsLast(n), !.out = Append(@, <<o, n>>), !.offset = @ + Chunk]
        /\ fetch' = [fetch EXCEPT ![o] = Idle]
        /\ UNCHANGED <<mode, route, fileDc, disk, result, downloadFaults>>
(* An error is returned to the caller, who may call again; a call may be dropped *)
FaultyAfterError == [iter EXCEPT !.dc = route, !.done = TRUE]
AfterError == [iter EXCEPT !.dc = route]
NextFails ==
    /\ mode # "chunks" /\ result = "error"
    /\ iter' = AfterError /\ result' = "running" /\ fetch' = [o \in Offsets |-> Idle]
    /\ UNCHANGED <<mode, route, fileDc, disk, downloadFaults>>
Drop ==
    /\ mode # "chunks" /\ InFlight # {} /\ Fault
    /\ fetch' = [o \in Offsets |-> Idle]
    /\ UNCHANGED <<mode, route, fileDc, disk, iter, result>>

-----------------------------------------------------------------------------
(* Telegram *)

MoveFile ==
    /\ mode # "lost" /\ fileDc.at < LastDc /\ fileDc' = [fileDc EXCEPT !.at = @ + 1]
    /\ UNCHANGED <<mode, fetch, route, disk, iter, result, downloadFaults>>

-----------------------------------------------------------------------------
FirstChunks == {o \in Offsets : o < Workers * Chunk}
Init ==
    /\ \E n \in Sizes : disk = [bytes |-> [b \in 0 .. (n - 1) |-> Blank], cursor |-> 0, position |-> 0]
    /\ mode \in {"chunks", "iter", "blind", "lost"}
    /\ fetch = [o \in Offsets |-> IF mode = "chunks" /\ o \in FirstChunks THEN [Idle EXCEPT !.pc = "load"] ELSE Idle]
    /\ route = 1 /\ fileDc = [at |-> 1, authorized |-> {1}]
    /\ iter = [offset |-> 0, done |-> FALSE, dc |-> 1, out |-> <<>>]
    /\ result = "running" /\ downloadFaults = MaxDownloadFaults

(* A result drops what is in flight *)
Step(o) ==
    /\ result = "running"
    /\ Load(o) \/ Answer(o) \/ Unauthorized(o) \/ Authorize(o) \/ Migrated(o) \/ Failed(o)
Chunked(o) == o \in Offsets /\ (Step(o) \/ Write(o) \/ WriteFails(o))
Caller == Flush \/ CallNext \/ CallPastEnd \/ Give \/ NextFails
Next == (\E o \in Offsets : Chunked(o)) \/ Caller \/ FlushFails \/ Drop \/ MoveFile

Spec == Init /\ [][Next]_downloadVars

-----------------------------------------------------------------------------
(* Properties *)

(* A parallel download that succeeds has every byte of the file at its place, in
   whichever order chunks arrived *)
WrittenWhole == mode = "chunks" /\ result = "ok" => \A b \in DOMAIN disk.bytes : disk.bytes[b] = b

(* The file only moves on, so the shared datacenter never goes back: an answer
   that is late does not undo what another chunk has learned *)
RouteMovesOn == mode = "chunks" => route' >= route

(* An iterator that has ended gave the chunks in order and without a gap, and all
   of them unless Telegram cut one short; errors and dropped calls are no end *)
GivenInOrder ==
    /\ \A i \in DOMAIN iter.out : iter.out[i][1] = (i - 1) * Chunk
    /\ iter.done /\ (\A i \in DOMAIN iter.out : iter.out[i][2] = Expected(iter.out[i][1])) =>
         Len(iter.out) = Cardinality(Offsets)

(* What every download and every iterator must come to, although the file moves,
   authorizations are missing and Telegram contradicts itself: recoveries are
   bounded *)
HasEnded == result # "running" \/ iter.done
=============================================================================
