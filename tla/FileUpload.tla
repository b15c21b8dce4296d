----------------------------- MODULE FileUpload -----------------------------
(***************************************************************************)
(* Uploads of grammers-client/src/client/files.rs: workers take parts of   *)
(* one stream, under a lock that they keep while they read, and send them  *)
(* to Telegram.  The stream gives as many bytes as it likes, and may end   *)
(* before the announced size or fail.                                      *)
(***************************************************************************)
EXTENDS Integers, Sequences, FiniteSets

CONSTANTS
    Uploaders,          \* the workers: WORKER_COUNT, or one for a small file
    Announced,          \* sizes the caller may announce
    Available,          \* how many bytes the stream really has
    PartSize,           \* MAX_CHUNK_SIZE
    MaxUploadFaults     \* failed reads and requests

VARIABLES
    stream,     \* bytes the stream has, the size that was announced, the next byte to be read
    parts,      \* PartStream: who has the lock, current_part and total_parts
    worker,     \* a worker: where it is, its part and the bytes it has read
    saved,      \* Telegram: the bytes of each part it has stored
    outcome,    \* "running", "ok" or "error"
    uploadFaults

uploadVars == <<stream, parts, worker, saved, outcome, uploadFaults>>

Nobody == "nobody"
Fault == uploadFaults > 0 /\ uploadFaults' = uploadFaults - 1
TotalParts(size) == (size + PartSize - 1) \div PartSize

-----------------------------------------------------------------------------
(* next_part *)

Lock(w) ==
    /\ worker[w].pc = "next" /\ parts.lock = Nobody
    /\ IF parts.current >= parts.total
       THEN worker' = [worker EXCEPT ![w].pc = "ok"] /\ UNCHANGED parts
       ELSE /\ parts' = [parts EXCEPT !.lock = w]
            /\ worker' = [worker EXCEPT ![w].pc = "read", ![w].bytes = <<>>]
    /\ UNCHANGED <<stream, saved, outcome, uploadFaults>>
Part(w) ==
    /\ parts' = [parts EXCEPT !.lock = Nobody, !.current = @ + 1]
    /\ worker' = [worker EXCEPT ![w].pc = "send", ![w].part = parts.current]
(* read() gives some bytes, at most the rest of the part; none at the end *)
ReadSome(w) ==
    LET got == worker[w].bytes
    IN  /\ worker[w].pc = "read" /\ Len(got) < PartSize /\ stream.next <= stream.size
        /\ \E n \in 1 .. (PartSize - Len(got)) :
             /\ stream.next + n - 1 <= stream.size
             /\ worker' = [worker EXCEPT ![w].bytes = got \o [i \in 1 .. n |-> stream.next + i - 1]]
             /\ stream' = [stream EXCEPT !.next = @ + n]
        /\ UNCHANGED <<parts, saved, outcome, uploadFaults>>
FaultyReadEnd(w) ==
    /\ worker[w].pc = "read" /\ Len(worker[w].bytes) < PartSize /\ stream.next > stream.size
    /\ UNCHANGED uploadVars
ReadEnd(w) ==
    /\ worker[w].pc = "read" /\ Len(worker[w].bytes) < PartSize /\ stream.next > stream.size
    /\ IF parts.current = parts.total - 1 THEN Part(w)
       ELSE parts' = [parts EXCEPT !.lock = Nobody] /\ worker' = [worker EXCEPT ![w].pc = "error"]
    /\ UNCHANGED <<stream, saved, outcome, uploadFaults>>
ReadFails(w) ==
    /\ worker[w].pc = "read" /\ Len(worker[w].bytes) < PartSize /\ Fault
    /\ parts' = [parts EXCEPT !.lock = Nobody] /\ worker' = [worker EXCEPT ![w].pc = "error"]
    /\ UNCHANGED <<stream, saved, outcome>>
FullPart(w) ==
    /\ worker[w].pc = "read" /\ Len(worker[w].bytes) = PartSize /\ Part(w)
    /\ UNCHANGED <<stream, saved, outcome, uploadFaults>>

(* SaveFilePart: stored, refused, or lost after it was stored or not *)
Stored(w) == [saved EXCEPT ![worker[w].part] = worker[w].bytes]
Save(w) ==
    /\ worker[w].pc = "send"
    /\ saved' = Stored(w) /\ worker' = [worker EXCEPT ![w].pc = "next"]
    /\ UNCHANGED <<stream, parts, outcome, uploadFaults>>
FaultySaveFails(w) ==
    /\ worker[w].pc = "send" /\ Fault
    /\ saved' \in {saved, Stored(w)} /\ worker' = [worker EXCEPT ![w].pc = "next"]
    /\ UNCHANGED <<stream, parts, outcome>>
SaveFails(w) ==
    /\ worker[w].pc = "send" /\ Fault
    /\ saved' \in {saved, Stored(w)} /\ worker' = [worker EXCEPT ![w].pc = "error"]
    /\ UNCHANGED <<stream, parts, outcome>>

(* upload_stream awaits all workers, and the first error ends it *)
Collect ==
    /\ \/ \E w \in Uploaders : worker[w].pc = "error" /\ outcome' = "error"
       \/ (\A w \in Uploaders : worker[w].pc = "ok") /\ outcome' = "ok"
    /\ UNCHANGED <<stream, parts, worker, saved, uploadFaults>>

-----------------------------------------------------------------------------
Init ==
    /\ \E size \in Announced, n \in Available :
         /\ stream = [size |-> n, announced |-> size, next |-> 1]
         /\ parts = [lock |-> Nobody, current |-> 0, total |-> TotalParts(size)]
         /\ saved = [p \in 0 .. (TotalParts(size) - 1) |-> <<>>]
    /\ worker = [w \in Uploaders |-> [pc |-> "next", part |-> 0, bytes |-> <<>>]]
    /\ outcome = "running" /\ uploadFaults = MaxUploadFaults

Work(w) ==
    Lock(w) \/ ReadSome(w) \/ ReadEnd(w) \/ FullPart(w) \/ Save(w)
Next ==
    /\ outcome = "running"
    /\ Collect \/ \E w \in Uploaders : Work(w) \/ ReadFails(w) \/ SaveFails(w)

Spec == Init /\ [][Next]_uploadVars

-----------------------------------------------------------------------------
(* Properties *)

(* An upload takes whole parts: as many as the announced size needs, as far as the
   stream goes *)
Limit == IF stream.size < parts.total * PartSize THEN stream.size ELSE parts.total * PartSize
(* An upload that succeeds has stored every part, each full but the last, and the
   parts together are the first bytes of the stream in order; a stream that ends
   before the last part makes it fail.  Of the last part nothing is promised but
   that it holds what the stream had: see AsAnnounced. *)
StoredWhole ==
    outcome = "ok" =>
        /\ (parts.total - 1) * PartSize <= stream.size
        /\ \A p \in DOMAIN saved :
             saved[p] = [i \in 1 .. (IF Limit - p * PartSize < PartSize THEN Limit - p * PartSize ELSE PartSize)
                           |-> p * PartSize + i]

(* What upload_stream documents: when the size is less than the length of the
   stream, what is left may be read after the method returns, and when it is more,
   the method fails.  The code violates it: next_part fills its buffer whatever was
   announced, and accepts the end of the stream in the last part. *)
AsAnnounced ==
    outcome = "ok" => stream.announced <= stream.size /\ stream.next = stream.announced + 1

(* What every upload must come to: a worker that fails while it reads lets the
   others go on *)
HasEnded == outcome # "running"
=============================================================================
