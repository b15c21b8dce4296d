--------------------------- MODULE TransferProofs ---------------------------
(***************************************************************************)
(* Proofs about transfers: uploads (FileUpload), the parallel download and *)
(* the iterator (FileDownload), and sending (SentMessages); and of         *)
(* TransfersIntact and SentIsReturned, which Client states of them.        *)
(***************************************************************************)
EXTENDS Client, FiniteSets, FiniteSetTheorems, FunctionTheorems, SequenceTheorems, TLAPS

-----------------------------------------------------------------------------
(* FileUpload *)

UploadSteps == {"next", "read", "send", "ok", "error"}
WorkerRecords == [pc : UploadSteps, part : Nat, bytes : Seq(Nat)]
UploadTypes ==
    /\ stream \in [size : Nat, announced : Nat, next : Nat \ {0}]
    /\ parts \in [lock : Uploaders \cup {Upload!Nobody}, current : Nat, total : Int]
    /\ worker \in [Uploaders -> WorkerRecords]
    /\ saved \in [0 .. (parts.total - 1) -> Seq(Nat)]

(* The bytes of the stream from a position on, and those that belong to a part *)
Slice(from, n) == [i \in 1 .. n |-> from + i]
PartLength(limit, p) == IF limit - p * PartSize < PartSize THEN limit - p * PartSize ELSE PartSize
Whole(limit, p) == Slice(p * PartSize, PartLength(limit, p))

(* The lock is held by the worker that reads *)
ReaderHasLock == \A w \in Uploaders : worker[w].pc = "read" <=> parts.lock = w

(* As long as no worker has failed: the stream stands where the next part begins, or the
   reading worker has what lies between *)
Clean == \A w \in Uploaders : worker[w].pc # "error"
StreamInStep ==
    /\ stream.next <= stream.size + 1
    /\ parts.lock = Upload!Nobody /\ parts.current < parts.total =>
         stream.next = parts.current * PartSize + 1
    /\ \A w \in Uploaders : worker[w].pc = "read" =>
         /\ parts.current < parts.total
         /\ worker[w].bytes = Slice(parts.current * PartSize, Len(worker[w].bytes))
         /\ Len(worker[w].bytes) <= PartSize
         /\ stream.next = parts.current * PartSize + Len(worker[w].bytes) + 1

(* The stream had enough for all parts before the last one that was read *)
EnoughRead == parts.current > 0 => (parts.current - 1) * PartSize <= stream.size

(* A part that was read is on its way or stored, as a whole *)
PartsWhole ==
    /\ \A w \in Uploaders : worker[w].pc = "send" =>
         /\ worker[w].part < parts.current /\ worker[w].part \in DOMAIN saved
         /\ worker[w].bytes = Whole(Upload!Limit, worker[w].part)
    /\ \A p \in DOMAIN saved : p < parts.current =>
         \/ saved[p] = Whole(Upload!Limit, p)
         \/ \E w \in Uploaders : worker[w].pc = "send" /\ worker[w].part = p

(* A worker is done when there is no part left, and the upload when all workers are *)
EndsWhenDone ==
    /\ \A w \in Uploaders : worker[w].pc = "ok" => parts.current >= parts.total
    /\ outcome = "ok" => \A w \in Uploaders : worker[w].pc = "ok"

UploadInv ==
    /\ UploadTypes /\ ReaderHasLock /\ EndsWhenDone
    /\ Clean => StreamInStep /\ PartsWhole /\ EnoughRead

LEMMA UploadBegins == Upload!Init => UploadInv
<1> SUFFICES ASSUME Upload!Init PROVE UploadInv
  OBVIOUS
<1>1. PICK size \in Announced, n \in Available :
        /\ stream = [size |-> n, announced |-> size, next |-> 1]
        /\ parts = [lock |-> Upload!Nobody, current |-> 0, total |-> Upload!TotalParts(size)]
        /\ saved = [p \in 0 .. (Upload!TotalParts(size) - 1) |-> <<>>]
  BY DEF Upload!Init
<1>2. Upload!TotalParts(size) \in Int
  BY TransfersAssumption DEF Upload!TotalParts
<1>3. PICK total \in Int : total = Upload!TotalParts(size)
  BY <1>2
<1>4. worker = [w \in Uploaders |-> [pc |-> "next", part |-> 0, bytes |-> <<>>]] /\ outcome = "running"
  BY DEF Upload!Init
<1>5. \A w \in Uploaders : worker[w].pc = "next"
  BY <1>4
<1>6. UploadTypes
  <2>1. <<>> \in Seq(Nat)
    OBVIOUS
  <2>2. worker \in [Uploaders -> WorkerRecords]
    BY <1>4, <2>1 DEF UploadSteps, WorkerRecords
  <2>3. n \in Nat /\ size \in Nat
    BY TransfersAssumption
  <2> QED BY <1>1, <1>3, <2>1, <2>2, <2>3 DEF UploadTypes
<1>7. ReaderHasLock /\ EndsWhenDone
  BY <1>1, <1>4, <1>5, TransfersAssumption DEF ReaderHasLock, EndsWhenDone
<1>8. StreamInStep /\ PartsWhole /\ EnoughRead
  <2>1. n \in Nat /\ 0 * PartSize = 0
    BY TransfersAssumption
  <2> QED BY <1>1, <1>3, <1>5, <2>1 DEF StreamInStep, PartsWhole, EnoughRead
<1> QED BY <1>6, <1>7, <1>8 DEF UploadInv

(* What a worker's record is after a step of it *)
LEMMA WorkerIs ==
    ASSUME UploadInv, NEW w \in Uploaders
    PROVE  /\ worker[w] \in WorkerRecords
           /\ worker[w].part \in Nat /\ worker[w].bytes \in Seq(Nat) /\ Len(worker[w].bytes) \in Nat
           /\ stream.size \in Nat /\ stream.next \in Nat \ {0}
           /\ parts.current \in Nat /\ parts.total \in Int /\ parts.lock \in Uploaders \cup {Upload!Nobody}
           /\ parts = [lock |-> parts.lock, current |-> parts.current, total |-> parts.total]
           /\ PartSize \in Nat \ {0} /\ Upload!Nobody \notin Uploaders
BY TransfersAssumption DEF UploadInv, UploadTypes, WorkerRecords

(* A step of worker w, after which it is at pc with part p and bytes b *)
Moves(w, pc, p, b) ==
    /\ worker' \in [Uploaders -> WorkerRecords]
    /\ worker'[w].pc = pc /\ worker'[w].part = p /\ worker'[w].bytes = b
    /\ \A x \in Uploaders \ {w} : worker'[x] = worker[x]
LEMMA MovesTo ==
    ASSUME UploadInv, NEW w \in Uploaders, NEW pc \in UploadSteps,
           worker' = [worker EXCEPT ![w].pc = pc]
    PROVE  Moves(w, pc, worker[w].part, worker[w].bytes)
BY DEF UploadInv, UploadTypes, WorkerRecords, Moves
LEMMA MovesWithBytes ==
    ASSUME UploadInv, NEW w \in Uploaders, NEW pc \in UploadSteps, NEW b \in Seq(Nat),
           worker' = [worker EXCEPT ![w].pc = pc, ![w].bytes = b]
    PROVE  Moves(w, pc, worker[w].part, b)
BY DEF UploadInv, UploadTypes, WorkerRecords, Moves
LEMMA MovesWithPart ==
    ASSUME UploadInv, NEW w \in Uploaders, NEW pc \in UploadSteps, NEW p \in Nat,
           worker' = [worker EXCEPT ![w].pc = pc, ![w].part = p]
    PROVE  Moves(w, pc, p, worker[w].bytes)
BY DEF UploadInv, UploadTypes, WorkerRecords, Moves
LEMMA MovesOn ==
    ASSUME UploadInv, NEW w \in Uploaders, NEW b \in Seq(Nat),
           worker' = [worker EXCEPT ![w].bytes = b]
    PROVE  Moves(w, worker[w].pc, worker[w].part, b)
BY DEF UploadInv, UploadTypes, WorkerRecords, Moves

LEMMA NoBytes == \E b \in Seq(Nat) : b = <<>>
<1>1. <<>> \in Seq(Nat)
  OBVIOUS
<1> QED BY <1>1, Zenon
(* How much is uploaded does not change *)
LEMMA LimitStays ==
    ASSUME stream'.size = stream.size, parts'.total = parts.total
    PROVE  Upload!Limit' = Upload!Limit
BY DEF Upload!Limit
LEMMA EnoughStays ==
    ASSUME stream'.size = stream.size, parts'.current = parts.current
    PROVE  EnoughRead => EnoughRead'
BY DEF EnoughRead

LEMMA UploadLock ==
    ASSUME UploadInv, outcome = "running", NEW w \in Uploaders, Upload!Lock(w)
    PROVE  UploadInv'
<1>0. /\ worker[w].pc = "next" /\ parts.lock = Upload!Nobody
      /\ UNCHANGED <<stream, saved, outcome>>
  BY DEF Upload!Lock
<1>1. CASE parts.current >= parts.total
  <2>1. UNCHANGED parts /\ worker' = [worker EXCEPT ![w].pc = "ok"]
    BY <1>1 DEF Upload!Lock
  <2>2. "ok" \in UploadSteps
    BY DEF UploadSteps
  <2>3. Moves(w, "ok", worker[w].part, worker[w].bytes)
    BY <2>1, <2>2, MovesTo, Zenon
  <2>5. UploadTypes' /\ ReaderHasLock' /\ EndsWhenDone'
    BY <1>0, <1>1, <2>1, <2>3, WorkerIs DEF Moves, UploadInv, UploadTypes, ReaderHasLock, EndsWhenDone
  <2>6. Clean' => Clean
    BY <1>0, <2>3 DEF Clean, Moves
  <2>7. StreamInStep => StreamInStep'
    BY <1>0, <2>1, <2>3 DEF StreamInStep, Moves
  <2>8. PartsWhole => PartsWhole'
    BY <1>0, <2>1, <2>3, LimitStays DEF PartsWhole, Moves
  <2>9. EnoughRead => EnoughRead'
    BY <1>0, <2>1, EnoughStays
  <2> QED BY <2>5, <2>6, <2>7, <2>8, <2>9 DEF UploadInv
<1>2. CASE ~(parts.current >= parts.total)
  <2>1. /\ parts' = [parts EXCEPT !.lock = w]
        /\ worker' = [worker EXCEPT ![w].pc = "read", ![w].bytes = <<>>]
    BY <1>2 DEF Upload!Lock
  <2>2. PICK b \in Seq(Nat) : b = <<>>
    BY NoBytes, Zenon
  <2>3. Moves(w, "read", worker[w].part, b)
    <3>1. "read" \in UploadSteps
      BY DEF UploadSteps
    <3>2. worker' = [worker EXCEPT ![w].pc = "read", ![w].bytes = b]
      BY <2>1, <2>2, Zenon
    <3> QED BY <3>1, <3>2, MovesWithBytes, Zenon
  <2>4. /\ parts' \in [lock : Uploaders \cup {Upload!Nobody}, current : Nat, total : Int]
        /\ parts'.lock = w /\ parts'.current = parts.current /\ parts'.total = parts.total
    BY <2>1 DEF UploadInv, UploadTypes
  <2>5. UploadTypes' /\ ReaderHasLock' /\ EndsWhenDone'
    <3>1. UploadTypes'
      BY <1>0, <2>3, <2>4 DEF Moves, UploadInv, UploadTypes
    <3>2. ReaderHasLock'
      BY <1>0, <2>3, <2>4, WorkerIs DEF Moves, UploadInv, ReaderHasLock
    <3>3. EndsWhenDone'
      BY <1>0, <2>3, <2>4 DEF Moves, UploadInv, EndsWhenDone
    <3> QED BY <3>1, <3>2, <3>3
  <2>6. Clean' => Clean
    BY <1>0, <2>3 DEF Clean, Moves
  <2>7. StreamInStep => StreamInStep'
    <3>1. Len(b) = 0 /\ b = Slice(parts.current * PartSize, 0)
      BY <2>2 DEF Slice
    <3>2. parts.current < parts.total
      BY <1>2, WorkerIs
    <3>3. parts.current * PartSize \in Nat
      BY WorkerIs
    <3> QED BY <1>0, <2>3, <2>4, <3>1, <3>2, <3>3, WorkerIs, SMTT(30) DEF StreamInStep, Moves, UploadInv, ReaderHasLock
  <2>8. PartsWhole => PartsWhole'
    BY <1>0, <2>3, <2>4, LimitStays DEF PartsWhole, Moves
  <2>9. EnoughRead => EnoughRead'
    BY <1>0, <2>4, EnoughStays
  <2> QED BY <2>5, <2>6, <2>7, <2>8, <2>9 DEF UploadInv
<1> QED BY <1>1, <1>2

(* A worker fails: nothing is promised any more but the types *)
LEMMA UploadFails ==
    ASSUME UploadInv, outcome = "running", NEW w \in Uploaders,
           worker' = [worker EXCEPT ![w].pc = "error"],
           worker[w].pc \in {"read", "send"},
           parts' = IF worker[w].pc = "read" THEN [parts EXCEPT !.lock = Upload!Nobody] ELSE parts,
           saved' \in [0 .. (parts.total - 1) -> Seq(Nat)], UNCHANGED <<stream, outcome>>
    PROVE  UploadInv'
<1>1. Moves(w, "error", worker[w].part, worker[w].bytes)
  <2>1. "error" \in UploadSteps
    BY DEF UploadSteps
  <2> QED BY <2>1, MovesTo, Zenon
<1>2. /\ parts' \in [lock : Uploaders \cup {Upload!Nobody}, current : Nat, total : Int]
      /\ parts'.lock = IF worker[w].pc = "read" THEN Upload!Nobody ELSE parts.lock
      /\ parts'.current = parts.current /\ parts'.total = parts.total
  BY DEF UploadInv, UploadTypes
<1>3. UploadTypes' /\ ReaderHasLock' /\ EndsWhenDone'
  BY <1>1, <1>2, WorkerIs DEF Moves, UploadInv, UploadTypes, ReaderHasLock, EndsWhenDone
<1>4. ~Clean'
  BY <1>1 DEF Moves, Clean
<1> QED BY <1>3, <1>4 DEF UploadInv

(* The bytes that come next *)
Run(k, n) == [i \in 1 .. n |-> k + i - 1]
Followed(s, k, n) == s \o Run(k, n)

(* More bytes behind those of a slice *)
LEMMA SliceGrows ==
    ASSUME NEW from \in Nat, NEW n \in Nat, NEW m \in Nat, NEW k \in Nat, k = from + n + 1
    PROVE  Followed(Slice(from, n), k, m) = Slice(from, n + m)
<1> DEFINE s == Slice(from, n)
           t == Run(k, m)
<1>1. s \in Seq(Nat) /\ Len(s) = n /\ \A i \in 1 .. n : s[i] = from + i
  BY DEF Slice
<1>2. t \in Seq(Nat) /\ Len(t) = m /\ \A i \in 1 .. m : t[i] = from + n + i
  BY DEF Run
<1> HIDE DEF s, t
<1>3. /\ s \o t \in Seq(Nat) /\ Len(s \o t) = n + m
      /\ \A i \in 1 .. (n + m) : (s \o t)[i] = IF i <= n THEN s[i] ELSE t[i - n]
  BY <1>1, <1>2, ConcatProperties
<1>4. \A i \in 1 .. (n + m) : (s \o t)[i] = from + i
  BY <1>1, <1>2, <1>3
<1>5. PICK u \in Seq(Nat) : u = Slice(from, n + m) /\ Len(u) = n + m /\ \A i \in 1 .. (n + m) : u[i] = from + i
  <2>1. PICK k2 \in Nat : k2 = n + m
    OBVIOUS
  <2>2. /\ Slice(from, k2) \in Seq(Nat) /\ Len(Slice(from, k2)) = k2
        /\ \A i \in 1 .. k2 : Slice(from, k2)[i] = from + i
    BY DEF Slice
  <2> QED BY <2>1, <2>2, Zenon
<1>6. s \o t = u
  BY <1>3, <1>4, <1>5, SeqEqual
<1> QED BY <1>5, <1>6 DEF s, t, Followed

(* What is read next are the bytes that come next *)
LEMMA RunIs ==
    ASSUME NEW n \in Nat, NEW k \in Nat \ {0}
    PROVE  /\ Run(k, n) \in Seq(Nat)
           /\ Len(Run(k, n)) = n
BY DEF Run

ReadsSome(w, n) ==
    /\ stream.next + n - 1 <= stream.size
    /\ worker' = [worker EXCEPT ![w].bytes = worker[w].bytes \o Run(stream.next, n)]
    /\ stream' = [stream EXCEPT !.next = @ + n]
LEMMA UploadReadSome ==
    ASSUME UploadInv, outcome = "running", NEW w \in Uploaders, Upload!ReadSome(w)
    PROVE  UploadInv'
<1>0. /\ worker[w].pc = "read" /\ Len(worker[w].bytes) < PartSize /\ stream.next <= stream.size
      /\ UNCHANGED <<parts, saved, outcome>>
  BY DEF Upload!ReadSome
<1>1. PICK n \in Nat : n > 0 /\ Len(worker[w].bytes) + n <= PartSize /\ ReadsSome(w, n)
  <2>1. \E n \in 1 .. (PartSize - Len(worker[w].bytes)) : ReadsSome(w, n)
    BY Zenon DEF Upload!ReadSome, Run, ReadsSome
  <2>2. \A n \in 1 .. (PartSize - Len(worker[w].bytes)) : n \in Nat /\ n > 0 /\ Len(worker[w].bytes) + n <= PartSize
    BY WorkerIs
  <2> QED BY <2>1, <2>2, Zenon
<1>2. PICK more \in Seq(Nat) : more = Run(stream.next, n) /\ Len(more) = n
  <2>1. stream.next \in Nat \ {0}
    BY WorkerIs
  <2>2. Run(stream.next, n) \in Seq(Nat) /\ Len(Run(stream.next, n)) = n
    BY <2>1, WorkerIs, RunIs, Zenon
  <2> QED BY <2>2, Zenon
<1>3. PICK b \in Seq(Nat) : b = worker[w].bytes \o more /\ Len(b) = Len(worker[w].bytes) + n
  <2>1. worker[w].bytes \o more \in Seq(Nat) /\ Len(worker[w].bytes \o more) = Len(worker[w].bytes) + Len(more)
    BY WorkerIs, ConcatProperties
  <2> QED BY <1>2, <2>1, Zenon
<1>4. Moves(w, worker[w].pc, worker[w].part, b)
  <2>1. worker' = [worker EXCEPT ![w].bytes = b]
    BY <1>1, <1>2, <1>3, Zenon DEF ReadsSome
  <2> QED BY <2>1, MovesOn, Zenon
<1>5. stream' \in [size : Nat, announced : Nat, next : Nat \ {0}] /\ stream'.size = stream.size /\ stream'.next = stream.next + n
  <2>1. stream \in [size : Nat, announced : Nat, next : Nat \ {0}]
    BY DEF UploadInv, UploadTypes
  <2>2. PICK m \in Nat \ {0} : m = stream.next + n
    <3>1. stream.next + n \in Nat \ {0}
      BY <2>1
    <3> QED BY <3>1, Zenon
  <2>3. stream' = [stream EXCEPT !.next = m]
    BY <1>1, <2>2, Zenon DEF ReadsSome
  <2> QED BY <2>1, <2>2, <2>3
<1>6. UploadTypes' /\ ReaderHasLock' /\ EndsWhenDone'
  BY <1>0, <1>4, <1>5 DEF Moves, UploadInv, UploadTypes, ReaderHasLock, EndsWhenDone
<1>7. Clean' => Clean
  BY <1>0, <1>4 DEF Clean, Moves
<1>8. ASSUME StreamInStep PROVE StreamInStep'
  <2>1. /\ parts.current < parts.total
        /\ worker[w].bytes = Slice(parts.current * PartSize, Len(worker[w].bytes))
        /\ stream.next = parts.current * PartSize + Len(worker[w].bytes) + 1
    BY <1>0, <1>8 DEF StreamInStep
  <2>2. b = Slice(parts.current * PartSize, Len(b))
    <3>0. parts.current * PartSize \in Nat /\ Len(worker[w].bytes) \in Nat /\ stream.next \in Nat
      BY WorkerIs
    <3>1. PICK from \in Nat, l \in Nat, k \in Nat :
            from = parts.current * PartSize /\ l = Len(worker[w].bytes) /\ k = stream.next
      BY <3>0, Zenon
    <3>2. k = from + l + 1
      BY <2>1, <3>1
    <3>3. Followed(Slice(from, l), k, n) = Slice(from, l + n)
      BY <3>2, SliceGrows
    <3>4. worker[w].bytes = Slice(from, l) /\ more = Run(k, n) /\ Len(b) = l + n
      BY <1>2, <1>3, <2>1, <3>1, Zenon
    <3> QED BY <1>3, <3>1, <3>3, <3>4, Zenon DEF Followed
  <2>3. \A x \in Uploaders : worker'[x].pc = "read" => x = w
    BY <1>0, <1>4, <1>6, WorkerIs DEF ReaderHasLock, UploadInv
  <2>4. parts'.lock # Upload!Nobody
    BY <1>0, WorkerIs DEF ReaderHasLock, UploadInv
  <2>5. PICK from \in Nat : from = parts.current * PartSize
    <3>1. parts.current * PartSize \in Nat
      BY WorkerIs
    <3> QED BY <3>1, Zenon
  <2>6. stream'.next <= stream'.size + 1 /\ Len(b) <= PartSize /\ stream'.next = from + Len(b) + 1
    <3>1. stream.next + n - 1 <= stream.size
      BY <1>1 DEF ReadsSome
    <3>2. Len(b) = Len(worker[w].bytes) + n
      BY <1>3
    <3>3. stream.next = from + Len(worker[w].bytes) + 1
      BY <2>1, <2>5
    <3>4. Len(worker[w].bytes) + n <= PartSize
      BY <1>1
    <3>5. Len(worker[w].bytes) \in Nat /\ stream.size \in Nat /\ stream.next \in Nat /\ PartSize \in Nat
      BY WorkerIs
    <3>6. stream'.size = stream.size /\ stream'.next = stream.next + n
      BY <1>5
    <3> QED BY <3>1, <3>2, <3>3, <3>4, <3>5, <3>6
  <2>7. worker'[w].bytes = b /\ parts' = parts
    BY <1>0, <1>4 DEF Moves
  <2> QED BY <2>1, <2>2, <2>3, <2>4, <2>5, <2>6, <2>7 DEF StreamInStep
<1>9. ASSUME PartsWhole PROVE PartsWhole'
  <2>1. \A x \in Uploaders :
          /\ worker'[x].pc = worker[x].pc /\ worker'[x].part = worker[x].part
          /\ worker'[x].pc = "send" => worker'[x].bytes = worker[x].bytes
    BY <1>0, <1>4 DEF Moves
  <2>2. Upload!Limit' = Upload!Limit
    BY <1>0, <1>5, LimitStays
  <2>3. saved' = saved /\ parts' = parts
    BY <1>0
  <2> QED BY <1>9, <2>1, <2>2, <2>3, SMTT(30) DEF PartsWhole
<1>10. EnoughRead => EnoughRead'
  BY <1>0, <1>5, EnoughStays
<1> QED BY <1>6, <1>7, <1>8, <1>9, <1>10 DEF UploadInv

LEMMA NextPart ==
    ASSUME NEW S, NEW x \in S, NEW c \in Nat, NEW r \in [lock : S, current : Nat, total : Int]
    PROVE  [r EXCEPT !.lock = x, !.current = c] \in [lock : S, current : Nat, total : Int]
OBVIOUS

LEMMA UploadParts ==
    ASSUME UploadInv, outcome = "running", NEW w \in Uploaders, worker[w].pc = "read",
           Clean => worker[w].bytes = Whole(Upload!Limit, parts.current),
           Clean /\ parts.current + 1 < parts.total => Len(worker[w].bytes) = PartSize,
           Upload!Part(w), UNCHANGED <<stream, saved, outcome>>
    PROVE  UploadInv'
<1>1. /\ parts' = [parts EXCEPT !.lock = Upload!Nobody, !.current = @ + 1]
      /\ worker' = [worker EXCEPT ![w].pc = "send", ![w].part = parts.current]
  BY DEF Upload!Part
<1>2. PICK p \in Nat : p = parts.current
  BY WorkerIs, Zenon
<1>3. Moves(w, "send", p, worker[w].bytes)
  <2>1. "send" \in UploadSteps
    BY DEF UploadSteps
  <2>2. worker' = [worker EXCEPT ![w].pc = "send", ![w].part = p]
    BY <1>1, <1>2, Zenon
  <2> QED BY <2>1, <2>2, MovesWithPart, Zenon
<1>4. /\ parts' \in [lock : Uploaders \cup {Upload!Nobody}, current : Nat, total : Int]
      /\ parts'.lock = Upload!Nobody /\ parts'.current = p + 1 /\ parts'.total = parts.total
  <2>1. parts \in [lock : Uploaders \cup {Upload!Nobody}, current : Nat, total : Int]
    BY DEF UploadInv, UploadTypes
  <2>2. parts' = [parts EXCEPT !.lock = Upload!Nobody, !.current = @ + 1]
    BY <1>1
  <2>3. parts' \in [lock : Uploaders \cup {Upload!Nobody}, current : Nat, total : Int]
    <3>1. parts.current + 1 \in Nat /\ Upload!Nobody \in Uploaders \cup {Upload!Nobody}
      BY <2>1
    <3>2. PICK c \in Nat : c = parts.current + 1
      BY <3>1, Zenon
    <3>3. parts' = [parts EXCEPT !.lock = Upload!Nobody, !.current = c]
      BY <2>2, <3>2, Zenon
    <3> QED BY <2>1, <3>1, <3>3, NextPart, Zenon
  <2>4. parts'.lock = Upload!Nobody /\ parts'.current = parts.current + 1 /\ parts'.total = parts.total
    BY <2>1, <2>2
  <2> QED BY <1>2, <2>3, <2>4
<1>5. parts.lock = w /\ \A x \in Uploaders \ {w} : worker[x].pc # "read"
  BY DEF UploadInv, ReaderHasLock
<1>6. UploadTypes' /\ ReaderHasLock' /\ EndsWhenDone'
  <2>1. UploadTypes'
    BY <1>3, <1>4 DEF Moves, UploadInv, UploadTypes
  <2>2. ReaderHasLock'
    BY <1>3, <1>4, <1>5, WorkerIs DEF Moves, ReaderHasLock
  <2>3. EndsWhenDone'
    BY <1>2, <1>3, <1>4, WorkerIs DEF Moves, UploadInv, EndsWhenDone
  <2> QED BY <2>1, <2>2, <2>3
<1>7. Clean' => Clean
  BY <1>3 DEF Clean, Moves
<1>8. ASSUME Clean, StreamInStep PROVE StreamInStep'
  <2>1. /\ stream.next <= stream.size + 1 /\ parts.current < parts.total
        /\ stream.next = parts.current * PartSize + Len(worker[w].bytes) + 1
    BY <1>8 DEF StreamInStep
  <2>2. ASSUME p + 1 < parts.total PROVE stream.next = (p + 1) * PartSize + 1
    <3>1. Len(worker[w].bytes) = PartSize
      BY <1>2, <1>8, <2>2
    <3> QED BY <1>2, <2>1, <3>1, WorkerIs
  <2>3. \A x \in Uploaders : worker'[x].pc # "read"
    BY <1>3, <1>5 DEF Moves
  <2> QED BY <1>4, <2>1, <2>2, <2>3 DEF StreamInStep
<1>9. ASSUME Clean, StreamInStep, PartsWhole PROVE PartsWhole'
  <2>1. p < parts.total /\ p \in DOMAIN saved /\ worker[w].bytes = Whole(Upload!Limit, p)
    BY <1>2, <1>9 DEF StreamInStep, UploadInv, UploadTypes
  <2>2. Upload!Limit' = Upload!Limit
    BY <1>4, LimitStays
  <2>3. ASSUME NEW x \in Uploaders, worker'[x].pc = "send"
        PROVE  /\ worker'[x].part < parts'.current /\ worker'[x].part \in DOMAIN saved'
               /\ worker'[x].bytes = Whole(Upload!Limit', worker'[x].part)
    <3>1. CASE x = w
      BY <1>3, <1>4, <2>1, <2>2, <3>1 DEF Moves
    <3>2. CASE x # w
      <4>1. worker'[x] = worker[x]
        BY <1>3, <3>2 DEF Moves
      <4> QED BY <1>2, <1>4, <1>9, <2>2, <2>3, <4>1, WorkerIs DEF PartsWhole
    <3> QED BY <3>1, <3>2
  <2>4. ASSUME NEW q \in DOMAIN saved, q < parts'.current
        PROVE  \/ saved[q] = Whole(Upload!Limit', q)
               \/ \E x \in Uploaders : worker'[x].pc = "send" /\ worker'[x].part = q
    <3>1. CASE q = p
      BY <1>3, <3>1 DEF Moves
    <3>2. CASE q # p
      <4>1. q < parts.current
        BY <1>2, <1>4, <2>4, <3>2 DEF UploadInv, UploadTypes
      <4>2. \A x \in Uploaders : worker[x].pc = "send" => worker'[x] = worker[x]
        BY <1>3 DEF Moves
      <4> QED BY <1>9, <2>2, <4>1, <4>2 DEF PartsWhole
    <3> QED BY <3>1, <3>2
  <2> QED BY <2>3, <2>4 DEF PartsWhole
<1>10. ASSUME StreamInStep PROVE EnoughRead'
  <2>1. p * PartSize \in Nat /\ Len(worker[w].bytes) \in Nat /\ stream.size \in Nat /\ stream.next \in Nat
    BY WorkerIs
  <2>2. PICK from \in Nat : from = p * PartSize
    BY <2>1, Zenon
  <2>3. stream.next <= stream.size + 1 /\ stream.next = from + Len(worker[w].bytes) + 1
    BY <1>2, <1>10, <2>2 DEF StreamInStep
  <2>4. from <= stream.size
    BY <2>1, <2>3
  <2>5. parts'.current - 1 = p /\ stream'.size = stream.size
    BY <1>4
  <2> QED BY <2>2, <2>4, <2>5 DEF EnoughRead
<1> QED BY <1>6, <1>7, <1>8, <1>9, <1>10 DEF UploadInv

(* Products *)
LEMMA LessTimes == ASSUME NEW a \in Nat, NEW b \in Int, NEW c \in Nat, a < b PROVE a * c + c <= b * c
<1>1. PICK d \in Nat : b = a + 1 + d
  <2>1. b - a - 1 \in Nat /\ b = a + 1 + (b - a - 1)
    OBVIOUS
  <2> QED BY <2>1
<1>2. b * c = a * c + c + d * c /\ d * c \in Nat
  BY <1>1
<1> QED BY <1>2

LEMMA UploadFullPart ==
    ASSUME UploadInv, outcome = "running", NEW w \in Uploaders, Upload!FullPart(w)
    PROVE  UploadInv'
<1>0. /\ worker[w].pc = "read" /\ Len(worker[w].bytes) = PartSize /\ Upload!Part(w)
      /\ UNCHANGED <<stream, saved, outcome>>
  BY DEF Upload!FullPart
<1>1. ASSUME Clean PROVE worker[w].bytes = Whole(Upload!Limit, parts.current)
  <2>1. /\ stream.next <= stream.size + 1 /\ parts.current < parts.total
        /\ stream.next = parts.current * PartSize + PartSize + 1
        /\ worker[w].bytes = Slice(parts.current * PartSize, PartSize)
    BY <1>0, <1>1 DEF UploadInv, StreamInStep
  <2>2. parts.current * PartSize + PartSize <= parts.total * PartSize
    BY <2>1, LessTimes, WorkerIs
  <2>3. parts.current * PartSize \in Nat /\ parts.total * PartSize \in Int
    BY WorkerIs
  <2>4. PICK at \in Nat, end \in Int : at = parts.current * PartSize /\ end = parts.total * PartSize
    BY <2>3, Zenon
  <2>5. Upload!Limit >= at + PartSize /\ Upload!Limit \in Int
    BY <2>1, <2>2, <2>4, WorkerIs DEF Upload!Limit
  <2>6. PartLength(Upload!Limit, parts.current) = PartSize
    BY <2>4, <2>5, WorkerIs DEF PartLength
  <2> QED BY <2>1, <2>6 DEF Whole
<1> QED BY <1>0, <1>1, UploadParts

LEMMA UploadReadEnd ==
    ASSUME UploadInv, outcome = "running", NEW w \in Uploaders, Upload!ReadEnd(w)
    PROVE  UploadInv'
<1>0. /\ worker[w].pc = "read" /\ Len(worker[w].bytes) < PartSize /\ stream.next > stream.size
      /\ UNCHANGED <<stream, saved, outcome>>
  BY DEF Upload!ReadEnd
<1>1. CASE parts.current = parts.total - 1
  <2>1. Upload!Part(w)
    BY <1>1 DEF Upload!ReadEnd
  <2>2. ASSUME Clean PROVE worker[w].bytes = Whole(Upload!Limit, parts.current)
    <3>1. /\ stream.next <= stream.size + 1
          /\ stream.next = parts.current * PartSize + Len(worker[w].bytes) + 1
          /\ worker[w].bytes = Slice(parts.current * PartSize, Len(worker[w].bytes))
      BY <1>0, <2>2 DEF UploadInv, StreamInStep
    <3>2. parts.current * PartSize \in Nat /\ parts.total * PartSize \in Int
      BY WorkerIs
    <3>3. PICK at \in Nat, end \in Int : at = parts.current * PartSize /\ end = parts.total * PartSize
      BY <3>2, Zenon
    <3>4. end = at + PartSize
      <4>1. parts.total = parts.current + 1
        BY <1>1, WorkerIs
      <4>2. (parts.current + 1) * PartSize = parts.current * PartSize + PartSize
        BY WorkerIs
      <4> QED BY <3>3, <4>1, <4>2
    <3>5. Upload!Limit = at + Len(worker[w].bytes)
      <4>1. stream.next > stream.size /\ stream.next <= stream.size + 1 /\ Len(worker[w].bytes) < PartSize
        BY <1>0, <3>1
      <4>2. stream.next = at + Len(worker[w].bytes) + 1
        BY <3>1, <3>3
      <4>3. stream.size = at + Len(worker[w].bytes) /\ stream.size < end
        <5>1. /\ Len(worker[w].bytes) \in Nat /\ stream.size \in Nat /\ stream.next \in Nat
              /\ PartSize \in Nat
          BY WorkerIs
        <5> QED BY <3>4, <4>1, <4>2, <5>1
      <4> QED BY <3>3, <4>3 DEF Upload!Limit
    <3>6. PartLength(Upload!Limit, parts.current) = Len(worker[w].bytes)
      BY <1>0, <3>3, <3>5, WorkerIs DEF PartLength
    <3> QED BY <3>1, <3>6 DEF Whole
  <2>3. ~(parts.current + 1 < parts.total)
    BY <1>1, WorkerIs
  <2> QED BY <1>0, <2>1, <2>2, <2>3, UploadParts
<1>2. CASE parts.current # parts.total - 1
  <2>1. /\ parts' = [parts EXCEPT !.lock = Upload!Nobody] /\ worker' = [worker EXCEPT ![w].pc = "error"]
    BY <1>2 DEF Upload!ReadEnd
  <2>2. saved' \in [0 .. (parts.total - 1) -> Seq(Nat)]
    BY <1>0 DEF UploadInv, UploadTypes
  <2> QED BY <1>0, <2>1, <2>2, UploadFails
<1> QED BY <1>1, <1>2

LEMMA UploadReadFails ==
    ASSUME UploadInv, outcome = "running", NEW w \in Uploaders, Upload!ReadFails(w)
    PROVE  UploadInv'
<1>1. /\ worker[w].pc = "read" /\ UNCHANGED <<stream, saved, outcome>>
      /\ parts' = [parts EXCEPT !.lock = Upload!Nobody] /\ worker' = [worker EXCEPT ![w].pc = "error"]
  BY DEF Upload!ReadFails
<1>2. saved' \in [0 .. (parts.total - 1) -> Seq(Nat)]
  BY <1>1 DEF UploadInv, UploadTypes
<1> QED BY <1>1, <1>2, UploadFails

(* What is stored remains a function of parts *)
LEMMA StoredIs ==
    ASSUME UploadInv, NEW w \in Uploaders
    PROVE  /\ Upload!Stored(w) \in [0 .. (parts.total - 1) -> Seq(Nat)]
           /\ \A p \in DOMAIN saved :
                 Upload!Stored(w)[p] = IF p = worker[w].part THEN worker[w].bytes ELSE saved[p]
<1>1. saved \in [0 .. (parts.total - 1) -> Seq(Nat)] /\ worker[w].bytes \in Seq(Nat)
  BY WorkerIs DEF UploadInv, UploadTypes
<1> QED BY <1>1 DEF Upload!Stored

LEMMA UploadSaveFails ==
    ASSUME UploadInv, outcome = "running", NEW w \in Uploaders, Upload!SaveFails(w)
    PROVE  UploadInv'
<1>1. /\ worker[w].pc = "send" /\ UNCHANGED <<stream, parts, outcome>>
      /\ saved' \in {saved, Upload!Stored(w)} /\ worker' = [worker EXCEPT ![w].pc = "error"]
  BY DEF Upload!SaveFails
<1>2. saved' \in [0 .. (parts.total - 1) -> Seq(Nat)]
  BY <1>1, StoredIs DEF UploadInv, UploadTypes
<1> QED BY <1>1, <1>2, UploadFails

LEMMA UploadSave ==
    ASSUME UploadInv, outcome = "running", NEW w \in Uploaders, Upload!Save(w)
    PROVE  UploadInv'
<1>1. /\ worker[w].pc = "send" /\ UNCHANGED <<stream, parts, outcome>>
      /\ saved' = Upload!Stored(w) /\ worker' = [worker EXCEPT ![w].pc = "next"]
  BY DEF Upload!Save
<1>2. Moves(w, "next", worker[w].part, worker[w].bytes)
  <2>1. "next" \in UploadSteps
    BY DEF UploadSteps
  <2> QED BY <1>1, <2>1, MovesTo, Zenon
<1>3. /\ saved' \in [0 .. (parts.total - 1) -> Seq(Nat)] /\ DOMAIN saved' = DOMAIN saved
      /\ \A p \in DOMAIN saved : saved'[p] = IF p = worker[w].part THEN worker[w].bytes ELSE saved[p]
  BY <1>1, StoredIs DEF UploadInv, UploadTypes
<1>4. UploadTypes' /\ ReaderHasLock' /\ EndsWhenDone'
  <2>1. UploadTypes'
    BY <1>1, <1>2, <1>3 DEF Moves, UploadInv, UploadTypes
  <2>2. ReaderHasLock' /\ EndsWhenDone'
    BY <1>1, <1>2 DEF Moves, UploadInv, ReaderHasLock, EndsWhenDone
  <2> QED BY <2>1, <2>2
<1>5. Clean' => Clean
  BY <1>1, <1>2 DEF Clean, Moves
<1>6. StreamInStep => StreamInStep'
  BY <1>1, <1>2 DEF StreamInStep, Moves
<1>7. ASSUME PartsWhole PROVE PartsWhole'
  <2>1. Upload!Limit' = Upload!Limit
    BY <1>1, LimitStays
  <2>2. \A x \in Uploaders : worker'[x].pc = "send" => x # w /\ worker'[x] = worker[x]
    BY <1>2 DEF Moves
  <2>3. \A x \in Uploaders : worker[x].pc = "send" /\ x # w => worker'[x] = worker[x]
    BY <1>2 DEF Moves
  <2>4. ASSUME NEW p \in DOMAIN saved, p < parts.current
        PROVE  \/ saved'[p] = Whole(Upload!Limit, p)
               \/ \E x \in Uploaders : worker'[x].pc = "send" /\ worker'[x].part = p
    <3>1. CASE p = worker[w].part
      BY <1>1, <1>3, <1>7, <3>1 DEF PartsWhole
    <3>2. CASE p # worker[w].part
      BY <1>3, <1>7, <2>3, <2>4, <3>2 DEF PartsWhole
    <3> QED BY <3>1, <3>2
  <2> QED BY <1>1, <1>3, <1>7, <2>1, <2>2, <2>4 DEF PartsWhole
<1>8. EnoughRead => EnoughRead'
  BY <1>1, EnoughStays
<1> QED BY <1>4, <1>5, <1>6, <1>7, <1>8 DEF UploadInv

LEMMA UploadCollect ==
    ASSUME UploadInv, outcome = "running", Upload!Collect
    PROVE  UploadInv'
<1>1. /\ UNCHANGED <<stream, parts, worker, saved>>
      /\ outcome' = "ok" => \A w \in Uploaders : worker[w].pc = "ok"
  BY DEF Upload!Collect
<1>2. UploadTypes' /\ ReaderHasLock' /\ EndsWhenDone'
  BY <1>1 DEF UploadInv, UploadTypes, ReaderHasLock, EndsWhenDone
<1>3. /\ (Clean' <=> Clean) /\ (StreamInStep' <=> StreamInStep) /\ (PartsWhole' <=> PartsWhole)
      /\ EnoughRead => EnoughRead'
  BY <1>1, LimitStays DEF Clean, StreamInStep, PartsWhole, EnoughRead
<1> QED BY <1>2, <1>3 DEF UploadInv

(* What an upload relies on is kept by every step, for any number of workers, size of the
   parts and of the stream, in whichever pieces it gives its bytes *)
THEOREM UploadInvariance == ASSUME UploadInv, Upload!Next PROVE UploadInv'
<1>1. outcome = "running"
  BY DEF Upload!Next
<1> QED
  BY <1>1, UploadLock, UploadReadSome, UploadReadEnd, UploadFullPart, UploadSave, UploadReadFails,
     UploadSaveFails, UploadCollect
     DEF Upload!Next, Upload!Work

(* An upload that has succeeded has stored the stream as a whole *)
THEOREM UploadCorrect == UploadInv => Upload!StoredWhole
<1> SUFFICES ASSUME UploadInv, outcome = "ok"
             PROVE  /\ (parts.total - 1) * PartSize <= stream.size
                    /\ \A p \in DOMAIN saved : saved[p] = Whole(Upload!Limit, p)
  BY DEF Upload!StoredWhole, Whole, Slice, PartLength
<1>1. \A w \in Uploaders : worker[w].pc = "ok"
  BY DEF UploadInv, EndsWhenDone
<1>2. Clean /\ parts.current >= parts.total
  BY <1>1, TransfersAssumption DEF Clean, UploadInv, EndsWhenDone
<1>3. \A p \in DOMAIN saved : p < parts.current
  BY <1>2 DEF UploadInv, UploadTypes
<1>4. (parts.total - 1) * PartSize <= stream.size
  <2>1. /\ parts.current \in Nat /\ parts.total \in Int /\ stream.size \in Nat /\ PartSize \in Nat
        /\ EnoughRead
    BY <1>2, TransfersAssumption DEF UploadInv, UploadTypes
  <2>2. CASE parts.total <= 0
    <3>1. PICK d \in Nat : parts.total - 1 = 0 - d
      <4>1. 1 - parts.total \in Nat /\ parts.total - 1 = 0 - (1 - parts.total)
        BY <2>1, <2>2
      <4> QED BY <4>1
    <3>2. (0 - d) * PartSize = 0 - d * PartSize /\ d * PartSize \in Nat
      BY <2>1
    <3> QED BY <2>1, <3>1, <3>2
  <2>3. CASE parts.total > 0
    <3>1. PICK d \in Nat : parts.current - 1 = (parts.total - 1) + d
      <4>1. parts.current - parts.total \in Nat /\ parts.current - 1 = (parts.total - 1) + (parts.current - parts.total)
        BY <1>2, <2>1
      <4> QED BY <4>1
    <3>2. /\ (parts.current - 1) * PartSize = (parts.total - 1) * PartSize + d * PartSize
          /\ d * PartSize \in Nat /\ (parts.total - 1) * PartSize \in Int
      BY <2>1, <3>1
    <3>3. (parts.current - 1) * PartSize <= stream.size
      BY <1>2, <2>1, <2>3 DEF EnoughRead
    <3> QED BY <2>1, <3>2, <3>3
  <2> QED BY <2>1, <2>2, <2>3
<1> QED BY <1>1, <1>2, <1>3, <1>4 DEF UploadInv, PartsWhole

-----------------------------------------------------------------------------
(* Numbers: induction over a set, the least element, and the chunk of a byte *)

(* A set of numbers with zero and every successor has them all: were m missing, the numbers
   below which nothing is missing would be as many as the positive ones among them *)
LEMMA Counting ==
    ASSUME NEW S \in SUBSET Nat, 0 \in S, \A n \in S : n + 1 \in S
    PROVE  S = Nat
<1> SUFFICES ASSUME NEW m \in Nat, m \notin S PROVE FALSE
  OBVIOUS
<1> DEFINE U == {k \in 0 .. m : \A j \in 0 .. k : j \in S}
           next == [k \in U |-> k + 1]
<1>1. 0 \in U
  OBVIOUS
<1>2. ASSUME NEW k \in U PROVE k + 1 \in U \ {0}
  <2>1. k # m /\ k \in 0 .. m /\ k \in S /\ \A j \in 0 .. k : j \in S
    BY <1>2
  <2>2. \A j \in 0 .. (k + 1) : j \in S
    BY <2>1
  <2> QED BY <2>1, <2>2
<1>3. IsFiniteSet(U)
  <2>1. IsFiniteSet(0 .. m) /\ U \in SUBSET (0 .. m)
    BY FS_Interval
  <2> QED BY <2>1, FS_Subset, Zenon
<1>4. next \in Injection(U, U \ {0})
  <2>1. next \in [U -> U \ {0}]
    BY <1>2
  <2>2. \A a, b \in U : next[a] = next[b] => a = b
    OBVIOUS
  <2> QED BY <2>1, <2>2, Fun_IsInj
<1>5. IsFiniteSet(U \ {0}) /\ Cardinality(U \ {0}) = Cardinality(U) - 1
  BY <1>1, <1>3, FS_RemoveElement
<1>6. Cardinality(U) <= Cardinality(U \ {0})
  BY <1>4, <1>5, FS_Injection
<1> HIDE DEF U
<1>7. Cardinality(U) \in Nat
  BY <1>3, FS_CardinalityType
<1> QED BY <1>5, <1>6, <1>7

LEMMA Least ==
    ASSUME NEW S \in SUBSET Nat, S # {}
    PROVE  \E n \in S : \A m \in S : n <= m
<1> SUFFICES ASSUME \A n \in S : \E m \in S : m < n PROVE FALSE
  OBVIOUS
<1> DEFINE T == {k \in Nat : \A m \in S : k <= m}
<1>1. 0 \in T
  OBVIOUS
<1>2. ASSUME NEW k \in T PROVE k + 1 \in T
  <2>1. k \notin S
    BY <1>2
  <2> QED BY <1>2, <2>1
<1>3. T = Nat
  <2> HIDE DEF T
  <2>1. T \in SUBSET Nat
    BY DEF T
  <2> QED BY <1>1, <1>2, <2>1, Counting
<1>4. PICK m \in S : TRUE
  OBVIOUS
<1>5. m + 1 \in T
  BY <1>3
<1> QED BY <1>5

(* Every byte lies in a chunk *)
LiesInChunk(x, c) == \E i \in Nat : i * c <= x /\ x < i * c + c
LEMMA InChunk ==
    ASSUME NEW c \in Nat \ {0}, NEW b \in Nat
    PROVE  \E i \in Nat : i * c <= b /\ b < i * c + c
<1> DEFINE S == {x \in Nat : LiesInChunk(x, c)}
<1>1. 0 \in S
  <2>1. 0 * c = 0 /\ c > 0
    OBVIOUS
  <2> QED BY <2>1 DEF LiesInChunk
<1>2. ASSUME NEW x \in S PROVE x + 1 \in S
  <2>1. PICK i \in Nat : i * c <= x /\ x < i * c + c
    BY <1>2 DEF LiesInChunk
  <2>2. i * c \in Nat /\ (i + 1) * c = i * c + c /\ i + 1 \in Nat /\ (i + 1) * c \in Nat
    OBVIOUS
  <2>3. PICK p \in Nat, j \in Nat, q \in Nat : p = i * c /\ j = i + 1 /\ q = j * c
    BY <2>2, Zenon
  <2>4. q = p + c /\ p <= x /\ x < p + c /\ x \in Nat
    BY <1>2, <2>1, <2>2, <2>3
  <2>5. x + 1 < p + c \/ (q <= x + 1 /\ x + 1 < q + c)
    BY <2>4
  <2>6. p <= x + 1
    BY <2>4
  <2>7. LiesInChunk(x + 1, c)
    BY <2>3, <2>5, <2>6, Zenon DEF LiesInChunk
  <2> QED BY <2>4, <2>7
<1>3. S = Nat
  <2> HIDE DEF S
  <2>1. S \in SUBSET Nat
    BY DEF S
  <2> QED BY <1>1, <1>2, <2>1, Counting
<1>4. LiesInChunk(b, c)
  BY <1>3
<1> QED BY <1>4, Zenon DEF LiesInChunk

-----------------------------------------------------------------------------
(* FileDownload *)

FetchSteps == {"idle", "load", "sent", "answered", "authorize", "done"}
Fetches == [pc : FetchSteps, dc : Int, left : Int, tried : SUBSET Int,
            kind : {"none", "failed", "migrate", "unauthorized", "bytes"}, value : Int]
DownloadTypes ==
    /\ mode \in {"chunks", "iter", "blind", "lost"}
    /\ \E n \in Nat : file.bytes \in [0 .. (n - 1) -> Int]
    /\ file = [bytes |-> file.bytes, cursor |-> file.cursor, position |-> file.position]
    /\ file.cursor \in Int /\ file.position \in Int
    /\ fetch \in [Download!Offsets -> Fetches]
    /\ route \in Int /\ fileDc \in [at : Int, authorized : SUBSET Int]
    /\ iter \in [offset : Nat, done : BOOLEAN, dc : Int, out : Seq(Nat \X Int)]
    /\ fetched \in {"running", "ok", "error"}

(* The cursor that the code remembers is that of the file; a chunk that is done is
   written; and while a chunk waits another one is under way *)
ChunksWritten ==
    mode = "chunks" =>
        /\ file.cursor = file.position
        /\ fetched # "error" => \A o \in Download!Offsets : fetch[o].pc = "done" =>
              \A b \in o .. (o + Download!Expected(o) - 1) : file.bytes[b] = b
        /\ fetched = "running" /\ Download!InFlight = {} =>
              \A o \in Download!Offsets : fetch[o].pc # "idle"
        /\ fetched = "ok" => \A o \in Download!Offsets : fetch[o].pc = "done"

(* What is known of the file's datacenter is no news from the future *)
RoutesKnown ==
    mode = "chunks" =>
        /\ route <= fileDc.at
        /\ \A o \in Download!Offsets :
             /\ fetch[o].pc \in {"sent", "answered"} => fetch[o].dc <= fileDc.at
             /\ fetch[o].pc = "answered" /\ fetch[o].kind = "migrate" =>
                  fetch[o].dc <= fetch[o].value /\ fetch[o].value <= fileDc.at

(* The iterator fetches the chunk at its offset and no other, and has given those before *)
Given == Len(iter.out)
GivenWhole == \A i \in DOMAIN iter.out : iter.out[i][2] = Download!Expected(iter.out[i][1])
IterInOrder ==
    mode # "chunks" =>
        /\ \A o \in Download!Offsets : fetch[o].pc \notin {"idle", "done"} => o = iter.offset /\ ~iter.done
        /\ iter.offset = Given * Chunk
        /\ \A i \in DOMAIN iter.out : iter.out[i][1] = (i - 1) * Chunk
        /\ Given > 0 => (Given - 1) * Chunk < Download!Size
        /\ iter.done /\ GivenWhole => Download!Size <= Given * Chunk

IterUnused == mode = "chunks" => iter.out = <<>> /\ ~iter.done

DownloadInv == DownloadTypes /\ ChunksWritten /\ RoutesKnown /\ IterInOrder /\ IterUnused

LEMMA ChunksCount == ASSUME NEW S PROVE Download!Cardinality(S) = Cardinality(S)
BY DEF Download!Cardinality, Cardinality

(* The size, the offsets of chunks, and how long a chunk is *)
LEMMA SizeIs ==
    ASSUME NEW n \in Nat, file.bytes \in [0 .. (n - 1) -> Int]
    PROVE  Download!Size = n /\ DOMAIN file.bytes = 0 .. (Download!Size - 1)
<1>1. DOMAIN file.bytes = 0 .. (n - 1)
  OBVIOUS
<1>2. Cardinality(0 .. (n - 1)) = n
  <2>1. PICK k \in Int : k = n - 1
    OBVIOUS
  <2>2. Cardinality(0 .. k) = IF 0 > k THEN 0 ELSE k - 0 + 1
    BY FS_Interval
  <2> QED BY <2>1, <2>2
<1> QED BY <1>1, <1>2, ChunksCount DEF Download!Size
LEMMA SizeKnown ==
    ASSUME DownloadTypes
    PROVE  /\ Download!Size \in Nat /\ DOMAIN file.bytes = 0 .. (Download!Size - 1)
           /\ file.bytes \in [0 .. (Download!Size - 1) -> Int]
<1>1. PICK n \in Nat : file.bytes \in [0 .. (n - 1) -> Int]
  BY DEF DownloadTypes
<1> QED BY <1>1, SizeIs
LEMMA SizeStays ==
    ASSUME DOMAIN file'.bytes = DOMAIN file.bytes
    PROVE  /\ Download!Size' = Download!Size /\ Download!Offsets' = Download!Offsets
           /\ \A o : Download!Expected(o)' = Download!Expected(o)
BY DEF Download!Size, Download!Offsets, Download!Expected
LEMMA OffsetIs ==
    ASSUME Download!Size \in Nat, NEW o \in Download!Offsets
    PROVE  o \in Nat /\ o < Download!Size /\ \E i \in Nat : o = i * Chunk
BY DEF Download!Offsets
LEMMA OffsetAt ==
    ASSUME Download!Size \in Nat, NEW i \in Nat, i * Chunk < Download!Size
    PROVE  i * Chunk \in Download!Offsets
<1>1. i * Chunk \in Nat /\ i <= i * Chunk
  <2>1. PICK c \in Nat : Chunk = c + 1
    <3>1. Chunk - 1 \in Nat /\ Chunk = (Chunk - 1) + 1
      BY TransfersAssumption
    <3> QED BY <3>1
  <2>2. i * Chunk = i * c + i /\ i * c \in Nat
    BY <2>1
  <2> QED BY <2>2
<1>2. PICK o \in Nat : o = i * Chunk
  BY <1>1, Zenon
<1>3. o \in 0 .. (Download!Size - 1) /\ i \in 0 .. o
  BY <1>1, <1>2
<1> QED BY <1>2, <1>3, Zenon DEF Download!Offsets
LEMMA ExpectedIs ==
    ASSUME Download!Size \in Nat, NEW o \in Nat, o < Download!Size
    PROVE  /\ Download!Expected(o) \in 1 .. Chunk /\ o + Download!Expected(o) <= Download!Size
           /\ Download!Expected(o) = Chunk \/ o + Download!Expected(o) = Download!Size
<1>1. PICK n \in Nat : n = Download!Size
  BY Zenon
<1>2. n - o \in Nat \ {0} /\ Chunk \in Nat \ {0}
  BY <1>1, TransfersAssumption
<1>3. Download!Expected(o) = IF n - o <= Chunk THEN n - o ELSE Chunk
  <2>1. Download!Expected(o) = CHOOSE x \in {n - o, Chunk} : \A y \in {n - o, Chunk} : x <= y
    BY <1>1 DEF Download!Expected, Download!Min
  <2>2. CASE n - o <= Chunk
    BY <1>2, <2>1, <2>2
  <2>3. CASE ~(n - o <= Chunk)
    BY <1>2, <2>1, <2>3
  <2> QED BY <2>2, <2>3
<1> QED BY <1>1, <1>2, <1>3

LEMMA DownloadIs ==
    ASSUME DownloadInv
    PROVE  /\ Download!Size \in Nat /\ Chunk \in Nat \ {0}
           /\ fetch \in [Download!Offsets -> Fetches]
           /\ route \in Int /\ fileDc.at \in Int /\ fileDc.authorized \in SUBSET Int
           /\ fileDc = [at |-> fileDc.at, authorized |-> fileDc.authorized]
           /\ iter = [offset |-> iter.offset, done |-> iter.done, dc |-> iter.dc, out |-> iter.out]
           /\ iter.offset \in Nat /\ iter.done \in BOOLEAN /\ iter.dc \in Int /\ iter.out \in Seq(Nat \X Int)
BY SizeKnown, TransfersAssumption DEF DownloadInv, DownloadTypes
LEMMA FetchIs ==
    ASSUME DownloadInv, NEW o \in Download!Offsets
    PROVE  /\ fetch[o] \in Fetches
           /\ fetch[o].dc \in Int /\ fetch[o].left \in Int /\ fetch[o].tried \in SUBSET Int /\ fetch[o].value \in Int
           /\ o \in Nat /\ o < Download!Size
           /\ Download!Expected(o) \in 1 .. Chunk /\ o + Download!Expected(o) <= Download!Size
           /\ Download!Expected(o) = Chunk \/ o + Download!Expected(o) = Download!Size
<1>1. o \in Nat /\ o < Download!Size
  BY DownloadIs, OffsetIs
<1>2. fetch[o] \in Fetches
  BY DownloadIs
<1>3. /\ fetch[o].dc \in Int /\ fetch[o].left \in Int /\ fetch[o].tried \in SUBSET Int
      /\ fetch[o].value \in Int
  BY <1>2 DEF Fetches
<1> QED BY <1>1, <1>2, <1>3, DownloadIs, ExpectedIs

(* The fetch of the chunk at o becomes f, and the others stay *)
FetchBecomes(o, f) ==
    /\ fetch' \in [Download!Offsets -> Fetches]
    /\ fetch'[o] = f
    /\ \A x \in Download!Offsets \ {o} : fetch'[x] = fetch[x]
LEMMA FetchSet ==
    ASSUME DownloadInv, NEW o \in Download!Offsets, NEW f \in Fetches, fetch' = [fetch EXCEPT ![o] = f]
    PROVE  FetchBecomes(o, f)
BY DownloadIs DEF FetchBecomes
FetchAt(f, pc) == [pc |-> pc, dc |-> f.dc, left |-> f.left, tried |-> f.tried, kind |-> f.kind, value |-> f.value]
LEMMA FetchMoves ==
    ASSUME DownloadInv, NEW o \in Download!Offsets, NEW pc \in FetchSteps, fetch' = [fetch EXCEPT ![o].pc = pc]
    PROVE  FetchBecomes(o, FetchAt(fetch[o], pc)) /\ FetchAt(fetch[o], pc) \in Fetches
<1>1. fetch[o] \in Fetches
  BY FetchIs
<1>2. PICK f \in Fetches : f = fetch[o]
  BY <1>1, Zenon
<1>3. [f EXCEPT !.pc = pc] = FetchAt(f, pc) /\ FetchAt(f, pc) \in Fetches
  BY DEF FetchAt, Fetches
<1>4. fetch' = [fetch EXCEPT ![o] = [f EXCEPT !.pc = pc]]
  BY <1>2
<1>5. fetch' = [fetch EXCEPT ![o] = FetchAt(f, pc)]
  BY <1>3, <1>4, Zenon
<1> QED BY <1>2, <1>3, <1>5, FetchSet, Zenon

(* A step of a fetch under way: it stays under way, or fails *)
Routed ==
    /\ route' \in Int /\ fileDc' \in [at : Int, authorized : SUBSET Int]
    /\ mode' = mode /\ file' = file /\ iter' = iter
LEMMA FetchGoesOn ==
    ASSUME DownloadInv, fetched = "running", NEW o \in Download!Offsets, NEW f,
           fetch[o].pc \notin {"idle", "done"}, FetchBecomes(o, f), Routed,
           \/ f.pc \notin {"idle", "done"} /\ fetched' = fetched
           \/ f.pc = "done" /\ fetched' = "error",
           RoutesKnown'
    PROVE  DownloadInv'
<1>1. /\ Download!Size' = Download!Size /\ Download!Offsets' = Download!Offsets
      /\ \A x : Download!Expected(x)' = Download!Expected(x)
  BY SizeStays DEF Routed
<1>2. fetched' \in {"running", "ok", "error"}
  OBVIOUS
<1>3. DownloadTypes'
  BY <1>1, <1>2 DEF DownloadInv, DownloadTypes, FetchBecomes, Routed
<1>4. \A x \in Download!Offsets : fetch'[x].pc = "idle" <=> fetch[x].pc = "idle"
  BY DEF FetchBecomes
<1>5. \A x \in Download!Offsets : fetched' # "error" /\ fetch'[x].pc = "done" => fetch[x].pc = "done"
  BY DEF FetchBecomes
<1>6. \A x \in Download!Offsets : fetch'[x].pc \notin {"idle", "done"} => fetch[x].pc \notin {"idle", "done"}
  BY DEF FetchBecomes
<1>7. ChunksWritten'
  <2> SUFFICES ASSUME mode = "chunks" PROVE ChunksWritten'
    BY DEF ChunksWritten, Routed
  <2>1. file' = file /\ file.cursor = file.position
    BY DEF DownloadInv, ChunksWritten, Routed
  <2>2. fetched' # "ok" /\ (fetched' = "running" => f.pc \notin {"idle", "done"})
    OBVIOUS
  <2>3. fetched' = "running" => o \in Download!InFlight'
    BY <1>1, <2>2 DEF Download!InFlight, FetchBecomes
  <2>4. ASSUME fetched' # "error", NEW x \in Download!Offsets, fetch'[x].pc = "done",
               NEW b \in x .. (x + Download!Expected(x) - 1)
        PROVE  file.bytes[b] = b
    BY <1>5, <2>4 DEF DownloadInv, ChunksWritten
  <2> QED BY <1>1, <2>1, <2>2, <2>3, <2>4 DEF ChunksWritten
<1>8. IterInOrder'
  BY <1>1, <1>6 DEF DownloadInv, IterInOrder, Routed, Given, GivenWhole
<1>9. IterUnused'
  BY DEF DownloadInv, IterUnused, Routed
<1> QED BY <1>3, <1>7, <1>8, <1>9 DEF DownloadInv

LEMMA FetchLoads ==
    ASSUME DownloadInv, fetched = "running", NEW o \in Download!Offsets, Download!Load(o)
    PROVE  DownloadInv'
<1>0. fetch[o].pc = "load" /\ UNCHANGED <<mode, route, fileDc, file, iter, fetched>>
  BY DEF Download!Load
<1>a. PICK g \in Fetches, dc \in Int : g = fetch[o] /\ dc = route
  BY FetchIs, DownloadIs, Zenon
<1> DEFINE f == [g EXCEPT !.pc = "sent", !.dc = dc]
<1>1. f \in Fetches /\ f.pc = "sent" /\ f.dc = route
  BY <1>a DEF Fetches, FetchSteps
<1>2. fetch' = [fetch EXCEPT ![o] = f]
  BY <1>a, DownloadIs DEF Download!Load, Fetches
<1> HIDE DEF f
<1>3. FetchBecomes(o, f)
  BY <1>1, <1>2, FetchSet
<1>4. Routed
  BY <1>0 DEF Routed, DownloadInv, DownloadTypes
<1>5. Download!Offsets' = Download!Offsets
  BY <1>0, SizeStays
<1>6. RoutesKnown'
  BY <1>0, <1>1, <1>3, <1>5 DEF DownloadInv, RoutesKnown, FetchBecomes
<1> QED BY <1>0, <1>1, <1>3, <1>4, <1>6, FetchGoesOn

(* An error ends the fetch *)
LEMMA FetchEnds ==
    ASSUME DownloadInv, fetched = "running", NEW o \in Download!Offsets, fetch[o].pc \notin {"idle", "done"},
           Download!Ends(o, "error"), Routed, fileDc'.at = fileDc.at, mode = "chunks" => route' <= fileDc.at
    PROVE  DownloadInv'
<1>1. fetch' = [fetch EXCEPT ![o].pc = "done"] /\ fetched' = "error" /\ "done" \in FetchSteps
  BY DEF Download!Ends, FetchSteps
<1>2. FetchBecomes(o, FetchAt(fetch[o], "done")) /\ FetchAt(fetch[o], "done").pc = "done"
  BY <1>1, FetchMoves DEF FetchAt
<1>3. Download!Offsets' = Download!Offsets
  BY SizeStays DEF Routed
<1>4. RoutesKnown'
  BY <1>2, <1>3 DEF DownloadInv, RoutesKnown, FetchBecomes, Routed
<1> QED BY <1>1, <1>2, <1>4, FetchGoesOn

(* A fetch that goes on to ask again, or for an authorization *)
LEMMA FetchAgain ==
    ASSUME DownloadInv, fetched = "running", NEW o \in Download!Offsets, fetch[o].pc \notin {"idle", "done"},
           NEW f, FetchBecomes(o, f), f.pc \in {"load", "authorize"}, fetched' = fetched, Routed,
           fileDc'.at = fileDc.at, mode = "chunks" => route' <= fileDc.at
    PROVE  DownloadInv'
<1>1. Download!Offsets' = Download!Offsets
  BY SizeStays DEF Routed
<1>2. RoutesKnown'
  BY <1>1 DEF DownloadInv, RoutesKnown, FetchBecomes, Routed
<1> QED BY <1>2, FetchGoesOn

LEMMA FetchFailed ==
    ASSUME DownloadInv, fetched = "running", NEW o \in Download!Offsets, Download!Failed(o)
    PROVE  DownloadInv'
<1>1. /\ fetch[o].pc = "answered" /\ Download!Ends(o, "error")
      /\ UNCHANGED <<mode, route, fileDc, file, iter>>
  BY DEF Download!Failed
<1>2. Routed /\ (mode = "chunks" => route <= fileDc.at)
  BY <1>1 DEF Routed, DownloadInv, DownloadTypes, RoutesKnown
<1> QED BY <1>1, <1>2, FetchEnds

(* What Telegram answers *)
LEMMA FetchAnswered ==
    ASSUME DownloadInv, fetched = "running", NEW o \in Download!Offsets, fetch[o].pc = "sent",
           NEW kind \in {"failed", "migrate", "unauthorized", "bytes"}, NEW value \in Int,
           fetch' = [fetch EXCEPT ![o].pc = "answered", ![o].kind = kind, ![o].value = value],
           kind = "migrate" /\ mode = "chunks" => value = fileDc.at,
           UNCHANGED <<mode, route, fileDc, file, iter, fetched>>
    PROVE  DownloadInv'
<1>a. PICK g \in Fetches : g = fetch[o]
  BY FetchIs, Zenon
<1> DEFINE f == [g EXCEPT !.pc = "answered", !.kind = kind, !.value = value]
<1>1. f \in Fetches /\ f.pc = "answered" /\ f.kind = kind /\ f.value = value /\ f.dc = fetch[o].dc
  BY <1>a DEF Fetches, FetchSteps
<1>2. fetch' = [fetch EXCEPT ![o] = f]
  BY <1>a, DownloadIs DEF Fetches
<1> HIDE DEF f
<1>3. FetchBecomes(o, f)
  BY <1>1, <1>2, FetchSet
<1>4. Routed
  BY DEF Routed, DownloadInv, DownloadTypes
<1>5. Download!Offsets' = Download!Offsets
  BY SizeStays
<1>6. RoutesKnown'
  <2>1. mode = "chunks" => f.dc <= fileDc.at /\ (f.kind = "migrate" => f.value = fileDc.at)
    BY <1>1 DEF DownloadInv, RoutesKnown
  <2>2. fileDc.at \in Int
    BY DownloadIs
  <2> QED BY <1>1, <1>3, <1>5, <2>1, <2>2 DEF DownloadInv, RoutesKnown, FetchBecomes
<1> QED BY <1>1, <1>3, <1>4, <1>6, FetchGoesOn
LEMMA FetchIsAnswered ==
    ASSUME DownloadInv, fetched = "running", NEW o \in Download!Offsets, Download!Answer(o)
    PROVE  DownloadInv'
<1>0. fetch[o].pc = "sent" /\ UNCHANGED <<mode, route, fileDc, file, iter, fetched>>
  BY DEF Download!Answer
<1>1. PICK kind \in {"failed", "migrate", "unauthorized", "bytes"}, value \in Int :
        /\ fetch' = [fetch EXCEPT ![o].pc = "answered", ![o].kind = kind, ![o].value = value]
        /\ kind = "migrate" /\ mode = "chunks" => value = fileDc.at
  <2>1. \/ /\ mode = "lost"
           /\ fetch' = [fetch EXCEPT ![o].pc = "answered", ![o].kind = "migrate", ![o].value = 3 - fetch[o].dc]
        \/ fetch' = [fetch EXCEPT ![o].pc = "answered", ![o].kind = "unauthorized", ![o].value = 0]
        \/ fetch' = [fetch EXCEPT ![o].pc = "answered", ![o].kind = "migrate", ![o].value = fileDc.at]
        \/ fetch' = [fetch EXCEPT ![o].pc = "answered", ![o].kind = "bytes", ![o].value = Download!Expected(o)]
        \/ fetch' = [fetch EXCEPT ![o].pc = "answered", ![o].kind = "failed", ![o].value = 0]
        \/ fetch' = [fetch EXCEPT ![o].pc = "answered", ![o].kind = "bytes", ![o].value = Download!Expected(o) - 1]
    BY Zenon DEF Download!Answer
  <2>2. /\ 3 - fetch[o].dc \in Int /\ 0 \in Int /\ fileDc.at \in Int
        /\ Download!Expected(o) \in Int /\ Download!Expected(o) - 1 \in Int
    BY FetchIs, DownloadIs
  <2>3. mode = "lost" => mode # "chunks"
    OBVIOUS
  <2>4. "unauthorized" # "migrate" /\ "bytes" # "migrate" /\ "failed" # "migrate"
    OBVIOUS
  <2> QED BY <2>1, <2>2, <2>3, <2>4, Zenon
<1> QED BY <1>0, <1>1, FetchAnswered

LEMMA FetchUnauthorized ==
    ASSUME DownloadInv, fetched = "running", NEW o \in Download!Offsets, Download!Unauthorized(o)
    PROVE  DownloadInv'
<1>0. fetch[o].pc = "answered" /\ UNCHANGED <<mode, route, fileDc, file, iter>>
  BY DEF Download!Unauthorized
<1>1. Routed /\ (mode = "chunks" => route <= fileDc.at)
  BY <1>0 DEF Routed, DownloadInv, DownloadTypes, RoutesKnown
<1>2. CASE Download!Ends(o, "error")
  BY <1>0, <1>1, <1>2, FetchEnds
<1>3. CASE ~Download!Ends(o, "error")
  <2>1. /\ fetched' = fetched
        /\ fetch' = [fetch EXCEPT ![o] =
             IF route # fetch[o].dc THEN [fetch[o] EXCEPT !.pc = "load", !.left = @ - 1]
             ELSE [fetch[o] EXCEPT !.pc = "authorize", !.left = @ - 1, !.tried = @ \cup {fetch[o].dc}]]
    BY <1>3 DEF Download!Unauthorized
  <2>2. PICK f \in Fetches : f = fetch[o]
    BY FetchIs, Zenon
  <2>a. PICK n \in Int, T \in SUBSET Int : n = f.left - 1 /\ T = f.tried \cup {f.dc}
    <3>1. f.left - 1 \in Int /\ f.tried \cup {f.dc} \in SUBSET Int
      BY DEF Fetches
    <3> QED BY <3>1, Zenon
  <2>3. [f EXCEPT !.pc = "load", !.left = n] \in Fetches /\ [f EXCEPT !.pc = "load", !.left = n].pc = "load"
    BY DEF Fetches, FetchSteps
  <2>4. /\ [f EXCEPT !.pc = "authorize", !.left = n, !.tried = T] \in Fetches
        /\ [f EXCEPT !.pc = "authorize", !.left = n, !.tried = T].pc = "authorize"
    BY DEF Fetches, FetchSteps
  <2>5. PICK g \in Fetches : g.pc \in {"load", "authorize"} /\ fetch' = [fetch EXCEPT ![o] = g]
    <3>1. CASE route # f.dc
      <4>1. [f EXCEPT !.pc = "load", !.left = @ - 1] = [f EXCEPT !.pc = "load", !.left = n]
        BY <2>a DEF Fetches
      <4> QED BY <2>1, <2>2, <2>3, <3>1, <4>1, Zenon
    <3>2. CASE ~(route # f.dc)
      <4>1. [f EXCEPT !.pc = "authorize", !.left = @ - 1, !.tried = @ \cup {f.dc}]
            = [f EXCEPT !.pc = "authorize", !.left = n, !.tried = T]
        BY <2>a DEF Fetches
      <4> QED BY <2>1, <2>2, <2>4, <3>2, <4>1, Zenon
    <3> QED BY <3>1, <3>2
  <2> QED BY <1>0, <1>1, <2>1, <2>5, FetchSet, FetchAgain
<1> QED BY <1>2, <1>3

LEMMA FetchAuthorizes ==
    ASSUME DownloadInv, fetched = "running", NEW o \in Download!Offsets, Download!Authorize(o)
    PROVE  DownloadInv'
<1>0. fetch[o].pc = "authorize" /\ UNCHANGED <<mode, route, file, iter>>
  BY DEF Download!Authorize
<1>1. CASE Download!Ends(o, "error") /\ UNCHANGED fileDc
  <2>1. Routed /\ (mode = "chunks" => route <= fileDc.at)
    BY <1>0, <1>1 DEF Routed, DownloadInv, DownloadTypes, RoutesKnown
  <2> QED BY <1>0, <1>1, <2>1, FetchEnds
<1>2. CASE ~(Download!Ends(o, "error") /\ UNCHANGED fileDc)
  <2>1. /\ fileDc' = [fileDc EXCEPT !.authorized = @ \cup {fetch[o].dc}]
        /\ fetch' = [fetch EXCEPT ![o].pc = "load"] /\ fetched' = fetched
    BY <1>2 DEF Download!Authorize
  <2>2. fileDc' \in [at : Int, authorized : SUBSET Int] /\ fileDc'.at = fileDc.at
    BY <2>1, DownloadIs, FetchIs
  <2>3. Routed /\ (mode = "chunks" => route <= fileDc.at)
    BY <1>0, <2>2 DEF Routed, DownloadInv, DownloadTypes, RoutesKnown
  <2>4. "load" \in FetchSteps /\ FetchAt(fetch[o], "load").pc = "load"
    BY DEF FetchSteps, FetchAt
  <2>5. FetchBecomes(o, FetchAt(fetch[o], "load"))
    BY <2>1, <2>4, FetchMoves
  <2> QED BY <1>0, <2>1, <2>2, <2>3, <2>4, <2>5, FetchAgain
<1> QED BY <1>1, <1>2

LEMMA FetchMigrates ==
    ASSUME DownloadInv, fetched = "running", NEW o \in Download!Offsets, Download!Migrated(o)
    PROVE  DownloadInv' /\ Download!RouteMovesOn
<1>0. /\ fetch[o].pc = "answered" /\ fetch[o].kind = "migrate"
      /\ UNCHANGED <<mode, fileDc, file, iter>>
  BY DEF Download!Migrated
<1>1. /\ route' = route \/ (route' = fetch[o].value /\ route = fetch[o].dc)
      /\ route' \in Int
  BY FetchIs, DownloadIs DEF Download!Migrated, Download!Rerouted
<1>2. mode = "chunks" => route' <= fileDc.at /\ route' >= route
  BY <1>0, <1>1, FetchIs, DownloadIs DEF DownloadInv, RoutesKnown
<1>3. Routed
  BY <1>0, <1>1 DEF Routed, DownloadInv, DownloadTypes
<1>4. DownloadInv'
  <2>1. CASE Download!Ends(o, "error")
    BY <1>0, <1>2, <1>3, <2>1, FetchEnds
  <2>2. CASE ~Download!Ends(o, "error")
    <3>1. /\ fetch' = [fetch EXCEPT ![o].pc = "load", ![o].left = IF @ > 0 THEN @ - 1 ELSE 0]
          /\ fetched' = fetched
      BY <2>2 DEF Download!Migrated
    <3>2. PICK f \in Fetches : f = fetch[o]
      BY FetchIs, Zenon
    <3>3. PICK n \in Int : n = IF f.left > 0 THEN f.left - 1 ELSE 0
      BY DEF Fetches
    <3>4. [f EXCEPT !.pc = "load", !.left = n] \in Fetches /\ [f EXCEPT !.pc = "load", !.left = n].pc = "load"
      BY DEF Fetches, FetchSteps
    <3>5. fetch' = [fetch EXCEPT ![o] = [f EXCEPT !.pc = "load", !.left = n]]
      BY <3>1, <3>2, <3>3, DownloadIs DEF Fetches
    <3> QED BY <1>0, <1>2, <1>3, <3>1, <3>4, <3>5, FetchSet, FetchAgain
  <2> QED BY <2>1, <2>2
<1> QED BY <1>2, <1>4 DEF Download!RouteMovesOn

(* The next chunk that waits is started *)
LEMMA ChunkStarted ==
    ASSUME DownloadInv, NEW g \in [Download!Offsets -> Fetches], NEW h, h = Download!Started(g)
    PROVE  /\ h \in [Download!Offsets -> Fetches]
           /\ \A x \in Download!Offsets : h[x] = g[x] \/ (g[x].pc = "idle" /\ h[x].pc = "load")
           /\ (\E x \in Download!Offsets : g[x].pc = "idle") => \E x \in Download!Offsets : h[x].pc = "load"
<1>1. CASE \E x \in Download!Offsets : g[x].pc = "idle"
  <2> DEFINE S == {x \in Download!Offsets : g[x].pc = "idle"}
             m == Download!Min(S)
  <2>1. h = [g EXCEPT ![m].pc = "load"]
    BY <1>1 DEF Download!Started
  <2>2. m \in Download!Offsets /\ g[m].pc = "idle"
    <3>1. S \in SUBSET Nat /\ S # {}
      BY <1>1, FetchIs
    <3>2. \E x \in S : \A y \in S : x <= y
      <4> HIDE DEF S
      <4> QED BY <3>1, Least
    <3>3. m \in S
      <4> HIDE DEF S
      <4> QED BY <3>2 DEF Download!Min
    <3> QED BY <3>3
  <2> HIDE DEF m
  <2>3. PICK f \in Fetches : f = g[m]
    BY <2>2
  <2>4. [f EXCEPT !.pc = "load"] \in Fetches /\ [f EXCEPT !.pc = "load"].pc = "load"
    BY DEF Fetches, FetchSteps
  <2>5. h = [g EXCEPT ![m] = [f EXCEPT !.pc = "load"]]
    BY <2>1, <2>3
  <2> QED BY <2>2, <2>4, <2>5
<1>2. CASE ~\E x \in Download!Offsets : g[x].pc = "idle"
  BY <1>2 DEF Download!Started
<1> QED BY <1>1, <1>2

LEMMA ChunkIsWritten ==
    ASSUME DownloadInv, NEW o \in Download!Offsets, Download!Write(o)
    PROVE  DownloadInv'
<1>0. /\ mode = "chunks" /\ fetched = "running" /\ fetch[o].pc = "answered"
      /\ UNCHANGED <<mode, route, fileDc, iter>>
  BY DEF Download!Write
<1>1. file.cursor = file.position /\ file.position \in Int
  BY <1>0 DEF DownloadInv, ChunksWritten, DownloadTypes
<1>2. CASE fetch[o].value # Download!Expected(o)
  <2>1. Download!Ends(o, "error") /\ file' = file
    BY <1>2 DEF Download!Write
  <2>2. Routed /\ route <= fileDc.at
    BY <1>0, <2>1 DEF Routed, DownloadInv, DownloadTypes, RoutesKnown
  <2> QED BY <1>0, <2>1, <2>2, FetchEnds
<1>3. CASE fetch[o].value = Download!Expected(o)
  <2>1. PICK n \in Nat : n = Download!Expected(o) /\ n = fetch[o].value
    BY <1>3, FetchIs, DownloadIs
  <2>2. /\ file' = [bytes |-> [b \in DOMAIN file.bytes |->
                                 IF b \in o .. (o + n - 1) THEN o + (b - o) ELSE file.bytes[b]],
                    cursor |-> o + n, position |-> o + n]
        /\ fetch' = Download!Started([fetch EXCEPT ![o].pc = "done"]) /\ fetched' = fetched
    <3>1. (IF file.position = o THEN file.cursor ELSE o) = o
      BY <1>1
    <3> QED BY <1>3, <2>1, <3>1 DEF Download!Write, Download!CursorAfter
  <2>3. PICK g : g = [fetch EXCEPT ![o].pc = "done"]
    OBVIOUS
  <2>4. /\ g \in [Download!Offsets -> Fetches] /\ g[o].pc = "done"
        /\ \A x \in Download!Offsets \ {o} : g[x] = fetch[x]
    <3>1. PICK f \in Fetches : f = fetch[o]
      BY FetchIs, Zenon
    <3>2. [f EXCEPT !.pc = "done"] \in Fetches /\ [f EXCEPT !.pc = "done"].pc = "done"
      BY DEF Fetches, FetchSteps
    <3>3. g = [fetch EXCEPT ![o] = [f EXCEPT !.pc = "done"]]
      BY <2>3, <3>1
    <3> QED BY <3>2, <3>3, DownloadIs
  <2>5. /\ fetch' \in [Download!Offsets -> Fetches]
        /\ \A x \in Download!Offsets : fetch'[x] = g[x] \/ (g[x].pc = "idle" /\ fetch'[x].pc = "load")
        /\ (\E x \in Download!Offsets : g[x].pc = "idle") => \E x \in Download!Offsets : fetch'[x].pc = "load"
    <3>1. fetch' = Download!Started(g)
      BY <2>2, <2>3, Zenon
    <3> QED BY <2>4, <3>1, ChunkStarted
  <2>6. /\ DOMAIN file'.bytes = DOMAIN file.bytes /\ file'.cursor = o + n /\ file'.position = o + n
        /\ \A b \in DOMAIN file.bytes : file'.bytes[b] = IF b \in o .. (o + n - 1) THEN o + (b - o) ELSE file.bytes[b]
        /\ file' = [bytes |-> file'.bytes, cursor |-> file'.cursor, position |-> file'.position]
    BY <2>2
  <2>7. /\ Download!Size' = Download!Size /\ Download!Offsets' = Download!Offsets
        /\ \A x : Download!Expected(x)' = Download!Expected(x)
    BY <2>6, SizeStays
  <2>8. /\ file.bytes \in [0 .. (Download!Size - 1) -> Int] /\ DOMAIN file.bytes = 0 .. (Download!Size - 1)
        /\ Download!Size \in Nat /\ o \in Nat
    BY SizeKnown, FetchIs DEF DownloadInv
  <2>9. DownloadTypes'
    <3>1. file'.bytes \in [0 .. (Download!Size - 1) -> Int]
      <4>1. file'.bytes = [b \in 0 .. (Download!Size - 1) |->
                                 IF b \in o .. (o + n - 1) THEN o + (b - o) ELSE file.bytes[b]]
        BY <2>2, <2>8
      <4> QED BY <2>8, <4>1
    <3>2. o + n \in Int
      BY <2>8
    <3> QED BY <1>0, <2>2, <2>5, <2>6, <2>7, <2>8, <3>1, <3>2 DEF DownloadInv, DownloadTypes
  <2>10. ChunksWritten'
    <3>1. ASSUME NEW x \in Download!Offsets, fetch'[x].pc = "done",
                 NEW b \in x .. (x + Download!Expected(x) - 1)
          PROVE  file'.bytes[b] = b
      <4>1. x \in Nat /\ Download!Expected(x) \in Nat /\ x + Download!Expected(x) <= Download!Size
        BY FetchIs, DownloadIs
      <4>2. b \in DOMAIN file.bytes /\ b \in Int
        BY <2>8, <3>1, <4>1
      <4>3. CASE b \in o .. (o + n - 1)
        BY <2>6, <2>8, <4>2, <4>3
      <4>4. CASE b \notin o .. (o + n - 1)
        <5>1. x # o
          BY <2>1, <3>1, <4>4
        <5>2. fetch[x].pc = "done"
          BY <2>4, <2>5, <3>1, <5>1
        <5>3. file.bytes[b] = b
          BY <1>0, <3>1, <5>2 DEF DownloadInv, ChunksWritten
        <5> QED BY <2>6, <4>2, <4>4, <5>3
      <4> QED BY <4>3, <4>4
    <3>2. ASSUME NEW y \in Download!Offsets, fetch'[y].pc = "idle" PROVE Download!InFlight' # {}
      <4>1. g[y].pc = "idle"
        BY <2>5, <3>2
      <4>2. PICK x \in Download!Offsets : fetch'[x].pc = "load"
        BY <2>5, <4>1
      <4> QED BY <2>7, <4>2 DEF Download!InFlight
    <3> QED BY <1>0, <2>2, <2>6, <2>7, <3>1, <3>2 DEF ChunksWritten
  <2>11. RoutesKnown'
    <3>1. \A x \in Download!Offsets : fetch'[x].pc \in {"sent", "answered"} => fetch'[x] = fetch[x]
      BY <2>4, <2>5
    <3> QED BY <1>0, <2>7, <3>1 DEF DownloadInv, RoutesKnown
  <2>12. IterInOrder' /\ IterUnused'
    BY <1>0 DEF DownloadInv, IterInOrder, IterUnused
  <2> QED BY <2>9, <2>10, <2>11, <2>12 DEF DownloadInv
<1> QED BY <1>2, <1>3

LEMMA DownloadFlushes ==
    ASSUME DownloadInv, Download!Flush
    PROVE  DownloadInv'
<1>0. /\ mode = "chunks" /\ fetched = "running" /\ Download!InFlight = {} /\ fetched' = "ok"
      /\ UNCHANGED <<mode, fetch, route, fileDc, file, iter>>
  BY DEF Download!Flush
<1>1. /\ Download!Size' = Download!Size /\ Download!Offsets' = Download!Offsets
      /\ \A x : Download!Expected(x)' = Download!Expected(x)
  BY <1>0, SizeStays
<1>2. \A x \in Download!Offsets : fetch[x].pc = "done"
  BY <1>0 DEF DownloadInv, ChunksWritten, Download!InFlight
<1>3. DownloadTypes'
  BY <1>0, <1>1 DEF DownloadInv, DownloadTypes
<1>4. ChunksWritten'
  BY <1>0, <1>1, <1>2 DEF DownloadInv, ChunksWritten
<1>5. RoutesKnown' /\ IterInOrder' /\ IterUnused'
  BY <1>0, <1>1 DEF DownloadInv, RoutesKnown, IterInOrder, IterUnused
<1> QED BY <1>3, <1>4, <1>5 DEF DownloadInv

(* The disk fails: a download that has failed has nothing to show *)
LEMMA DiskFails ==
    ASSUME DownloadInv, Download!FlushFails \/ \E o \in Download!Offsets : Download!WriteFails(o)
    PROVE  DownloadInv' /\ route' = route
<1>1. CASE Download!FlushFails
  <2>1. /\ mode = "chunks" /\ fetched' = "error" /\ UNCHANGED <<mode, fetch, route, fileDc, file, iter>>
    BY <1>1 DEF Download!FlushFails
  <2>2. /\ Download!Size' = Download!Size /\ Download!Offsets' = Download!Offsets
    BY <2>1, SizeStays
  <2>3. DownloadTypes'
    BY <2>1, <2>2 DEF DownloadInv, DownloadTypes
  <2>4. ChunksWritten' /\ RoutesKnown' /\ IterInOrder' /\ IterUnused'
    BY <2>1, <2>2 DEF DownloadInv, ChunksWritten, RoutesKnown, IterInOrder, IterUnused
  <2> QED BY <2>1, <2>3, <2>4 DEF DownloadInv
<1>2. ASSUME NEW o \in Download!Offsets, Download!WriteFails(o) PROVE DownloadInv' /\ route' = route
  <2>1. /\ fetched = "running" /\ fetch[o].pc = "answered" /\ Download!Ends(o, "error")
        /\ UNCHANGED <<mode, route, fileDc, file, iter>>
    BY <1>2 DEF Download!WriteFails
  <2>2. Routed /\ (mode = "chunks" => route <= fileDc.at)
    BY <2>1 DEF Routed, DownloadInv, DownloadTypes, RoutesKnown
  <2> QED BY <2>1, <2>2, FetchEnds
<1> QED BY <1>1, <1>2

LEMMA FileMoves ==
    ASSUME DownloadInv, Download!MoveFile
    PROVE  DownloadInv'
<1>0. /\ fileDc' = [fileDc EXCEPT !.at = @ + 1]
      /\ UNCHANGED <<mode, fetch, route, file, iter, fetched>>
  BY DEF Download!MoveFile
<1>1. /\ Download!Size' = Download!Size /\ Download!Offsets' = Download!Offsets
      /\ Download!InFlight' = Download!InFlight
      /\ \A x : Download!Expected(x)' = Download!Expected(x)
  BY <1>0, SizeStays DEF Download!InFlight
<1>2. fileDc' \in [at : Int, authorized : SUBSET Int] /\ fileDc'.at = fileDc.at + 1 /\ fileDc.at \in Int
  <2>1. PICK n \in Int : n = fileDc.at + 1
    BY DownloadIs
  <2>2. fileDc' = [fileDc EXCEPT !.at = n] /\ fileDc \in [at : Int, authorized : SUBSET Int]
    BY <1>0, <2>1 DEF DownloadInv, DownloadTypes
  <2> QED BY <2>1, <2>2, DownloadIs
<1>3. DownloadTypes'
  BY <1>0, <1>1, <1>2 DEF DownloadInv, DownloadTypes
<1>4. ChunksWritten' /\ IterInOrder' /\ IterUnused'
  BY <1>0, <1>1 DEF DownloadInv, ChunksWritten, IterInOrder, IterUnused, Given, GivenWhole
<1>5. RoutesKnown'
  BY <1>0, <1>1, <1>2, FetchIs, DownloadIs DEF DownloadInv, RoutesKnown
<1> QED BY <1>3, <1>4, <1>5 DEF DownloadInv

(* A step of the iterator's caller or of the iterator: the other parts say nothing of it *)
LEMMA IterSteps ==
    ASSUME DownloadInv, mode # "chunks", UNCHANGED <<mode, file>>, fileDc' \in [at : Int, authorized : SUBSET Int],
           fetch' \in [Download!Offsets -> Fetches], route' \in Int, fetched' \in {"running", "ok", "error"},
           iter' \in [offset : Nat, done : BOOLEAN, dc : Int, out : Seq(Nat \X Int)],
           IterInOrder'
    PROVE  DownloadInv'
<1>1. Download!Offsets' = Download!Offsets
  BY SizeStays
<1>2. DownloadTypes'
  BY <1>1 DEF DownloadInv, DownloadTypes
<1>3. ChunksWritten' /\ RoutesKnown' /\ IterUnused'
  BY DEF ChunksWritten, RoutesKnown, IterUnused
<1> QED BY <1>2, <1>3 DEF DownloadInv

LEMMA IdleIs == Download!Idle \in Fetches /\ Download!Idle.pc = "idle"
BY TransfersAssumption DEF Download!Idle, Fetches, FetchSteps

LEMMA IterIs == ASSUME DownloadInv PROVE iter \in [offset : Nat, done : BOOLEAN, dc : Int, out : Seq(Nat \X Int)]
BY DEF DownloadInv, DownloadTypes

LEMMA IterCalled ==
    ASSUME DownloadInv, Download!CallNext
    PROVE  DownloadInv'
<1>0. /\ mode # "chunks" /\ ~iter.done /\ Download!InFlight = {} /\ iter.offset < Download!Size
      /\ route' = iter.dc /\ UNCHANGED <<mode, fileDc, file, iter, fetched>>
      /\ fetch' = [fetch EXCEPT ![iter.offset] = [Download!Idle EXCEPT !.pc = "load"]]
  BY DEF Download!CallNext
<1>1. iter.offset = Given * Chunk /\ Given \in Nat
  BY <1>0, DownloadIs DEF DownloadInv, IterInOrder, Given
<1>2. iter.offset \in Download!Offsets
  BY <1>0, <1>1, OffsetAt, DownloadIs
<1>3. PICK f \in Fetches : f = [Download!Idle EXCEPT !.pc = "load"] /\ f.pc = "load"
  <2>1. PICK g \in Fetches : g = Download!Idle
    BY IdleIs, Zenon
  <2>2. [g EXCEPT !.pc = "load"] \in Fetches /\ [g EXCEPT !.pc = "load"].pc = "load"
    BY DEF Fetches, FetchSteps
  <2> QED BY <2>1, <2>2, Zenon
<1>4. FetchBecomes(iter.offset, f)
  BY <1>0, <1>2, <1>3, FetchSet
<1>5. /\ Download!Size' = Download!Size /\ Download!Offsets' = Download!Offsets
      /\ \A x : Download!Expected(x)' = Download!Expected(x)
  BY <1>0, SizeStays
<1>6. IterInOrder'
  <2>1. \A x \in Download!Offsets : fetch'[x].pc \notin {"idle", "done"} => x = iter.offset
    BY <1>0, <1>4 DEF FetchBecomes, Download!InFlight
  <2> QED BY <1>0, <1>5, <2>1 DEF DownloadInv, IterInOrder, Given, GivenWhole
<1>7. fetched' \in {"running", "ok", "error"}
  BY <1>0 DEF DownloadInv, DownloadTypes
<1> QED BY <1>0, <1>4, <1>6, <1>7, IterSteps, IterIs, DownloadIs DEF FetchBecomes

LEMMA IterPastEnd ==
    ASSUME DownloadInv, Download!CallPastEnd
    PROVE  DownloadInv'
<1>0. /\ mode # "chunks" /\ Download!InFlight = {} /\ iter.offset >= Download!Size
      /\ UNCHANGED <<mode, fetch, route, file, fetched>>
  BY DEF Download!CallPastEnd
<1>01. PICK dc \in Int :
        /\ fileDc' = [fileDc EXCEPT !.authorized = @ \cup {dc}]
        /\ iter' = [iter EXCEPT !.dc = dc, !.done = TRUE] \/ iter' = [iter EXCEPT !.dc = dc]
  <2>1. PICK dc \in iter.dc .. fileDc.at :
          /\ fileDc' = [fileDc EXCEPT !.authorized = @ \cup {dc}]
          /\ iter' = [iter EXCEPT !.dc = dc, !.done = TRUE] \/ iter' = [iter EXCEPT !.dc = dc]
    BY DEF Download!CallPastEnd
  <2>2. dc \in Int
    BY <2>1, IterIs, DownloadIs
  <2> QED BY <2>1, <2>2
<1>02. fileDc' \in [at : Int, authorized : SUBSET Int]
  <2>1. fileDc \in [at : Int, authorized : SUBSET Int] /\ fileDc.authorized \cup {dc} \in SUBSET Int
    BY <1>01 DEF DownloadInv, DownloadTypes
  <2> QED BY <1>01, <2>1
<1>1. /\ Download!Size' = Download!Size /\ Download!Offsets' = Download!Offsets
      /\ \A x : Download!Expected(x)' = Download!Expected(x)
  BY <1>0, SizeStays
<1>2. /\ iter' \in [offset : Nat, done : BOOLEAN, dc : Int, out : Seq(Nat \X Int)]
      /\ iter'.offset = iter.offset /\ iter'.out = iter.out
  BY <1>01, IterIs
<1>3. Given \in Nat /\ iter.offset = Given * Chunk
  BY <1>0, DownloadIs DEF DownloadInv, IterInOrder, Given
<1>4. IterInOrder'
  <2>1. \A x \in Download!Offsets : fetch'[x].pc \in {"idle", "done"}
    BY <1>0 DEF Download!InFlight
  <2>2. Download!Size <= Given * Chunk
    BY <1>0, <1>3, DownloadIs
  <2> QED BY <1>0, <1>1, <1>2, <2>1, <2>2 DEF DownloadInv, IterInOrder, Given, GivenWhole
<1>5. fetched' \in {"running", "ok", "error"}
  BY <1>0 DEF DownloadInv, DownloadTypes
<1> QED BY <1>0, <1>02, <1>2, <1>4, <1>5, IterSteps, DownloadIs

(* Fetches are dropped, by an error or by the caller, and the iterator stands where it stood *)
LEMMA IterDrops ==
    ASSUME DownloadInv, mode # "chunks", UNCHANGED <<mode, route, file, fileDc>>,
           fetch' = [o \in Download!Offsets |-> Download!Idle], fetched' \in {"running", "ok", "error"},
           iter' = iter \/ iter' = [iter EXCEPT !.dc = route]
    PROVE  DownloadInv'
<1>1. /\ Download!Size' = Download!Size /\ Download!Offsets' = Download!Offsets
      /\ \A x : Download!Expected(x)' = Download!Expected(x)
  BY SizeStays
<1>2. /\ iter' \in [offset : Nat, done : BOOLEAN, dc : Int, out : Seq(Nat \X Int)]
      /\ iter'.offset = iter.offset /\ iter'.out = iter.out /\ iter'.done = iter.done
  BY IterIs, DownloadIs
<1>3. fetch' \in [Download!Offsets -> Fetches] /\ \A x \in Download!Offsets : fetch'[x].pc = "idle"
  BY IdleIs
<1>4. IterInOrder'
  BY <1>1, <1>2, <1>3 DEF DownloadInv, IterInOrder, Given, GivenWhole
<1> QED BY <1>2, <1>3, <1>4, IterSteps, DownloadIs
LEMMA IterFails == ASSUME DownloadInv, Download!NextFails PROVE DownloadInv'
BY IterDrops DEF Download!NextFails, Download!AfterError
LEMMA IterDropped == ASSUME DownloadInv, Download!Drop PROVE DownloadInv'
BY IterDrops DEF Download!Drop, Download!Fault, DownloadInv, DownloadTypes

LEMMA IterGives ==
    ASSUME DownloadInv, Download!Give
    PROVE  DownloadInv'
<1>0. /\ mode # "chunks" /\ Download!InFlight # {} /\ UNCHANGED <<mode, route, fileDc, file, fetched>>
  BY DEF Download!Give
<1>1. PICK o \in Download!Offsets : fetch[o].pc \notin {"idle", "done"}
  BY <1>0 DEF Download!InFlight
<1>2. o = iter.offset /\ ~iter.done /\ o = Given * Chunk
  BY <1>0, <1>1 DEF DownloadInv, IterInOrder
<1>3. PICK n \in Int : n = fetch[o].value
  BY FetchIs, Zenon
<1>4. PICK k \in Nat : k = Given
  <2>1. iter.out \in Seq(Nat \X Int)
    BY DownloadIs
  <2>2. Given \in Nat
    BY <2>1 DEF Given
  <2> QED BY <2>2, Zenon
<1>5. PICK e \in BOOLEAN : e = Download!IsLast(n)
  BY DEF Download!IsLast
<1>6. /\ iter' = [iter EXCEPT !.dc = route, !.done = e, !.out = Append(@, <<o, n>>), !.offset = @ + Chunk]
      /\ fetch' = [fetch EXCEPT ![o] = Download!Idle]
  BY <1>2, <1>3, <1>5 DEF Download!Give
<1>7. /\ o \in Nat /\ o < Download!Size /\ Download!Size \in Nat /\ Chunk \in Nat \ {0}
      /\ Download!Expected(o) \in 1 .. Chunk /\ o + Download!Expected(o) <= Download!Size
      /\ Download!Expected(o) = Chunk \/ o + Download!Expected(o) = Download!Size
  BY FetchIs, DownloadIs
<1>8. PICK out : out = Append(iter.out, <<o, n>>)
  OBVIOUS
<1>9. /\ out \in Seq(Nat \X Int) /\ Len(out) = k + 1
      /\ \A i \in 1 .. k : out[i] = iter.out[i]
      /\ out[k + 1] = <<o, n>>
  BY <1>4, <1>7, <1>8, DownloadIs DEF Given
<1>10. /\ iter' \in [offset : Nat, done : BOOLEAN, dc : Int, out : Seq(Nat \X Int)]
       /\ iter'.offset = o + Chunk /\ iter'.done = e /\ iter'.out = out
  <2>1. PICK at \in Nat, dc \in Int : at = iter.offset + Chunk /\ dc = route
    BY DownloadIs
  <2>2. iter' = [iter EXCEPT !.dc = dc, !.done = e, !.out = out, !.offset = at]
    BY <1>6, <1>8, <2>1, DownloadIs
  <2>3. /\ [iter EXCEPT !.dc = dc, !.done = e, !.out = out, !.offset = at]
              \in [offset : Nat, done : BOOLEAN, dc : Int, out : Seq(Nat \X Int)]
        /\ [iter EXCEPT !.dc = dc, !.done = e, !.out = out, !.offset = at].offset = at
        /\ [iter EXCEPT !.dc = dc, !.done = e, !.out = out, !.offset = at].done = e
        /\ [iter EXCEPT !.dc = dc, !.done = e, !.out = out, !.offset = at].out = out
    BY <1>9, IterIs
  <2> QED BY <1>2, <2>1, <2>2, <2>3
<1>11. FetchBecomes(o, Download!Idle)
  BY <1>6, FetchSet, IdleIs
<1>12. /\ Download!Size' = Download!Size /\ Download!Offsets' = Download!Offsets
       /\ \A x : Download!Expected(x)' = Download!Expected(x)
  BY <1>0, SizeStays
<1>13. IterInOrder'
  <2>1. \A x \in Download!Offsets : fetch'[x].pc \in {"idle", "done"}
    BY <1>0, <1>2, <1>11, IdleIs DEF FetchBecomes, DownloadInv, IterInOrder
  <2>2. (k + 1) * Chunk = k * Chunk + Chunk /\ (k + 1 - 1) * Chunk = k * Chunk
    BY <1>7
  <2>3. o = k * Chunk
    BY <1>2, <1>4
  <2>4. Given' = k + 1
    BY <1>9, <1>10 DEF Given
  <2>5. DOMAIN iter'.out = 1 .. (k + 1) /\ DOMAIN iter.out = 1 .. k
    BY <1>4, <1>9, <1>10, DownloadIs DEF Given
  <2>6. ASSUME NEW i \in DOMAIN iter'.out PROVE iter'.out[i][1] = (i - 1) * Chunk
    <3>1. CASE i = k + 1
      <4>1. iter'.out[i][1] = o
        BY <1>9, <1>10, <3>1
      <4> QED BY <2>2, <2>3, <3>1, <4>1
    <3>2. CASE i \in 1 .. k
      BY <1>0, <1>9, <1>10, <2>5, <3>2 DEF DownloadInv, IterInOrder
    <3> QED BY <2>5, <2>6, <3>1, <3>2
  <2>7. ASSUME iter'.done, GivenWhole' PROVE Download!Size <= (k + 1) * Chunk
    <3>1. n = Download!Expected(o)
      <4>1. k + 1 \in DOMAIN iter'.out
        BY <2>5
      <4>2. iter'.out[k + 1][1] = o /\ iter'.out[k + 1][2] = n
        BY <1>9, <1>10
      <4> QED BY <1>12, <2>7, <4>1, <4>2 DEF GivenWhole
    <3>2. n < Chunk \/ o + n >= Download!Size
      BY <1>2, <1>5, <1>10, <2>7 DEF Download!IsLast
    <3>3. Download!Size <= o + Chunk
      BY <1>7, <3>1, <3>2
    <3> QED BY <2>2, <2>3, <3>3
  <2>8. iter'.offset = (k + 1) * Chunk
    BY <1>10, <2>2, <2>3
  <2>9. (Given' - 1) * Chunk < Download!Size
    BY <1>7, <2>2, <2>3, <2>4
  <2> QED BY <1>12, <2>1, <2>4, <2>6, <2>7, <2>8, <2>9 DEF IterInOrder
<1>14. fetched' \in {"running", "ok", "error"}
  BY <1>0 DEF DownloadInv, DownloadTypes
<1> QED BY <1>0, <1>10, <1>11, <1>13, <1>14, IterSteps, DownloadIs DEF FetchBecomes

LEMMA DownloadBegins == Download!Init => DownloadInv
<1> SUFFICES ASSUME Download!Init PROVE DownloadInv
  OBVIOUS
<1>1. PICK n \in Sizes : file = [bytes |-> [b \in 0 .. (n - 1) |-> Download!Blank], cursor |-> 0, position |-> 0]
  BY DEF Download!Init
<1>2. n \in Nat /\ Chunk \in Nat \ {0} /\ Workers \in Nat \ {0}
  BY TransfersAssumption
<1>3. /\ file.bytes \in [0 .. (n - 1) -> Int] /\ file.cursor = 0 /\ file.position = 0
      /\ file = [bytes |-> file.bytes, cursor |-> file.cursor, position |-> file.position]
  BY <1>1, <1>2 DEF Download!Blank
<1>4. Download!Size = n
  BY <1>2, <1>3, SizeIs
<1>5. /\ mode \in {"chunks", "iter", "blind", "lost"} /\ route = 1 /\ fileDc = [at |-> 1, authorized |-> {1}]
      /\ iter = [offset |-> 0, done |-> FALSE, dc |-> 1, out |-> <<>>] /\ fetched = "running"
  BY DEF Download!Init
<1>6. PICK f \in Fetches : f = [Download!Idle EXCEPT !.pc = "load"] /\ f.pc = "load"
  <2>1. PICK g \in Fetches : g = Download!Idle
    BY IdleIs, Zenon
  <2>2. [g EXCEPT !.pc = "load"] \in Fetches /\ [g EXCEPT !.pc = "load"].pc = "load"
    BY DEF Fetches, FetchSteps
  <2> QED BY <2>1, <2>2, Zenon
<1>7. fetch = [o \in Download!Offsets |->
                 IF mode = "chunks" /\ o \in Download!FirstChunks THEN f ELSE Download!Idle]
  BY <1>6 DEF Download!Init
<1>8. fetch \in [Download!Offsets -> Fetches]
  BY <1>7, IdleIs
<1>9. \A o \in Download!Offsets :
        /\ fetch[o].pc \in {"idle", "load"}
        /\ fetch[o].pc = "load" <=> mode = "chunks" /\ o \in Download!FirstChunks
  BY <1>6, <1>7, IdleIs
<1>10. DownloadTypes
  <2>1. <<>> \in Seq(Nat \X Int)
    OBVIOUS
  <2>2. iter \in [offset : Nat, done : BOOLEAN, dc : Int, out : Seq(Nat \X Int)]
    BY <1>5, <2>1
  <2> QED BY <1>2, <1>3, <1>5, <1>8, <2>2 DEF DownloadTypes
<1>11. ASSUME mode = "chunks", NEW o \in Download!Offsets PROVE Download!InFlight # {}
  <2>1. 0 < n
    BY <1>2, <1>4, <1>11, OffsetIs
  <2>2. 0 * Chunk = 0 /\ 0 < Workers * Chunk
    <3>1. PICK v \in Nat : Workers = v + 1
      <4>1. Workers - 1 \in Nat /\ Workers = (Workers - 1) + 1
        BY <1>2
      <4> QED BY <4>1
    <3>2. Workers * Chunk = v * Chunk + Chunk /\ v * Chunk \in Nat
      BY <1>2, <3>1
    <3> QED BY <1>2, <3>2
  <2>3. 0 \in Download!Offsets
    <3>1. 0 * Chunk \in Download!Offsets
      BY <1>2, <1>4, <2>1, <2>2, OffsetAt
    <3> QED BY <2>2, <3>1
  <2>4. 0 \in Download!FirstChunks
    BY <2>2, <2>3 DEF Download!FirstChunks
  <2> QED BY <1>9, <1>11, <2>3, <2>4 DEF Download!InFlight
<1>12. ChunksWritten
  BY <1>3, <1>5, <1>9, <1>11 DEF ChunksWritten
<1>13. RoutesKnown
  BY <1>5, <1>9 DEF RoutesKnown
<1>14. IterInOrder /\ IterUnused
  <2>1. iter.out = <<>> /\ Len(iter.out) = 0 /\ ~iter.done /\ iter.offset = 0 /\ 0 * Chunk = 0 /\ DOMAIN iter.out = {}
    BY <1>2, <1>5
  <2> QED BY <1>9, <2>1 DEF IterInOrder, IterUnused, Given
<1> QED BY <1>10, <1>12, <1>13, <1>14 DEF DownloadInv

(* DownloadInv is inductive: whatever order chunks are answered in, and whatever is dropped,
   retried or moved meanwhile; and the shared datacenter only moves on *)
THEOREM DownloadInvariance ==
    ASSUME DownloadInv, Download!Next
    PROVE  DownloadInv' /\ Download!RouteMovesOn
<1>1. ASSUME NEW o \in Download!Offsets, Download!Step(o) PROVE DownloadInv' /\ Download!RouteMovesOn
  <2>1. fetched = "running"
    BY <1>1 DEF Download!Step
  <2>2. CASE Download!Migrated(o)
    BY <2>1, <2>2, FetchMigrates
  <2>3. CASE Download!Load(o)
    <3>1. DownloadInv'
      BY <2>1, <2>3, FetchLoads
    <3>2. route' = route
      BY <2>3 DEF Download!Load
    <3> QED BY <3>1, <3>2, DownloadIs DEF Download!RouteMovesOn
  <2>4. CASE Download!Answer(o)
    <3>1. DownloadInv'
      BY <2>1, <2>4, FetchIsAnswered
    <3>2. route' = route
      BY <2>4 DEF Download!Answer
    <3> QED BY <3>1, <3>2, DownloadIs DEF Download!RouteMovesOn
  <2>5. CASE Download!Unauthorized(o)
    <3>1. DownloadInv'
      BY <2>1, <2>5, FetchUnauthorized
    <3>2. route' = route
      BY <2>5 DEF Download!Unauthorized
    <3> QED BY <3>1, <3>2, DownloadIs DEF Download!RouteMovesOn
  <2>6. CASE Download!Authorize(o)
    <3>1. DownloadInv'
      BY <2>1, <2>6, FetchAuthorizes
    <3>2. route' = route
      BY <2>6 DEF Download!Authorize
    <3> QED BY <3>1, <3>2, DownloadIs DEF Download!RouteMovesOn
  <2>7. CASE Download!Failed(o)
    <3>1. DownloadInv'
      BY <2>1, <2>7, FetchFailed
    <3>2. route' = route
      BY <2>7 DEF Download!Failed
    <3> QED BY <3>1, <3>2, DownloadIs DEF Download!RouteMovesOn
  <2> QED BY <1>1, <2>2, <2>3, <2>4, <2>5, <2>6, <2>7 DEF Download!Step
<1>2. ASSUME NEW o \in Download!Offsets, Download!Write(o) PROVE DownloadInv' /\ Download!RouteMovesOn
  <2>1. DownloadInv'
    BY <1>2, ChunkIsWritten
  <2>2. route' = route
    BY <1>2 DEF Download!Write
  <2> QED BY <2>1, <2>2, DownloadIs DEF Download!RouteMovesOn
<1>3. CASE Download!Flush
  BY <1>3, DownloadFlushes, DownloadIs DEF Download!RouteMovesOn, Download!Flush
<1>10. CASE Download!FlushFails \/ \E o \in Download!Offsets : Download!WriteFails(o)
  BY <1>10, DiskFails, DownloadIs DEF Download!RouteMovesOn
<1>4. CASE Download!CallNext
  BY <1>4, IterCalled DEF Download!RouteMovesOn, Download!CallNext
<1>5. CASE Download!CallPastEnd
  BY <1>5, IterPastEnd DEF Download!RouteMovesOn, Download!CallPastEnd
<1>6. CASE Download!Give
  BY <1>6, IterGives DEF Download!RouteMovesOn, Download!Give
<1>7. CASE Download!NextFails
  BY <1>7, IterFails DEF Download!RouteMovesOn, Download!NextFails
<1>8. CASE Download!Drop
  BY <1>8, IterDropped DEF Download!RouteMovesOn, Download!Drop
<1>9. CASE Download!MoveFile
  BY <1>9, FileMoves, DownloadIs DEF Download!RouteMovesOn, Download!MoveFile
<1> QED BY <1>1, <1>2, <1>3, <1>4, <1>5, <1>6, <1>7, <1>8, <1>9, <1>10
    DEF Download!Next, Download!Chunked, Download!Caller

(* A download that succeeded has written every byte, since each lies in a chunk that is done;
   an iterator that ended has given as many chunks as the file has *)
THEOREM DownloadCorrect == DownloadInv => Download!WrittenWhole /\ Download!GivenInOrder
<1> SUFFICES ASSUME DownloadInv PROVE Download!WrittenWhole /\ Download!GivenInOrder
  OBVIOUS
<1>0. Download!Size \in Nat /\ Chunk \in Nat \ {0} /\ DOMAIN file.bytes = 0 .. (Download!Size - 1)
  BY SizeKnown, TransfersAssumption DEF DownloadInv
<1>1. Download!WrittenWhole
  <2> SUFFICES ASSUME mode = "chunks", fetched = "ok", NEW b \in DOMAIN file.bytes PROVE file.bytes[b] = b
    BY DEF Download!WrittenWhole
  <2>1. b \in Nat /\ b < Download!Size
    BY <1>0
  <2>2. PICK i \in Nat : i * Chunk <= b /\ b < i * Chunk + Chunk
    BY <1>0, <2>1, InChunk
  <2>3. PICK o \in Nat : o = i * Chunk
    BY <1>0
  <2>4. o \in Download!Offsets
    BY <1>0, <2>1, <2>2, <2>3, OffsetAt
  <2>5. b \in o .. (o + Download!Expected(o) - 1)
    BY <1>0, <2>1, <2>2, <2>3, <2>4, FetchIs
  <2> QED BY <2>4, <2>5 DEF DownloadInv, ChunksWritten
<1>2. Download!GivenInOrder
  <2>1. CASE mode = "chunks"
    <3>1. iter.out = <<>> /\ ~iter.done
      BY <2>1 DEF DownloadInv, IterUnused
    <3>2. DOMAIN iter.out = {}
      BY <3>1
    <3> QED BY <3>1, <3>2 DEF Download!GivenInOrder
  <2>2. CASE mode # "chunks"
    <3>1. \A i \in DOMAIN iter.out : iter.out[i][1] = (i - 1) * Chunk
      BY <2>2 DEF DownloadInv, IterInOrder
    <3>2. ASSUME iter.done, \A i \in DOMAIN iter.out : iter.out[i][2] = Download!Expected(iter.out[i][1])
          PROVE  Len(iter.out) = Cardinality(Download!Offsets)
      <4>1. PICK k \in Nat : k = Len(iter.out)
        BY DownloadIs
      <4>2. Download!Size <= k * Chunk /\ (k > 0 => (k - 1) * Chunk < Download!Size)
        BY <2>2, <3>2, <4>1 DEF DownloadInv, IterInOrder, Given, GivenWhole
      <4> DEFINE at == [i \in 0 .. (k - 1) |-> i * Chunk]
      <4>3. ASSUME NEW i \in 0 .. (k - 1) PROVE i * Chunk \in Download!Offsets
        <5>1. i * Chunk <= (k - 1) * Chunk
          <6>1. CASE i = k - 1
            BY <1>0, <6>1
          <6>2. CASE i < k - 1
            <7>1. i * Chunk + Chunk <= (k - 1) * Chunk
              BY <1>0, <4>3, <6>2, LessTimes
            <7> QED BY <1>0, <7>1
          <6> QED BY <4>3, <6>1, <6>2
        <5>2. i * Chunk < Download!Size
          BY <1>0, <4>2, <4>3, <5>1
        <5>3. i \in Nat
          BY <4>3
        <5> QED BY <1>0, <5>2, <5>3, OffsetAt
      <4>4. ASSUME NEW a \in 0 .. (k - 1), NEW b \in 0 .. (k - 1), a * Chunk = b * Chunk PROVE a = b
        <5>1. a < b => a * Chunk + Chunk <= b * Chunk
          BY <1>0, LessTimes
        <5>2. b < a => b * Chunk + Chunk <= a * Chunk
          BY <1>0, LessTimes
        <5>3. PICK p \in Nat : p = a * Chunk /\ p = b * Chunk
          BY <1>0, <4>4
        <5> QED BY <1>0, <5>1, <5>2, <5>3
      <4>5. ASSUME NEW o \in Download!Offsets PROVE \E i \in 0 .. (k - 1) : i * Chunk = o
        <5>1. PICK j \in Nat : o = j * Chunk
          BY <1>0, OffsetIs
        <5>2. o \in Nat /\ o < Download!Size
          BY <1>0, OffsetIs
        <5>3. j < k
          <6>1. k < j => k * Chunk + Chunk <= j * Chunk
            BY <1>0, LessTimes
          <6>2. PICK p \in Nat : p = k * Chunk
            BY <1>0
          <6>3. j # k
            BY <1>0, <4>2, <5>1, <5>2
          <6> QED BY <1>0, <4>2, <5>1, <5>2, <6>1, <6>2, <6>3
        <5> QED BY <5>1, <5>3
      <4>6. at \in Bijection(0 .. (k - 1), Download!Offsets)
        <5>1. at \in [0 .. (k - 1) -> Download!Offsets]
          BY <4>3
        <5>2. \A a, b \in 0 .. (k - 1) : at[a] = at[b] => a = b
          BY <4>4
        <5>3. \A o \in Download!Offsets : \E i \in 0 .. (k - 1) : at[i] = o
          BY <4>5
        <5> HIDE DEF at
        <5> QED BY <5>1, <5>2, <5>3, Fun_IsBij
      <4>7. IsFiniteSet(0 .. (k - 1)) /\ Cardinality(0 .. (k - 1)) = k
        <5>1. PICK m \in Int : m = k - 1
          OBVIOUS
        <5>2. IsFiniteSet(0 .. m) /\ Cardinality(0 .. m) = IF 0 > m THEN 0 ELSE m - 0 + 1
          BY FS_Interval
        <5> QED BY <5>1, <5>2
      <4>8. ExistsBijection(0 .. (k - 1), Download!Offsets)
        BY <4>6, Zenon DEF ExistsBijection
      <4>9. Cardinality(Download!Offsets) = Cardinality(0 .. (k - 1))
        BY <4>7, <4>8, FS_Bijection, Zenon
      <4> QED BY <4>1, <4>7, <4>9
    <3> QED BY <3>1, <3>2, ChunksCount DEF Download!GivenInOrder
  <2> QED BY <2>1, <2>2
<1> QED BY <1>1, <1>2

-----------------------------------------------------------------------------
(* SentMessages *)

(* Functions over the numbers may be defined by recursion: what a prefix gives is what
   every longer prefix gives *)
Prefix(S, a, g, n, h) ==
    h \in [0 .. n -> S] /\ h[0] = a /\ \A k \in Nat : k < n => h[k + 1] = g[<<h[k], k + 1>>]
LEMMA PrefixesAgree ==
    ASSUME NEW S, NEW a, NEW g, NEW n \in Nat, NEW m \in Nat, NEW h, NEW f,
           Prefix(S, a, g, n, h), Prefix(S, a, g, m, f)
    PROVE  \A k \in Nat : k <= n /\ k <= m => h[k] = f[k]
<1> DEFINE T == {k \in Nat : k <= n /\ k <= m => h[k] = f[k]}
<1>1. 0 \in T
  BY DEF Prefix
<1>2. ASSUME NEW k \in T PROVE k + 1 \in T
  <2>1. k \in Nat
    OBVIOUS
  <2>2. ASSUME k + 1 <= n, k + 1 <= m PROVE h[k + 1] = f[k + 1]
    <3>1. h[k] = f[k]
      BY <2>1, <2>2
    <3>2. h[k + 1] = g[<<h[k], k + 1>>] /\ f[k + 1] = g[<<f[k], k + 1>>]
      BY <2>1, <2>2 DEF Prefix
    <3> QED BY <3>1, <3>2
  <2> QED BY <2>1, <2>2
<1>3. T = Nat
  <2> HIDE DEF T
  <2>1. T \in SUBSET Nat
    BY DEF T
  <2> QED BY <1>1, <1>2, <2>1, Counting
<1> QED BY <1>3
LEMMA PrefixExists ==
    ASSUME NEW S, NEW a \in S, NEW g \in [S \X Nat -> S]
    PROVE  \A n \in Nat : \E h : Prefix(S, a, g, n, h)
<1> DEFINE T == {n \in Nat : \E h : Prefix(S, a, g, n, h)}
<1>1. 0 \in T
  <2>1. Prefix(S, a, g, 0, [k \in 0 .. 0 |-> a])
    BY DEF Prefix
  <2> QED BY <2>1
<1>2. ASSUME NEW n \in T PROVE n + 1 \in T
  <2>1. PICK h : Prefix(S, a, g, n, h)
    BY <1>2
  <2>2. n \in Nat
    BY <1>2
  <2> DEFINE f == [k \in 0 .. (n + 1) |-> IF k = n + 1 THEN g[<<h[n], n + 1>>] ELSE h[k]]
  <2>3. g[<<h[n], n + 1>>] \in S
    BY <2>1, <2>2 DEF Prefix
  <2>4. f \in [0 .. (n + 1) -> S] /\ f[0] = a
    BY <2>1, <2>2, <2>3 DEF Prefix
  <2>5. ASSUME NEW k \in Nat, k < n + 1 PROVE f[k + 1] = g[<<f[k], k + 1>>]
    <3>1. f[k] = h[k] /\ k \in 0 .. n
      BY <2>2, <2>5
    <3>2. CASE k = n
      <4>1. f[k + 1] = g[<<h[n], n + 1>>]
        BY <2>2, <3>2
      <4> QED BY <3>1, <3>2, <4>1, Zenon
    <3>3. CASE k # n
      <4>1. f[k + 1] = h[k + 1] /\ k < n
        BY <2>2, <2>5, <3>3
      <4>2. h[k + 1] = g[<<h[k], k + 1>>]
        BY <2>1, <4>1 DEF Prefix
      <4> QED BY <3>1, <4>1, <4>2, Zenon
    <3> QED BY <3>2, <3>3
  <2>6. Prefix(S, a, g, n + 1, f)
    BY <2>4, <2>5 DEF Prefix
  <2> QED BY <2>2, <2>6
<1>3. T = Nat
  <2> HIDE DEF T
  <2>1. T \in SUBSET Nat
    BY DEF T
  <2> QED BY <1>1, <1>2, <2>1, Counting
<1> QED BY <1>3
Recurses(S, a, g, f) == f \in [Nat -> S] /\ f[0] = a /\ \A k \in Nat : f[k + 1] = g[<<f[k], k + 1>>]
LEMMA Recursion ==
    ASSUME NEW S, NEW a \in S, NEW g \in [S \X Nat -> S]
    PROVE  \E f : Recurses(S, a, g, f)
<1> DEFINE P(n) == CHOOSE h : Prefix(S, a, g, n, h)
           f == [n \in Nat |-> P(n)[n]]
<1>1. ASSUME NEW n \in Nat PROVE Prefix(S, a, g, n, P(n))
  BY PrefixExists
<1>2. ASSUME NEW n \in Nat PROVE f[n] = P(n)[n]
  OBVIOUS
<1>3. f \in [Nat -> S]
  <2>1. ASSUME NEW n \in Nat PROVE P(n)[n] \in S
    <3>1. P(n) \in [0 .. n -> S]
      BY <1>1 DEF Prefix
    <3> HIDE DEF P
    <3> QED BY <3>1
  <2> HIDE DEF P
  <2> QED BY <2>1
<1> HIDE DEF P, f
<1>4. f[0] = a
  BY <1>1, <1>2 DEF Prefix
<1>5. ASSUME NEW k \in Nat PROVE f[k + 1] = g[<<f[k], k + 1>>]
  <2>1. f[k + 1] = g[<<P(k + 1)[k], k + 1>>]
    <3>1. k + 1 \in Nat /\ k < k + 1
      OBVIOUS
    <3>2. Prefix(S, a, g, k + 1, P(k + 1)) /\ f[k + 1] = P(k + 1)[k + 1]
      BY <1>1, <1>2, <3>1
    <3> QED BY <3>1, <3>2 DEF Prefix
  <2>2. P(k + 1)[k] = P(k)[k]
    <3>1. k + 1 \in Nat /\ k <= k + 1 /\ k <= k
      OBVIOUS
    <3>2. Prefix(S, a, g, k + 1, P(k + 1)) /\ Prefix(S, a, g, k, P(k))
      BY <1>1, <3>1
    <3> QED BY <3>1, <3>2, PrefixesAgree
  <2> QED BY <1>2, <2>1, <2>2
<1> QED BY <1>3, <1>4, <1>5 DEF Recurses

(* map_random_ids_to_messages: what is left, and what the inputs so far have got *)
Accs(C) == [left : SUBSET C, out : Seq(Nat)]
LEMMA MapNextIs ==
    ASSUME NEW C \in SUBSET Nat, IsFiniteSet(C), NEW x \in Accs(C), NEW i \in Nat
    PROVE  \/ /\ Sent!MapNext(x, i) = [left |-> x.left, out |-> Append(x.out, 0)]
              /\ ~(i \in answer.mapped /\ i \in x.left)
           \/ \E k \in x.left :
                /\ Sent!MapNext(x, i) = [left |-> x.left \ {k}, out |-> Append(x.out, k)]
                /\ i \in x.left => k = i
<1> DEFINE own == i \in answer.mapped /\ i \in x.left
           only == Sent!Cardinality(x.left) = 1
           id == CHOOSE k \in x.left : own => k = i
<1>1. CASE own \/ only
  <2>1. id \in x.left /\ (i \in x.left => id = i)
    <3>1. CASE own
      BY <3>1
    <3>2. CASE only
      <4>1. IsFiniteSet(x.left)
        BY FS_Subset DEF Accs
      <4>2. Cardinality(x.left) = 1
        BY <3>2 DEF Sent!Cardinality, Cardinality
      <4>3. PICK m : x.left = {m}
        BY <4>1, <4>2, FS_Singleton
      <4>4. \E k \in x.left : own => k = i
        BY <4>3
      <4> QED BY <4>3, <4>4
    <3> QED BY <1>1, <3>1, <3>2
  <2>2. id \in x.left /\ (i \in x.left => id = i)
    BY <2>1
  <2>3. Sent!MapNext(x, i) = [left |-> x.left \ {id}, out |-> Append(x.out, id)]
    BY <1>1 DEF Sent!MapNext, Sent!Taken
  <2> QED BY <2>2, <2>3
<1>2. CASE ~(own \/ only)
  <2>1. Sent!MapNext(x, i) = [x EXCEPT !.out = Append(@, 0)]
    BY <1>2 DEF Sent!MapNext, Sent!NoMessage
  <2>2. [x EXCEPT !.out = Append(@, 0)] = [left |-> x.left, out |-> Append(x.out, 0)]
    <3>1. PICK q : q = Append(x.out, 0)
      OBVIOUS
    <3>2. [x EXCEPT !.out = Append(@, 0)] = [x EXCEPT !.out = q]
      BY <3>1 DEF Accs
    <3>3. [x EXCEPT !.out = q] = [left |-> x.left, out |-> q]
      BY DEF Accs
    <3> QED BY <3>1, <3>2, <3>3, Zenon
  <2> QED BY <1>2, <2>1, <2>2
<1> QED BY <1>1, <1>2
LEMMA MapNextInAccs ==
    ASSUME NEW C \in SUBSET Nat, IsFiniteSet(C), NEW x \in Accs(C), NEW i \in Nat
    PROVE  Sent!MapNext(x, i) \in Accs(C)
<1>1. PICK l \in SUBSET C, o \in Seq(Nat) : x = [left |-> l, out |-> o]
  BY DEF Accs
<1>2. ASSUME NEW k \in Nat PROVE Append(o, k) \in Seq(Nat)
  OBVIOUS
<1>3. ASSUME NEW k \in Nat, NEW r \in SUBSET C PROVE [left |-> r, out |-> Append(o, k)] \in Accs(C)
  BY <1>2, Zenon DEF Accs
<1>4. x.left = l /\ x.out = o
  BY <1>1
<1>5. 0 \in Nat /\ \A k \in l : k \in Nat /\ l \ {k} \in SUBSET C
  OBVIOUS
<1>6. \/ Sent!MapNext(x, i) = [left |-> l, out |-> Append(o, 0)]
      \/ \E k \in l : Sent!MapNext(x, i) = [left |-> l \ {k}, out |-> Append(o, k)]
  <2>1. \/ /\ Sent!MapNext(x, i) = [left |-> x.left, out |-> Append(x.out, 0)]
           /\ ~(i \in answer.mapped /\ i \in x.left)
        \/ \E k \in x.left : /\ Sent!MapNext(x, i) = [left |-> x.left \ {k}, out |-> Append(x.out, k)]
                             /\ i \in x.left => k = i
    BY MapNextIs, Zenon
  <2> QED BY <1>4, <2>1, Zenon
<1> QED BY <1>3, <1>5, <1>6, Zenon

LEMMA MappingIs ==
    ASSUME created \in SUBSET Nat, IsFiniteSet(created)
    PROVE  /\ Sent!Mapping[0] = [left |-> created, out |-> <<>>]
           /\ \A n \in Nat : Sent!Mapping[n + 1] = Sent!MapNext(Sent!Mapping[n], n + 1)
<1>1. PICK C : C = created
  OBVIOUS
<1> DEFINE a == [left |-> C, out |-> <<>>]
           g == [p \in Accs(C) \X Nat |-> Sent!MapNext(p[1], p[2])]
           D(f) == [i \in Nat |-> IF i = 0 THEN [left |-> created, out |-> <<>>] ELSE Sent!MapNext(f[i - 1], i)]
<1>2. a \in Accs(C)
  BY DEF Accs
<1>3. g \in [Accs(C) \X Nat -> Accs(C)]
  BY <1>1, MapNextInAccs
<1>4. \A x \in Accs(C), n \in Nat : g[<<x, n>>] = Sent!MapNext(x, n)
  OBVIOUS
<1> HIDE DEF g
<1>5. PICK f \in [Nat -> Accs(C)] : f[0] = a /\ \A k \in Nat : f[k + 1] = g[<<f[k], k + 1>>]
  <2> HIDE DEF a
  <2>1. \E f : Recurses(Accs(C), a, g, f)
    BY <1>2, <1>3, Recursion
  <2> QED BY <2>1 DEF Recurses
<1>6. ASSUME NEW i \in Nat PROVE f[i] = D(f)[i]
  <2>1. CASE i = 0
    BY <1>1, <1>5, <2>1
  <2>2. CASE i # 0
    <3>1. PICK k \in Nat : k = i - 1 /\ i = k + 1
      BY <2>2
    <3>2. f[k + 1] = Sent!MapNext(f[k], k + 1)
      BY <1>4, <1>5, <3>1
    <3>3. D(f)[i] = Sent!MapNext(f[i - 1], i)
      BY <2>2
    <3> QED BY <3>1, <3>2, <3>3
  <2> QED BY <2>1, <2>2
<1>7. f = D(f)
  BY <1>6
<1>8. Sent!Mapping = CHOOSE h : h = D(h)
  BY Zenon DEF Sent!Mapping
<1>9. Sent!Mapping = D(Sent!Mapping)
  BY <1>7, <1>8, Zenon
<1> HIDE DEF D
<1>10. PICK m : m = Sent!Mapping
  OBVIOUS
<1>11. m = D(m)
  BY <1>9, <1>10, Zenon
<1>12. m[0] = [left |-> created, out |-> <<>>]
  BY <1>11 DEF D
<1>13. ASSUME NEW n \in Nat PROVE m[n + 1] = Sent!MapNext(m[n], n + 1)
  <2>1. n + 1 \in Nat /\ n + 1 # 0 /\ (n + 1) - 1 = n
    OBVIOUS
  <2>2. D(m)[n + 1] = Sent!MapNext(m[(n + 1) - 1], n + 1)
    BY <2>1 DEF D
  <2> QED BY <1>11, <2>1, <2>2
<1> QED BY <1>10, <1>12, <1>13, Zenon

(* After n inputs: one entry for each, no message for two of them and none that is left;
   and, when all became messages, each its own or none, and its own if its id is named *)
NoneMissing(C) == \A i \in C : \A j \in 1 .. i : j \in C
MapSound(C, n, x) ==
    /\ x \in Accs(C) /\ Len(x.out) = n
    /\ \A i \in 1 .. n : x.out[i] = 0 \/ x.out[i] \in C \ x.left
    /\ \A i, j \in 1 .. n : i # j /\ x.out[i] # 0 => x.out[i] # x.out[j]
    /\ NoneMissing(C) =>
         /\ \A i \in C : i > n => i \in x.left
         /\ \A i \in C : i <= n => x.out[i] \in {i, 0} /\ (i \in answer.mapped => x.out[i] = i)
LEMMA MapSoundNext ==
    ASSUME NEW C \in SUBSET (Nat \ {0}), IsFiniteSet(C), NEW n \in Nat, NEW x, MapSound(C, n, x)
    PROVE  MapSound(C, n + 1, Sent!MapNext(x, n + 1))
<1>1. PICK l \in SUBSET C, o \in Seq(Nat) : x = [left |-> l, out |-> o]
  BY DEF MapSound, Accs
<1>2. x.left = l /\ x.out = o /\ x \in Accs(C) /\ Len(o) = n /\ n + 1 \in Nat
  BY <1>1 DEF MapSound
<1>3. \/ /\ Sent!MapNext(x, n + 1) = [left |-> l, out |-> Append(o, 0)]
         /\ ~(n + 1 \in answer.mapped /\ n + 1 \in l)
      \/ \E k \in l : /\ Sent!MapNext(x, n + 1) = [left |-> l \ {k}, out |-> Append(o, k)]
                      /\ n + 1 \in l => k = n + 1
  <2>1. \/ /\ Sent!MapNext(x, n + 1) = [left |-> x.left, out |-> Append(x.out, 0)]
           /\ ~(n + 1 \in answer.mapped /\ n + 1 \in x.left)
        \/ \E k \in x.left : /\ Sent!MapNext(x, n + 1) = [left |-> x.left \ {k}, out |-> Append(x.out, k)]
                             /\ n + 1 \in x.left => k = n + 1
    <3>1. C \in SUBSET Nat
      OBVIOUS
    <3> QED BY <1>2, <3>1, MapNextIs, Zenon
  <2> QED BY <1>2, <2>1, Zenon
<1>4. /\ \A i \in 1 .. n : o[i] = 0 \/ o[i] \in C \ l
      /\ \A i, j \in 1 .. n : i # j /\ o[i] # 0 => o[i] # o[j]
      /\ NoneMissing(C) =>
           /\ \A i \in C : i > n => i \in l
           /\ \A i \in C : i <= n => o[i] \in {i, 0} /\ (i \in answer.mapped => o[i] = i)
  BY <1>2 DEF MapSound
<1>5. ASSUME NEW k \in Nat, NEW r \in SUBSET C,
             \/ k = 0 /\ r = l /\ ~(n + 1 \in answer.mapped /\ n + 1 \in l)
             \/ k \in l /\ r = l \ {k} /\ (n + 1 \in l => k = n + 1)
      PROVE  MapSound(C, n + 1, [left |-> r, out |-> Append(o, k)])
  <2>1. PICK q \in Seq(Nat) : q = Append(o, k) /\ Len(q) = n + 1 /\ q[n + 1] = k /\ \A i \in 1 .. n : q[i] = o[i]
    <3>1. /\ Append(o, k) \in Seq(Nat) /\ Len(Append(o, k)) = n + 1
          /\ Append(o, k)[n + 1] = k /\ \A i \in 1 .. n : Append(o, k)[i] = o[i]
      BY <1>2
    <3> QED BY <3>1, Zenon
  <2> DEFINE y == [left |-> r, out |-> q]
  <2>2. y \in Accs(C) /\ y.left = r /\ y.out = q
    BY DEF Accs
  <2> HIDE DEF y
  <2>3. ASSUME NEW i \in 1 .. (n + 1) PROVE q[i] = 0 \/ q[i] \in C \ r
    BY <1>4, <1>5, <2>1
  <2>4. ASSUME NEW i \in 1 .. (n + 1), NEW j \in 1 .. (n + 1), i # j, q[i] # 0 PROVE q[i] # q[j]
    <3>1. CASE i = n + 1
      <4>1. q[i] = k /\ k \in l /\ j \in 1 .. n /\ q[j] = o[j]
        BY <1>5, <2>1, <2>4, <3>1
      <4> QED BY <1>4, <4>1
    <3>2. CASE j = n + 1
      <4>1. q[j] = k /\ i \in 1 .. n /\ q[i] = o[i]
        BY <2>1, <2>4, <3>2
      <4> QED BY <1>4, <1>5, <2>4, <4>1
    <3>3. CASE i # n + 1 /\ j # n + 1
      <4>1. i \in 1 .. n /\ j \in 1 .. n
        BY <3>3
      <4> QED BY <1>4, <2>1, <2>4, <4>1
    <3> QED BY <3>1, <3>2, <3>3
  <2>5. ASSUME NoneMissing(C)
        PROVE  /\ \A i \in C : i > n + 1 => i \in r
               /\ \A i \in C : i <= n + 1 => q[i] \in {i, 0} /\ (i \in answer.mapped => q[i] = i)
    <3>1. ASSUME n + 1 \in C PROVE k \in {n + 1, 0} /\ (n + 1 \in answer.mapped => k = n + 1)
      <4>1. n + 1 \in l
        BY <1>4, <2>5, <3>1
      <4> QED BY <1>5, <4>1
    <3>2. ASSUME NEW i \in C, i > n + 1 PROVE i \in r
      <4>1. i \in l /\ i \in Nat
        BY <1>4, <2>5, <3>2
      <4>2. k # i
        <5>1. CASE n + 1 \in C
          BY <3>1, <3>2, <5>1
        <5>2. CASE n + 1 \notin C /\ k = i
          BY <2>5, <3>2, <5>2 DEF NoneMissing
        <5> QED BY <5>1, <5>2
      <4> QED BY <1>5, <4>1, <4>2
    <3>3. ASSUME NEW i \in C, i <= n + 1 PROVE q[i] \in {i, 0} /\ (i \in answer.mapped => q[i] = i)
      <4>1. CASE i = n + 1
        BY <2>1, <3>1, <4>1
      <4>2. CASE i # n + 1
        <5>1. i \in 1 .. n
          BY <3>3, <4>2
        <5> QED BY <1>4, <2>1, <2>5, <5>1
      <4> QED BY <4>1, <4>2
    <3> QED BY <3>2, <3>3
  <2>6. MapSound(C, n + 1, y)
    BY <2>1, <2>2, <2>3, <2>4, <2>5 DEF MapSound
  <2> QED BY <2>1, <2>6, Zenon DEF y
<1> QED BY <1>3, <1>5

LEMMA MappingSound ==
    ASSUME NEW C \in SUBSET (Nat \ {0}), IsFiniteSet(C), C = created
    PROVE  \A n \in Nat : MapSound(C, n, Sent!Mapping[n])
<1> DEFINE T == {n \in Nat : MapSound(C, n, Sent!Mapping[n])}
<1>0. /\ Sent!Mapping[0] = [left |-> created, out |-> <<>>]
      /\ \A n \in Nat : Sent!Mapping[n + 1] = Sent!MapNext(Sent!Mapping[n], n + 1)
  BY MappingIs
<1>1. 0 \in T
  <2>1. PICK y : y = [left |-> C, out |-> <<>>]
    OBVIOUS
  <2>2. y \in Accs(C) /\ y.left = C /\ y.out = <<>>
    BY <2>1 DEF Accs
  <2>3. \A i \in C : i > 0 /\ ~(i <= 0)
    OBVIOUS
  <2>4. MapSound(C, 0, y)
    BY <2>2, <2>3 DEF MapSound
  <2> QED BY <1>0, <2>1, <2>4
<1>2. ASSUME NEW n \in T PROVE n + 1 \in T
  <2>1. n \in Nat /\ MapSound(C, n, Sent!Mapping[n])
    OBVIOUS
  <2>2. MapSound(C, n + 1, Sent!MapNext(Sent!Mapping[n], n + 1))
    BY <2>1, MapSoundNext
  <2> QED BY <1>0, <2>1, <2>2
<1>3. T = Nat
  <2> HIDE DEF T
  <2>1. T \in SUBSET Nat
    BY DEF T
  <2> QED BY <1>1, <1>2, <2>1, Counting
<1> QED BY <1>3

(* The call, what Telegram made of it, and its answer.  Nothing was made before the request,
   and a call that failed had no answer. *)
SentSteps == {"start", "identity", "uploads", "request", "map", "done", "error", "dropped"}
Sendings == [method : {"message", "album", "forward"}, self : BOOLEAN, count : Nat \ {0}, pc : SentSteps,
             uploaded : Nat, result : Seq(Nat)]
Answers == [kind : {"none", "updates", "other", "short"}, mapped : SUBSET Nat]
SentTypes(s, c, a) ==
    /\ s \in Sendings /\ a \in Answers /\ c \subseteq 1 .. s.count
    /\ s.method = "message" => s.count = 1
    /\ a.kind = "short" => s.method = "message"
    /\ a.kind # "updates" => a.mapped = {}
MadeByRequest(s, c, a) ==
    /\ s.pc \in {"start", "identity", "uploads"} => c = {}
    /\ s.pc \in {"start", "identity", "uploads", "request", "error"} => a = Sent!NoAnswer
Result(r, n, c, a) ==
    /\ Len(r) = n
    /\ \A i, j \in 1 .. n : i # j /\ r[i] # 0 => r[i] # r[j]
    /\ c = 1 .. n => \A i \in 1 .. n : r[i] \in {i, 0} /\ (i \in a.mapped => r[i] = i)
OwnResult(s, c, a) == s.pc = "done" => Result(s.result, s.count, c, a)
SentInv ==
    /\ SentTypes(sending, created, answer) /\ MadeByRequest(sending, created, answer)
    /\ OwnResult(sending, created, answer)

LEMMA SentBegins == ASSUME Sent!Init PROVE SentInv
<1> USE SentAssumption
<1>1. sending \in Sendings /\ sending.pc = "start" /\ (sending.method = "message" => sending.count = 1)
  <2>1. \/ sending \in [method : {"message"}, self : BOOLEAN, count : {1}, pc : {"start"}, uploaded : {0}, result : {<<>>}]
        \/ sending \in [method : {"album", "forward"}, self : {FALSE}, count : 1 .. MaxInputs, pc : {"start"},
                        uploaded : {0}, result : {<<>>}]
    BY DEF Sent!Init
  <2>2. <<>> \in Seq(Nat) /\ 1 .. MaxInputs \subseteq Nat \ {0}
    OBVIOUS
  <2>3. sending = [method |-> sending.method, self |-> sending.self, count |-> sending.count, pc |-> sending.pc,
                   uploaded |-> sending.uploaded, result |-> sending.result]
    BY <2>1
  <2>4. /\ sending.method \in {"message", "album", "forward"} /\ sending.self \in BOOLEAN
        /\ sending.count \in {1} \cup 1 .. MaxInputs /\ (sending.method = "message" => sending.count = 1)
        /\ sending.pc = "start" /\ sending.uploaded = 0 /\ sending.result = <<>>
    BY <2>1
  <2>5. sending.count \in Nat \ {0} /\ sending.result \in Seq(Nat)
    BY <2>2, <2>4
  <2>6. sending \in Sendings
    <3>1. PICK m, f, n, e : m = sending.method /\ f = sending.self /\ n = sending.count /\ e = sending.result
      OBVIOUS
    <3>2. sending = [method |-> m, self |-> f, count |-> n, pc |-> "start", uploaded |-> 0, result |-> e]
      BY <2>3, <2>4, <3>1, Zenon
    <3>3. m \in {"message", "album", "forward"} /\ f \in BOOLEAN /\ n \in Nat \ {0} /\ e \in Seq(Nat)
      BY <2>4, <2>5, <3>1, Zenon
    <3>4. [method |-> m, self |-> f, count |-> n, pc |-> "start", uploaded |-> 0, result |-> e] \in Sendings
      BY <3>3 DEF Sendings, SentSteps
    <3> QED BY <3>2, <3>4, Zenon
  <2> QED BY <2>4, <2>6
<1>2. created = {} /\ answer = Sent!NoAnswer /\ answer \in Answers /\ answer.kind = "none" /\ answer.mapped = {}
  BY DEF Sent!Init, Sent!NoAnswer, Answers
<1> QED BY <1>1, <1>2 DEF SentInv, SentTypes, MadeByRequest, OwnResult

LEMMA SentGoes ==
    ASSUME SentInv, NEW pc \in SentSteps \ {"done"}, Sent!Go(pc), UNCHANGED <<created, answer>>,
           pc \in {"start", "identity", "uploads"} => created = {},
           pc \in {"start", "identity", "uploads", "request", "error"} => answer = Sent!NoAnswer
    PROVE  SentInv'
<1>1. sending \in Sendings
  BY DEF SentInv, SentTypes
<1>2. /\ sending' \in Sendings /\ sending'.pc = pc /\ sending'.count = sending.count
      /\ sending'.method = sending.method
  BY <1>1 DEF Sent!Go, Sendings
<1> QED BY <1>2 DEF SentInv, SentTypes, MadeByRequest, OwnResult, Sent!NoAnswer

LEMMA ResultIs ==
    ASSUME SentInv, Sent!Return
    PROVE  \E r \in Seq(Nat) :
              /\ sending' = [sending EXCEPT !.pc = "done", !.result = r]
              /\ Result(r, sending.count, created, answer)
<1>0. PICK n \in Nat \ {0} : n = sending.count
  BY DEF SentInv, SentTypes, Sendings
<1>1. /\ sending' = [sending EXCEPT !.pc = "done",
                       !.result = IF answer.kind = "short" THEN <<1>> ELSE Sent!MapRandomIds]
      /\ created \subseteq 1 .. n /\ (answer.kind = "short" => n = 1) /\ (answer.kind # "updates" => answer.mapped = {})
  BY <1>0 DEF SentInv, SentTypes, Sent!Return
<1>2. CASE answer.kind = "short"
  <2>1. <<1>> \in Seq(Nat) /\ Len(<<1>>) = 1 /\ <<1>>[1] = 1
    OBVIOUS
  <2>2. PICK r \in Seq(Nat) : r = <<1>> /\ Len(r) = 1 /\ r[1] = 1
    BY <2>1, Zenon
  <2>3. n = 1 /\ sending' = [sending EXCEPT !.pc = "done", !.result = r]
    BY <1>1, <1>2, <2>2, Zenon
  <2>4. \A i \in 1 .. n : i = 1
    BY <2>3
  <2>5. Result(r, n, created, answer)
    BY <2>2, <2>3, <2>4 DEF Result
  <2> QED BY <1>0, <2>3, <2>5, Zenon
<1>3. CASE answer.kind \notin {"short", "updates"}
  <2>1. [i \in 1 .. n |-> 0] \in Seq(Nat) /\ Len([i \in 1 .. n |-> 0]) = n
    OBVIOUS
  <2>2. PICK r \in Seq(Nat) : r = [i \in 1 .. n |-> 0] /\ Len(r) = n /\ \A i \in 1 .. n : r[i] = 0
    BY <2>1
  <2>3. Sent!MapRandomIds = r
    BY <1>0, <1>3, <2>2, Zenon DEF Sent!MapRandomIds, Sent!Inputs, Sent!NoMessage
  <2>4. sending' = [sending EXCEPT !.pc = "done", !.result = r]
    BY <1>1, <1>3, <2>3, Zenon
  <2>5. answer.mapped = {}
    BY <1>1, <1>3
  <2>6. Result(r, n, created, answer)
    BY <2>2, <2>5 DEF Result
  <2> QED BY <1>0, <2>4, <2>6, Zenon
<1>4. CASE answer.kind = "updates"
  <2>1. PICK C \in SUBSET (Nat \ {0}) : C = created /\ C \subseteq 1 .. n /\ IsFiniteSet(C)
    <3>1. created \in SUBSET (Nat \ {0})
      BY <1>1
    <3>2. IsFiniteSet(created)
      BY <1>1, FS_Interval, FS_Subset
    <3> QED BY <1>1, <3>1, <3>2, Zenon
  <2>2. MapSound(C, n, Sent!Mapping[n])
    BY <2>1, MappingSound
  <2>3. PICK x \in Accs(C) : x = Sent!Mapping[n] /\ MapSound(C, n, x)
    BY <2>2, Zenon DEF MapSound
  <2>4. x.out \in Seq(Nat) /\ Sent!MapRandomIds = x.out
    BY <1>0, <1>4, <2>3 DEF Accs, Sent!MapRandomIds
  <2>5. sending' = [sending EXCEPT !.pc = "done", !.result = x.out]
    BY <1>1, <1>4, <2>4, Zenon
  <2>6. Len(x.out) = n /\ \A i, j \in 1 .. n : i # j /\ x.out[i] # 0 => x.out[i] # x.out[j]
    BY <2>3 DEF MapSound
  <2>7. ASSUME created = 1 .. n
        PROVE  \A i \in 1 .. n : x.out[i] \in {i, 0} /\ (i \in answer.mapped => x.out[i] = i)
    <3>1. NoneMissing(C) /\ C = 1 .. n
      BY <2>1, <2>7 DEF NoneMissing
    <3> QED BY <2>3, <3>1 DEF MapSound
  <2>8. Result(x.out, n, created, answer)
    BY <2>6, <2>7 DEF Result
  <2> QED BY <1>0, <2>4, <2>5, <2>8, Zenon
<1> QED BY <1>2, <1>3, <1>4, Zenon

(* Every step of a call that sends keeps its invariant: messages exist only once the request
   was executed, a call fails only while it has no answer, and a result has no message twice
   and, when all inputs became messages, for each input its own or none *)
THEOREM SentInvariance == ASSUME SentInv, Sent!Next PROVE SentInv'
<1>0. sending \in Sendings /\ answer \in Answers
  BY DEF SentInv, SentTypes
<1>1. CASE Sent!Begin
  <2>1. Sent!Before \in SentSteps \ {"done"}
    BY DEF Sent!Before, SentSteps
  <2>2. created = {} /\ answer = Sent!NoAnswer /\ UNCHANGED <<created, answer>> /\ Sent!Go(Sent!Before)
    BY <1>1 DEF Sent!Begin, Sent!At, SentInv, MadeByRequest
  <2> QED BY <2>1, <2>2, SentGoes
<1>2. CASE Sent!Identify
  <2>1. Sent!Go("request") /\ answer = Sent!NoAnswer
    BY <1>2 DEF Sent!Identify, Sent!At, SentInv, MadeByRequest
  <2> QED BY <1>2, <2>1, SentGoes DEF Sent!Identify, SentSteps
<1>3. CASE Sent!Upload
  <2>1. PICK n \in Nat : n = sending.uploaded + 1
    BY <1>0 DEF Sendings
  <2>2. PICK pc \in {"uploads", "request"} : sending' = [sending EXCEPT !.uploaded = n, !.pc = pc]
    BY <1>0, <1>3, <2>1 DEF Sent!Upload, Sent!At, Sendings
  <2>3. /\ sending' \in Sendings /\ sending'.pc = pc /\ sending'.count = sending.count
        /\ sending'.method = sending.method
    BY <1>0, <2>2 DEF Sendings, SentSteps
  <2>4. created = {} /\ answer = Sent!NoAnswer /\ UNCHANGED <<created, answer>>
    BY <1>3 DEF Sent!Upload, Sent!At, SentInv, MadeByRequest
  <2> QED BY <2>3, <2>4 DEF SentInv, SentTypes, MadeByRequest, OwnResult
<1>4. CASE Sent!Execute
  <2>1. created' \subseteq 1 .. sending.count /\ sending.pc = "request" /\ UNCHANGED <<sending, answer>>
    BY <1>4 DEF Sent!Execute, Sent!At, Sent!Inputs
  <2> QED BY <2>1 DEF SentInv, SentTypes, MadeByRequest, OwnResult
<1>5. CASE Sent!Reply
  <2>1. /\ answer' \in Answers /\ (answer'.kind = "short" => sending.method = "message")
        /\ answer'.kind # "updates" => answer'.mapped = {}
    <3>1. created \in SUBSET Nat
      BY DEF SentInv, SentTypes
    <3>2. \/ \E m \in SUBSET created : answer' = [kind |-> "updates", mapped |-> m]
          \/ answer' = [kind |-> "other", mapped |-> {}]
          \/ sending.method = "message" /\ answer' = [kind |-> "short", mapped |-> {}]
      BY <1>5 DEF Sent!Reply
    <3>3. ASSUME NEW m \in SUBSET Nat, answer' = [kind |-> "updates", mapped |-> m]
          PROVE  answer' \in Answers /\ answer'.kind = "updates"
      BY <3>3 DEF Answers
    <3>4. ASSUME NEW k \in {"other", "short"}, answer' = [kind |-> k, mapped |-> {}]
          PROVE  answer' \in Answers /\ answer'.kind = k /\ answer'.mapped = {}
      BY <3>4 DEF Answers
    <3> QED BY <3>1, <3>2, <3>3, <3>4
  <2>2. sending' = [sending EXCEPT !.pc = "map"] /\ created' = created
    BY <1>5 DEF Sent!Reply, Sent!Go, Sent!After
  <2>3. /\ sending' \in Sendings /\ sending'.pc = "map" /\ sending'.count = sending.count
        /\ sending'.method = sending.method
    BY <1>0, <2>2 DEF Sendings, SentSteps
  <2> QED BY <2>1, <2>2, <2>3 DEF SentInv, SentTypes, MadeByRequest, OwnResult
<1>6. CASE Sent!Return
  <2>1. PICK r \in Seq(Nat) :
              /\ sending' = [sending EXCEPT !.pc = "done", !.result = r]
              /\ Result(r, sending.count, created, answer)
    BY <1>6, ResultIs, Zenon
  <2>2. /\ sending' \in Sendings /\ sending'.pc = "done" /\ sending'.count = sending.count
        /\ sending'.method = sending.method /\ sending'.result = r
    BY <1>0, <2>1 DEF Sendings, SentSteps
  <2>3. UNCHANGED <<created, answer>>
    BY <1>6 DEF Sent!Return
  <2> QED BY <2>1, <2>2, <2>3 DEF SentInv, SentTypes, MadeByRequest, OwnResult
<1>7. CASE Sent!Fail
  <2>1. UNCHANGED <<created, answer>>
    BY <1>7 DEF Sent!Fail
  <2>2. Sent!Go("dropped") \/ (Sent!Go("error") /\ answer = Sent!NoAnswer)
    BY <1>7 DEF Sent!Fail, Sent!At, SentInv, MadeByRequest
  <2> QED BY <2>1, <2>2, SentGoes DEF SentSteps
<1> QED BY <1>1, <1>2, <1>3, <1>4, <1>5, <1>6, <1>7 DEF Sent!Next

LEMMA SentFollows == ASSUME SentInv PROVE Sent!OwnMessage /\ Sent!DeliveredIsOk
BY DEF SentInv, MadeByRequest, OwnResult, Result, Sent!OwnMessage, Sent!DeliveredIsOk, Sent!At, Sent!Inputs, Sent!NoMessage

-----------------------------------------------------------------------------
(* Client *)

TransferInv ==
    /\ focus = "download" => DownloadInv
    /\ focus = "upload" => UploadInv
    /\ focus = "sent" => SentInv

LEMMA TransfersBegin == ClientInit => TransferInv
BY DownloadBegins, UploadBegins, SentBegins DEF ClientInit, TransferInv
LEMMA TransfersGoOn ==
    ASSUME TransferInv, [ClientNext]_clientVars
    PROVE  TransferInv' /\ (focus = "download" => Download!RouteMovesOn \/ UNCHANGED clientVars)
<1>1. CASE InDownload /\ Download!Next
  BY <1>1, DownloadInvariance DEF InDownload, TransferInv
<1>2. CASE InUpload /\ Upload!Next
  BY <1>2, UploadInvariance DEF InUpload, TransferInv
<1>3. CASE UNCHANGED clientVars
  <2>1. /\ UNCHANGED <<focus, mode, fetch, route, fileDc, file, iter, fetched, stream, parts, worker, saved, outcome>>
        /\ UNCHANGED <<sending, created, answer>>
    BY <1>3 DEF clientVars, transferVars, downloadVars, uploadVars, sentVars
  <2>2. DownloadInv => DownloadInv'
    <3>1. /\ Download!Size' = Download!Size /\ Download!Offsets' = Download!Offsets
          /\ Download!InFlight' = Download!InFlight
          /\ \A x : Download!Expected(x)' = Download!Expected(x)
      BY <2>1, SizeStays DEF Download!InFlight
    <3> QED BY <2>1, <3>1 DEF DownloadInv, DownloadTypes, ChunksWritten, RoutesKnown, IterInOrder, IterUnused,
                             Given, GivenWhole
  <2>3. UploadInv => UploadInv'
    <3>1. Upload!Limit' = Upload!Limit
      BY <2>1, LimitStays
    <3> QED BY <2>1, <3>1 DEF UploadInv, UploadTypes, ReaderHasLock, EndsWhenDone, Clean, StreamInStep, PartsWhole, EnoughRead
  <2>4. SentInv => SentInv'
    BY <2>1 DEF SentInv, SentTypes, MadeByRequest, OwnResult
  <2> QED BY <1>3, <2>1, <2>2, <2>3, <2>4 DEF TransferInv
<1>4. CASE focus \notin {"download", "upload", "sent"} /\ focus' = focus
  BY <1>4 DEF TransferInv
<1>5. CASE InSent /\ Sent!Next
  BY <1>5, SentInvariance DEF InSent, TransferInv
<1> QED BY <1>1, <1>2, <1>3, <1>4, <1>5 DEF ClientNext, InLife, InLogin, InSqlite, InCache

(* Transfers are intact for every size of files and chunks, number of workers, and sequence
   of faults, moves and dropped calls *)
THEOREM TransfersIntactCorrect == ClientSpec => TransfersIntact
<1>1. TransferInv => /\ focus = "download" => Download!WrittenWhole /\ Download!GivenInOrder
                     /\ focus = "upload" => Upload!StoredWhole
  BY DownloadCorrect, UploadCorrect DEF TransferInv
<1>2. TransferInv /\ [ClientNext]_clientVars => [focus = "download" => Download!RouteMovesOn]_clientVars
  BY TransfersGoOn
<1> QED BY <1>1, <1>2, TransfersBegin, TransfersGoOn, PTL DEF ClientSpec, TransfersIntact

(* For every number of inputs, answer of Telegram and fault: no message stands for two inputs,
   none has another's when all became messages, each has its own if the answer names it, and a
   call fails only while it has no answer *)
THEOREM SentIsReturnedCorrect == ClientSpec => []SentIsReturned
<1>1. TransferInv => SentIsReturned
  BY SentFollows DEF TransferInv, SentIsReturned
<1>2. TransferInv /\ [ClientNext]_clientVars => TransferInv'
  BY TransfersGoOn
<1> QED BY <1>1, <1>2, TransfersBegin, PTL DEF ClientSpec
=============================================================================
