----------------------------- MODULE ReplayIds ------------------------------
(***************************************************************************)
(* grammers-mtproto/src/mtp/replay.rs: the window of identifiers of server *)
(* messages, as offsets from a base in ascending order.  The arithmetic is *)
(* on small identifiers; OffsetLimit stands for 2^48.                      *)
(***************************************************************************)
EXTENDS Integers, Sequences, SequencesExt

CONSTANTS
    Capacity,       \* CAPACITY
    MaxAge,         \* MAX_AGE
    OffsetLimit     \* OFFSET_LIMIT

ASSUME ReplayAssumption ==
    /\ {Capacity, MaxAge, OffsetLimit} \subseteq Nat \ {0} /\ MaxAge < OffsetLimit

NoId == -1
EmptyWindow == [base |-> 0, offsets |-> <<>>]

Bigger(a, b) == IF a > b THEN a ELSE b
IdAt(w, i) == w.base + w.offsets[i]
Values(w) == {IdAt(w, i) : i \in DOMAIN w.offsets}
HasOffset(w, id) == id - w.base \in 0 .. OffsetLimit - 1

(* contains: the offset of the identifier is looked up *)
Holds(w, id) == HasOffset(w, id) /\ \E i \in DOMAIN w.offsets : w.offsets[i] = id - w.base

(* How many offsets at the front are below the limit: where the loop that pops them
   stops, and where binary_search finds the place of an offset *)
Below(offsets, limit) ==
    CHOOSE n \in 0 .. Len(offsets) :
        /\ \A i \in 1 .. n : offsets[i] < limit
        /\ n < Len(offsets) => offsets[n + 1] >= limit

(* The offset goes to its place in the order unless it is there *)
Inserted(offsets, offset) ==
    LET n == Below(offsets, offset)
    IN  IF n < Len(offsets) /\ offsets[n + 1] = offset THEN offsets
        ELSE InsertAt(offsets, n + 1, offset)

(* How many identifiers leave at the front: those that are too old, and another one
   when the rest is all the window holds *)
Leaving(w, oldest) ==
    LET aged == Below(w.offsets, oldest - w.base)
    IN  IF Len(w.offsets) - aged = Capacity THEN aged + 1 ELSE aged

(* The base moves up when an offset no longer fits, and the offsets down *)
FaultyRebased(offsets, base, oldest) == offsets
Rebased(offsets, base, oldest) == [i \in DOMAIN offsets |-> base + offsets[i] - oldest]

(* remember: the window with the identifier, and the highest one that left *)
Remember(w, id) ==
    LET size == Len(w.offsets)
        oldest == (IF size = 0 THEN id ELSE Bigger(IdAt(w, size), id)) - MaxAge
        gone == Leaving(w, oldest)
        kept == SubSeq(w.offsets, gone + 1, size)
    IN  IF id < oldest \/ (size = Capacity /\ id < IdAt(w, 1)) THEN [window |-> w, evicted |-> id]
        ELSE [window |-> IF kept # <<>> /\ HasOffset(w, id)
                         THEN [base |-> w.base, offsets |-> Inserted(kept, id - w.base)]
                         ELSE [base |-> oldest,
                               offsets |-> Inserted(Rebased(kept, w.base, oldest), id - oldest)],
              evicted |-> IF gone = 0 THEN NoId ELSE IdAt(w, gone)]
=============================================================================
