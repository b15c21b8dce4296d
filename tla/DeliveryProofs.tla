--------------------------- MODULE DeliveryProofs ---------------------------
(* Theorems about MessageBox that follow events: what was handed out, where the
   positions are, and when a recovery may be asked for again *)
EXTENDS MessageBoxProofs, FunctionTheorems

-----------------------------------------------------------------------------
(* The inductive invariant, beside that of MessageBoxProofs *)

Elements(s) == {s[i] : i \in DOMAIN s}

(* Events that a call in progress has still to hand out: those of a difference,
   whose position was taken over before its loop began *)
Handing == call.phase \in {"loop", "sort", "drain"}
Forced(e) == e.key \in call.force /\ e \in Elements(call.todo)
Owed(e) == Handing /\ (e \in call.msgs \/ Forced(e))

(* Events between the base of a position and the position *)
Pts(m, k) == m.entries[k].pts
Covered(e) == base[e.key] < e.pts /\ e.pts <= Pts(mb, e.key)

Accounted ==
    \A e \in Counted :
        /\ Owed(e) => Covered(e)
        /\ delivered[e] = IF Covered(e) /\ ~Owed(e) THEN 1 ELSE 0

(* A call hands out an event of a difference once *)
OwedOnce ==
    Handing =>
        /\ \A e \in call.msgs : ~Forced(e)
        /\ \A i, j \in DOMAIN call.todo :
              call.todo[i] \in Counted /\ call.todo[i].key \in call.force /\ call.todo[i] = call.todo[j] => i = j

(* Socket updates carry no events of a difference *)
Plain == call.after = "socket" => call.msgs = {} /\ call.force = {}

Based == \A k \in Keys : Known(mb, k) => base[k] <= Pts(mb, k)

(* Everything the client holds was published, and no position is beyond Telegram's *)
Gaps(m) == UNION {Elements(m.entries[k].gap) : k \in {j \in Keys : Known(m, j)}}
Carried(m, c) == Elements(m.held_updates) \cup Gaps(m) \cup Elements(c.todo) \cup Elements(c.built)
Behind ==
    /\ \A u \in Carried(mb, call) : u.pts <= srv[u.key]
    /\ \A k \in Keys : Pts(mb, k) <= srv[k]

(* Only a recovery whose delay is over is ready *)
PacedEntry(e) ==
    /\ e.notBefore <= NoUpdatesTimeout
    /\ e.pending /\ ~e.deferred => e.notBefore = 0
    /\ e.deferred => e.notBefore <= e.deadline
Delayed == \A k \in Keys : Known(mb, k) => PacedEntry(mb.entries[k])

-----------------------------------------------------------------------------
(* What sequences hold *)

LEMMA ElementsAre ==
    ASSUME NEW S, NEW s \in Seq(S)
    PROVE  Elements(s) = {s[i] : i \in 1 .. Len(s)} /\ Elements(s) \subseteq S
BY LenProperties, ElementOfSeq DEF Elements

LEMMA ElementsEmpty == Elements(<<>>) = {}
BY DEF Elements

LEMMA ElementsAppend ==
    ASSUME NEW S, NEW s \in Seq(S), NEW x \in S
    PROVE  Elements(Append(s, x)) = Elements(s) \cup {x}
<1>1. /\ Append(s, x) \in Seq(S) /\ Len(Append(s, x)) = Len(s) + 1 /\ Append(s, x)[Len(s) + 1] = x
      /\ \A i \in 1 .. Len(s) : Append(s, x)[i] = s[i]
  BY AppendProperties
<1>2. Len(s) \in Nat
  BY LenProperties
<1>3. Elements(Append(s, x)) = {Append(s, x)[i] : i \in 1 .. Len(s) + 1} /\ Elements(s) = {s[i] : i \in 1 .. Len(s)}
  BY <1>1, ElementsAre
<1>4. ASSUME NEW i \in 1 .. Len(s) + 1 PROVE Append(s, x)[i] \in Elements(s) \cup {x}
  <2>1. CASE i \in 1 .. Len(s)
    BY <1>1, <1>3, <2>1
  <2>2. CASE i = Len(s) + 1
    BY <1>1, <2>2
  <2> QED BY <1>2, <2>1, <2>2
<1>5. ASSUME NEW i \in 1 .. Len(s) PROVE s[i] \in Elements(Append(s, x))
  BY <1>1, <1>2, <1>3
<1>6. x \in Elements(Append(s, x))
  <2>1. Len(s) + 1 \in 1 .. Len(s) + 1
    BY <1>2
  <2> QED BY <1>1, <1>3, <2>1
<1> QED BY <1>3, <1>4, <1>5, <1>6

LEMMA ElementsTail ==
    ASSUME NEW S, NEW s \in Seq(S), s # <<>>
    PROVE  Head(s) \in Elements(s) /\ Elements(Tail(s)) \subseteq Elements(s) /\ Tail(s) \in Seq(S)
<1>1. Len(s) \in Nat /\ Len(s) > 0 /\ Elements(s) = {s[i] : i \in 1 .. Len(s)}
  BY ElementsAre, LenProperties, EmptySeq
<1>2. /\ Tail(s) \in Seq(S) /\ Len(Tail(s)) = Len(s) - 1 /\ \A i \in 1 .. Len(Tail(s)) : Tail(s)[i] = s[i + 1]
      /\ Head(s) = s[1]
  BY HeadTailProperties
<1>3. Elements(Tail(s)) = {Tail(s)[i] : i \in 1 .. Len(Tail(s))}
  BY <1>2, ElementsAre
<1>4. ASSUME NEW i \in 1 .. Len(Tail(s)) PROVE Tail(s)[i] \in Elements(s)
  <2>1. i + 1 \in 1 .. Len(s)
    BY <1>1, <1>2
  <2> QED BY <1>1, <1>2, <2>1
<1>5. 1 \in 1 .. Len(s)
  BY <1>1
<1> QED BY <1>1, <1>2, <1>3, <1>4, <1>5

LEMMA ElementsRemove ==
    ASSUME NEW S, NEW s \in Seq(S), NEW i \in DOMAIN s
    PROVE  Elements(RemoveIndex(s, i)) \subseteq Elements(s) /\ s[i] \in Elements(s)
<1> DEFINE r == RemoveIndex(s, i)
<1>1. r \in Seq(S) /\ Len(r) = Len(s) - 1 /\ \A j \in 1 .. Len(s) - 1 : r[j] = IF j < i THEN s[j] ELSE s[j + 1]
  BY RemoveIndexProps
<1>2. Len(s) \in Nat /\ DOMAIN s = 1 .. Len(s)
  BY LenProperties
<1> HIDE DEF r
<1>3. Elements(r) = {r[j] : j \in 1 .. Len(s) - 1} /\ Elements(s) = {s[j] : j \in 1 .. Len(s)}
  BY <1>1, ElementsAre
<1>4. ASSUME NEW j \in 1 .. Len(s) - 1 PROVE r[j] \in Elements(s)
  <2>1. j \in 1 .. Len(s) /\ j + 1 \in 1 .. Len(s)
    BY <1>2
  <2> QED BY <1>1, <1>3, <2>1
<1> QED BY <1>2, <1>3, <1>4 DEF r

LEMMA ElementsConcat ==
    ASSUME NEW S, NEW s \in Seq(S), NEW t \in Seq(S)
    PROVE  Elements(s \o t) = Elements(s) \cup Elements(t)
<1>1. /\ s \o t \in Seq(S) /\ Len(s \o t) = Len(s) + Len(t)
      /\ \A i \in 1 .. Len(s) + Len(t) : (s \o t)[i] = IF i <= Len(s) THEN s[i] ELSE t[i - Len(s)]
  BY ConcatProperties
<1>2. Len(s) \in Nat /\ Len(t) \in Nat
  BY LenProperties
<1>3. /\ Elements(s \o t) = {(s \o t)[i] : i \in 1 .. Len(s) + Len(t)}
      /\ Elements(s) = {s[i] : i \in 1 .. Len(s)} /\ Elements(t) = {t[i] : i \in 1 .. Len(t)}
  BY <1>1, ElementsAre
<1>4. ASSUME NEW i \in 1 .. Len(s) + Len(t) PROVE (s \o t)[i] \in Elements(s) \cup Elements(t)
  <2>1. CASE i <= Len(s)
    BY <1>1, <1>2, <1>3, <2>1
  <2>2. CASE ~(i <= Len(s))
    <3>1. i - Len(s) \in 1 .. Len(t)
      BY <1>2, <2>2
    <3> QED BY <1>1, <1>3, <2>2, <3>1
  <2> QED BY <2>1, <2>2
<1>5. ASSUME NEW i \in 1 .. Len(s) PROVE s[i] \in Elements(s \o t)
  <2>1. i \in 1 .. Len(s) + Len(t) /\ i <= Len(s)
    BY <1>2
  <2> QED BY <1>1, <1>3, <2>1
<1>6. ASSUME NEW i \in 1 .. Len(t) PROVE t[i] \in Elements(s \o t)
  <2>1. Len(s) + i \in 1 .. Len(s) + Len(t) /\ ~(Len(s) + i <= Len(s)) /\ (Len(s) + i) - Len(s) = i
    BY <1>2
  <2>2. (s \o t)[Len(s) + i] = t[i]
    BY <1>1, <2>1
  <2> QED BY <1>3, <2>1, <2>2
<1> QED BY <1>3, <1>4, <1>5, <1>6


-----------------------------------------------------------------------------
(* What the methods keep: the positions, the pacing of every entry, and that the
   struct holds nothing it did not hold before *)

Stock(m) == Elements(m.held_updates) \cup Gaps(m)
Same(m, n) ==
    \A k \in Keys :
        /\ Pts(n, k) = Pts(m, k)
        /\ Known(m, k) /\ PacedEntry(m.entries[k]) => PacedEntry(n.entries[k])
Keeps(m, n) == Same(m, n) /\ Stock(n) \subseteq Stock(m)

(* A sequence is known when its position is *)
LEMMA KnownPts ==
    ASSUME NEW m \in Box, NEW k \in Keys
    PROVE  /\ Known(m, k) => Pts(m, k) \in Nat
           /\ ~Known(m, k) => Pts(m, k) = -1
           /\ Pts(m, k) \in Int
BY KnownEntry DEF Pts, Known, NoEntry, Entry

LEMMA SameIsKnown ==
    ASSUME NEW m \in Box, NEW n \in Box, Same(m, n), NEW k \in Keys
    PROVE  Known(n, k) <=> Known(m, k)
<1>1. Pts(n, k) = Pts(m, k)
  BY DEF Same
<1> QED BY <1>1, KnownPts

LEMMA SameTrans ==
    ASSUME NEW a \in Box, NEW b \in Box, NEW c, Same(a, b), Same(b, c)
    PROVE  Same(a, c)
<1> SUFFICES ASSUME NEW k \in Keys
             PROVE  /\ Pts(c, k) = Pts(a, k)
                    /\ Known(a, k) /\ PacedEntry(a.entries[k]) => PacedEntry(c.entries[k])
  BY DEF Same
<1>1. Known(b, k) <=> Known(a, k)
  BY SameIsKnown
<1> QED BY <1>1 DEF Same

LEMMA KeepsTrans ==
    ASSUME NEW a \in Box, NEW b \in Box, NEW c, Keeps(a, b), Keeps(b, c)
    PROVE  Keeps(a, c)
BY SameTrans DEF Keeps

(* Entries left alone *)
LEMMA SameEntries ==
    ASSUME NEW m, NEW n, n.entries = m.entries
    PROVE  /\ Same(m, n) /\ Gaps(n) = Gaps(m)
           /\ Elements(n.held_updates) \subseteq Elements(m.held_updates) => Keeps(m, n)
BY DEF Same, Gaps, Known, Pts, Keeps, Stock

(* One entry replaced by one with the same position *)
LEMMA EntrySame ==
    ASSUME NEW m \in Box, NEW n, NEW k \in Keys, NEW e \in Entry, Known(m, k),
           n.entries = [m.entries EXCEPT ![k] = e], e.pts = Pts(m, k),
           PacedEntry(m.entries[k]) => PacedEntry(e)
    PROVE  Same(m, n) /\ Gaps(n) \subseteq Gaps(m) \cup Elements(e.gap)
<1>1. n.entries[k] = e /\ \A j \in Keys : j # k => n.entries[j] = m.entries[j]
  BY DEF Box
<1>2. Same(m, n)
  BY <1>1 DEF Same, Pts
<1>3. ASSUME NEW j \in Keys, Known(n, j)
      PROVE  Elements(n.entries[j].gap) \subseteq Gaps(m) \cup Elements(e.gap)
  <2>1. CASE j = k
    BY <1>1, <2>1
  <2>2. CASE j # k
    <3>1. Known(m, j) /\ n.entries[j] = m.entries[j]
      BY <1>1, <1>3, <2>2 DEF Known
    <3> QED BY <3>1 DEF Gaps
  <2> QED BY <2>1, <2>2
<1> QED BY <1>2, <1>3 DEF Gaps

(* The gap of a known sequence is in stock *)
LEMMA GapInStock ==
    ASSUME NEW m, NEW k \in Keys, Known(m, k)
    PROVE  Elements(m.entries[k].gap) \subseteq Stock(m)
BY DEF Stock, Gaps

LEMMA EntryKeeps ==
    ASSUME NEW m \in Box, NEW n, NEW k \in Keys, NEW e \in Entry, Known(m, k),
           n.entries = [m.entries EXCEPT ![k] = e], e.pts = Pts(m, k),
           PacedEntry(m.entries[k]) => PacedEntry(e),
           Elements(e.gap) \subseteq Stock(m),
           Elements(n.held_updates) \subseteq Stock(m)
    PROVE  Keeps(m, n)
<1>1. Same(m, n) /\ Gaps(n) \subseteq Gaps(m) \cup Elements(e.gap)
  BY EntrySame
<1> QED BY <1>1 DEF Keeps, Stock

(* hold_channel_update *)
LEMMA HoldElements ==
    ASSUME NEW m \in Box, NEW us \in Seq(Events)
    PROVE  LET n == HoldUpdates(m, us)
           IN  /\ n.entries = m.entries
               /\ Elements(n.held_updates) \subseteq Elements(m.held_updates) \cup Elements(us)
<1> DEFINE n == HoldUpdates(m, us)
           h == m.held_updates
<1>1. /\ n \in Box /\ n.entries = m.entries
      /\ \A i \in 1 .. Len(n.held_updates) :
           \/ \E j \in 1 .. Len(h) : n.held_updates[i] = h[j]
           \/ \E j \in 1 .. Len(us) : n.held_updates[i] = us[j]
  BY HoldUpdatesProps
<1> HIDE DEF n
<1>2. n.held_updates \in Seq(Events) /\ h \in Seq(Events)
  BY <1>1 DEF Box
<1>3. /\ Elements(n.held_updates) = {n.held_updates[i] : i \in 1 .. Len(n.held_updates)}
      /\ Elements(h) = {h[i] : i \in 1 .. Len(h)}
      /\ Elements(us) = {us[i] : i \in 1 .. Len(us)}
  BY <1>2, ElementsAre
<1> QED BY <1>1, <1>3 DEF n

(* A recovery begins with the entry b *)
LEMMA BeginKeeps ==
    ASSUME NEW m, Good(m), NEW k \in Keys, Known(m, k), ~Getting(m, k), NEW b \in Entry,
           b.gap = <<>>, b.pts = Pts(m, k), PacedEntry(m.entries[k]) => PacedEntry(b), NEW n,
           LET h == IF k \in Channels THEN HoldUpdates(m, m.entries[k].gap) ELSE m
               m1 == SetEntry(h, k, b)
           IN  n.entries = m1.entries /\ n.held_updates = m1.held_updates
    PROVE  Keeps(m, n)
<1> DEFINE h == IF k \in Channels THEN HoldUpdates(m, m.entries[k].gap) ELSE m
           m1 == SetEntry(h, k, b)
<1>1. m \in Box /\ m.entries[k].gap \in Seq(Events)
  BY KnownEntry DEF Good, Entry
<1>2. /\ h \in Box /\ h.entries = m.entries
      /\ Elements(h.held_updates) \subseteq Elements(m.held_updates) \cup Elements(m.entries[k].gap)
  BY <1>1, HoldElements, HoldUpdatesProps
<1> HIDE DEF h
<1>3. m1.entries = [m.entries EXCEPT ![k] = b] /\ m1.held_updates = h.held_updates
  BY <1>2 DEF SetEntry, Box
<1>4. n.entries = [m.entries EXCEPT ![k] = b] /\ n.held_updates = h.held_updates
  BY <1>3 DEF h
<1> HIDE DEF m1
<1>5. Elements(n.held_updates) \subseteq Stock(m) /\ Elements(b.gap) \subseteq Stock(m)
  BY <1>2, <1>4, GapInStock, ElementsEmpty DEF Stock
<1> QED BY <1>1, <1>4, <1>5, EntryKeeps


LEMMA TryBeginKeeps ==
    ASSUME NEW m, Good(m), NEW k \in Keys
    PROVE  Keeps(m, TryBeginGetDiff(m, k))
<1>0. m \in Box
  BY DEF Good
<1>1. CASE ~(Known(m, k) /\ ~Getting(m, k))
  BY <1>1, SameEntries DEF TryBeginGetDiff
<1>2. CASE Known(m, k) /\ ~Getting(m, k)
  <2> DEFINE e == m.entries[k]
             wait == e.notBefore > 0
             b == [e EXCEPT !.pending = TRUE, !.deferred = wait, !.deferrals = 0,
                            !.gap = <<>>, !.gapDeadline = 0,
                            !.deadline = IF wait THEN e.notBefore ELSE @]
             h == IF k \in Channels THEN HoldUpdates(m, e.gap) ELSE m
             m1 == SetEntry(h, k, b)
             n == TryBeginGetDiff(m, k)
  <2>1. e \in Entry /\ e.notBefore \in Nat
    BY <1>0, <1>2, KnownEntry DEF Entry
  <2>2. b \in Entry /\ b.gap = <<>> /\ b.pts = Pts(m, k) /\ (PacedEntry(e) => PacedEntry(b))
    <3>1. wait \in BOOLEAN /\ (~wait => e.notBefore = 0)
      BY <2>1
    <3> HIDE DEF wait
    <3>2. PICK z \in Seq(Events) : z = <<>>
      BY EmptySeq
    <3>3. b = [e EXCEPT !.pending = TRUE, !.deferred = wait, !.deferrals = 0,
                        !.gap = z, !.gapDeadline = 0,
                        !.deadline = IF wait THEN e.notBefore ELSE @]
      BY <3>2
    <3> HIDE DEF b
    <3>4. /\ b \in Entry /\ b.gap = z /\ b.deferred = wait /\ b.notBefore = e.notBefore
          /\ b.pts = e.pts /\ b.pending
          /\ b.deadline = IF wait THEN e.notBefore ELSE e.deadline
      BY <2>1, <3>1, <3>3 DEF Entry
    <3>5. PacedEntry(e) => PacedEntry(b)
      BY <2>1, <3>1, <3>4 DEF PacedEntry
    <3> QED BY <3>2, <3>4, <3>5 DEF Pts
  <2>3. n = IF wait THEN [m1 EXCEPT !.next_deadline = Min2(@, e.notBefore)]
                    ELSE Enqueue(m1, k)
    BY <1>2 DEF TryBeginGetDiff
  <2> HIDE DEF b, n, wait
  <2>4. h \in Box
    BY <1>0, <2>1, HoldUpdatesProps DEF Entry
  <2> HIDE DEF h
  <2>5. m1 \in Box
    BY <2>2, <2>4, SetEntryBox
  <2> HIDE DEF m1
  <2>6. n.entries = m1.entries /\ n.held_updates = m1.held_updates
    BY <2>3, <2>5 DEF Enqueue, Box
  <2> QED BY <1>2, <2>2, <2>6, BeginKeeps DEF m1, h, n
<1> QED BY <1>1, <1>2

LEMMA CheckDeadlineKeeps ==
    ASSUME NEW m, Good(m), NEW k \in Keys, Known(m, k) => PacedEntry(m.entries[k])
    PROVE  Keeps(m, CheckDeadline(m, k))
<1> DEFINE e == m.entries[k]
           due == Known(m, k) /\ e.deferred /\ e.deadline = 0
           start == Known(m, k) /\ ~e.pending /\ EffectiveDeadline(e) = 0
           n == CheckDeadline(m, k)
<1>0. m \in Box /\ (Known(m, k) => e \in Entry)
  BY KnownEntry DEF Good
<1>1. CASE due
  <2> DEFINE d == [e EXCEPT !.deferred = FALSE]
             m1 == SetEntry(m, k, d)
  <2>1. n = Enqueue(m1, k)
    BY <1>1 DEF CheckDeadline
  <2>2. d \in Entry /\ d.gap = e.gap /\ d.pts = e.pts /\ d.notBefore = e.notBefore /\ ~d.deferred
    BY <1>0, <1>1 DEF Entry
  <2>3. e.notBefore \in Nat /\ PacedEntry(e) /\ NoUpdatesTimeout \in Nat
    BY <1>0, <1>1, BoundsNat DEF Entry
  <2> HIDE DEF d
  <2>4. PacedEntry(d)
    BY <1>1, <2>2, <2>3 DEF PacedEntry
  <2>5. m1 \in Box /\ m1.entries = [m.entries EXCEPT ![k] = d] /\ m1.held_updates = m.held_updates
    BY <1>0, <2>2, SetEntryBox DEF SetEntry, Box
  <2> HIDE DEF m1
  <2>6. n.entries = [m.entries EXCEPT ![k] = d] /\ n.held_updates = m.held_updates
    BY <2>1, <2>5 DEF Enqueue, Box
  <2>7. Elements(d.gap) \subseteq Stock(m) /\ Elements(n.held_updates) \subseteq Stock(m)
    BY <1>1, <2>2, <2>6, GapInStock DEF Stock
  <2> HIDE DEF n
  <2> QED BY <1>0, <1>1, <2>2, <2>4, <2>6, <2>7, EntryKeeps DEF Pts, n
<1>2. CASE ~due /\ start
  <2> DEFINE b == [e EXCEPT !.gap = <<>>, !.gapDeadline = 0, !.deferred = FALSE,
                            !.pending = TRUE, !.deferrals = 0]
             h == IF k \in Channels THEN HoldUpdates(m, e.gap) ELSE m
             m1 == SetEntry(h, k, b)
  <2>1. n = Enqueue(m1, k)
    BY <1>2 DEF CheckDeadline
  <2>2. b \in Entry /\ b.gap = <<>> /\ b.pts = e.pts /\ PacedEntry(b)
    <3>1. PICK z \in Seq(Events) : z = <<>>
      BY EmptySeq
    <3>2. b = [e EXCEPT !.gap = z, !.gapDeadline = 0, !.deferred = FALSE,
                        !.pending = TRUE, !.deferrals = 0]
      BY <3>1
    <3> HIDE DEF b
    <3>3. b \in Entry /\ b.pts = e.pts /\ b.gap = z /\ ~b.deferred /\ b.notBefore = e.notBefore
      BY <1>0, <1>2, <3>2 DEF Entry
    <3>4. e.notBefore = 0
      BY <1>0, <1>2 DEF EffectiveDeadline, Max2, Min2, Entry
    <3>5. PacedEntry(b)
      BY <3>3, <3>4, BoundsNat DEF PacedEntry
    <3> QED BY <3>1, <3>3, <3>5
  <2> HIDE DEF b, n
  <2>3. h \in Box
    BY <1>0, <1>2, HoldUpdatesProps DEF Entry
  <2> HIDE DEF h
  <2>4. m1 \in Box
    BY <2>2, <2>3, SetEntryBox
  <2> HIDE DEF m1
  <2>5. n.entries = m1.entries /\ n.held_updates = m1.held_updates
    BY <2>1, <2>4 DEF Enqueue, Box
  <2>6. Known(m, k) /\ ~Getting(m, k)
    BY <1>2 DEF Getting
  <2> QED BY <2>2, <2>5, <2>6, BeginKeeps DEF m1, h, n, Pts
<1>3. CASE ~due /\ ~start
  BY <1>3, SameEntries DEF CheckDeadline
<1> QED BY <1>1, <1>2, <1>3

(* reset_deadline: a deferred recovery keeps its delay *)
LEMMA ResetDeadlineKeeps ==
    ASSUME NEW m \in Box, NEW k \in Keys, NEW d \in Nat,
           Known(m, k) => ~m.entries[k].deferred \/ d = NoUpdatesTimeout
    PROVE  LET n == ResetDeadline(m, k, d)
           IN  Keeps(m, n) /\ n.held_updates = m.held_updates
<1> DEFINE n == ResetDeadline(m, k, d)
           es == IF Known(m, k) THEN [m.entries EXCEPT ![k].deadline = d] ELSE m.entries
<1>1. n.entries = es /\ n.held_updates = m.held_updates
  BY DEF ResetDeadline, Box
<1> HIDE DEF n
<1>2. CASE ~Known(m, k)
  BY <1>1, <1>2, SameEntries DEF n
<1>3. CASE Known(m, k)
  <2>1. PICK e : e = [m.entries[k] EXCEPT !.deadline = d]
    OBVIOUS
  <2>2. m.entries[k] \in Entry
    BY <1>3, KnownEntry
  <2>3. /\ e \in Entry /\ e.pts = Pts(m, k) /\ e.gap = m.entries[k].gap /\ e.deadline = d
        /\ e.notBefore = m.entries[k].notBefore /\ e.pending = m.entries[k].pending
        /\ e.deferred = m.entries[k].deferred
    BY <2>1, <2>2 DEF Entry, Pts
  <2>4. n.entries = [m.entries EXCEPT ![k] = e]
    BY <1>1, <1>3, <2>1 DEF Box
  <2>5. PacedEntry(m.entries[k]) => PacedEntry(e)
    BY <1>3, <2>3 DEF PacedEntry
  <2>6. Elements(e.gap) \subseteq Stock(m) /\ Elements(n.held_updates) \subseteq Stock(m)
    BY <1>1, <1>3, <2>3, GapInStock DEF Stock
  <2>7. Keeps(m, n)
    BY <1>3, <2>3, <2>4, <2>5, <2>6, EntryKeeps
  <2> QED BY <1>1, <2>7 DEF n
<1> QED BY <1>2, <1>3

LEMMA TryEndKeeps ==
    ASSUME NEW m, Good(m), NEW k \in Keys
    PROVE  Keeps(m, TryEndGetDiff(m, k))
<1>0. m \in Box
  BY DEF Good
<1>1. CASE ~Getting(m, k)
  BY <1>1, SameEntries DEF TryEndGetDiff
<1>2. CASE Getting(m, k)
  <2> DEFINE e == m.entries[k]
             e2 == [e EXCEPT !.pending = FALSE, !.deferred = FALSE, !.deferrals = 0]
             m1 == IF e.deferred THEN m ELSE Dequeue(m, k)
             m2 == SetEntry(m1, k, e2)
             m3 == ResetDeadline(m2, k, NoUpdatesTimeout)
             n == TryEndGetDiff(m, k)
  <2>1. e \in Entry /\ Known(m, k)
    BY <1>0, <1>2, KnownEntry DEF Getting
  <2>2. e2 \in Entry /\ ~e2.deferred /\ ~e2.pending /\ e2.gap = e.gap /\ e2.pts = e.pts
        /\ e2.notBefore = e.notBefore
    BY <2>1 DEF Entry
  <2>3. n = [m3 EXCEPT !.held_release_ready = @ \/ k \in Channels]
    BY <1>2 DEF TryEndGetDiff
  <2> HIDE DEF e2, n
  <2>4. m1 \in Box
    <3>1. CASE e.deferred
      BY <1>0, <3>1
    <3>2. CASE ~e.deferred
      <4>1. m1 = Dequeue(m, k) /\ k \in Ready(m)
        BY <3>2, <1>2 DEF Ready
      <4> HIDE DEF m1
      <4> QED BY <4>1, <1>0, DequeueProps DEF Good
    <3> QED BY <3>1, <3>2
  <2>5. m1.entries = m.entries /\ m1.held_updates = m.held_updates
    BY <1>0 DEF Dequeue, Box
  <2> HIDE DEF m1
  <2>6. /\ m2 \in Box /\ m2.entries = [m.entries EXCEPT ![k] = e2]
        /\ m2.held_updates = m.held_updates
    BY <2>2, <2>4, <2>5, SetEntryBox DEF SetEntry, Box
  <2> HIDE DEF m2
  <2>7. Elements(e2.gap) \subseteq Stock(m) /\ Elements(m2.held_updates) \subseteq Stock(m)
    BY <2>1, <2>2, <2>6, GapInStock DEF Stock
  <2>8. PacedEntry(e) => PacedEntry(e2)
    BY <2>2 DEF PacedEntry
  <2>9. Keeps(m, m2)
    BY <1>0, <2>1, <2>2, <2>6, <2>7, <2>8, EntryKeeps DEF Pts
  <2>10. m3 \in Box /\ Keeps(m2, m3)
    BY <2>6, ResetDeadlineProps, ResetDeadlineKeeps, BoundsNat
  <2> HIDE DEF m3
  <2>11. n.entries = m3.entries /\ n.held_updates = m3.held_updates
    BY <2>3, <2>10 DEF Box
  <2>12. Keeps(m3, n)
    BY <2>11, SameEntries
  <2> QED BY <1>0, <2>6, <2>9, <2>10, <2>12, KeepsTrans DEF n
<1> QED BY <1>1, <1>2

(* Ending both account recoveries *)
LEMMA EndAccountKeeps ==
    ASSUME NEW m, Good(m)
    PROVE  Keeps(m, TryEndGetDiff(TryEndGetDiff(m, Common), Secondary))
<1> DEFINE m1 == TryEndGetDiff(m, Common)
           n == TryEndGetDiff(m1, Secondary)
<1>1. Good(m1) /\ Keeps(m, m1)
  BY TryEndGood, TryEndKeeps, ChannelsAreKeys
<1> HIDE DEF m1
<1>2. Keeps(m1, n)
  BY <1>1, TryEndKeeps, ChannelsAreKeys
<1> QED BY <1>1, <1>2, KeepsTrans DEF m1, Good


-----------------------------------------------------------------------------
(* How a step changes what a call still has to hand out *)

DInv == Accounted /\ OwedOnce /\ Plain /\ Based /\ Behind /\ Delayed

LEMMA RestElements ==
    ASSUME NEW S, NEW s \in Seq(S), NEW i \in DOMAIN s
    PROVE  LET r == RemoveIndex(s, i)
               from(j) == IF j < i THEN j ELSE j + 1
           IN  /\ \A j \in DOMAIN r : from(j) \in DOMAIN s /\ from(j) # i /\ r[j] = s[from(j)]
               /\ \A a, b \in DOMAIN r : from(a) = from(b) => a = b
               /\ \A j \in DOMAIN s : j # i => s[j] \in Elements(r)
               /\ Elements(r) \subseteq Elements(s)
<1> DEFINE r == RemoveIndex(s, i)
           from(j) == IF j < i THEN j ELSE j + 1
<1>1. r \in Seq(S) /\ Len(r) = Len(s) - 1 /\ \A j \in 1 .. Len(s) - 1 : r[j] = IF j < i THEN s[j] ELSE s[j + 1]
  BY RemoveIndexProps
<1>2. Len(s) \in Nat /\ DOMAIN s = 1 .. Len(s)
  BY LenProperties
<1> HIDE DEF r
<1>3. DOMAIN r = 1 .. Len(s) - 1
  BY <1>1, LenProperties
<1>4. Elements(r) = {r[j] : j \in 1 .. Len(s) - 1}
  BY <1>3 DEF Elements
<1>5. \A j \in DOMAIN r : from(j) \in DOMAIN s /\ from(j) # i /\ r[j] = s[from(j)]
  BY <1>1, <1>2, <1>3
<1>6. \A a, b \in DOMAIN r : from(a) = from(b) => a = b
  BY <1>2, <1>3
<1>7. ASSUME NEW j \in DOMAIN s, j # i
      PROVE  s[j] \in Elements(r)
  <2>1. CASE j < i
    BY <1>1, <1>2, <1>4, <1>7, <2>1
  <2>2. CASE ~(j < i)
    <3>1. j - 1 \in 1 .. Len(s) - 1 /\ ~(j - 1 < i) /\ (j - 1) + 1 = j
      BY <1>2, <1>7, <2>2
    <3>2. r[j - 1] = s[j]
      BY <1>1, <3>1
    <3> QED BY <1>4, <3>1, <3>2
  <2> QED BY <2>1, <2>2
<1>8. Elements(r) \subseteq Elements(s)
  BY ElementsRemove DEF r
<1> QED BY <1>5, <1>6, <1>7, <1>8 DEF r

(* No call hands anything out before or after the step *)
LEMMA NotHanding ==
    ASSUME ~Handing, ~Handing'
    PROVE  (\A e \in Counted : Owed(e)' <=> Owed(e)) /\ OwedOnce'
BY DEF Owed, OwedOnce

(* A call for socket updates owes nothing *)
LEMMA SocketOwes ==
    ASSUME call.msgs = {}, call.force = {}
    PROVE  \A e : ~Owed(e)
BY DEF Owed, Forced

LEMMA SocketOwesNext ==
    ASSUME call'.msgs = {}, call'.force = {}
    PROVE  (\A e : ~Owed(e)') /\ OwedOnce' /\ Plain'
BY DEF Owed, Forced, OwedOnce, Plain

(* The step leaves the list of a call alone *)
LEMMA SameHanding ==
    ASSUME Handing, Handing', call'.todo = call.todo, call'.force = call.force,
           call'.msgs = call.msgs, call'.after = call.after, OwedOnce, Plain
    PROVE  (\A e \in Counted : Owed(e)' <=> Owed(e)) /\ OwedOnce' /\ Plain'
<1>1. \A e : Forced(e)' <=> Forced(e)
  BY DEF Forced
<1>2. \A e : Owed(e)' <=> Owed(e)
  BY <1>1 DEF Owed
<1>3. OwedOnce'
  BY <1>1 DEF OwedOnce
<1> QED BY <1>2, <1>3 DEF Plain

(* The step takes one update off the list *)
LEMMA Dropped ==
    ASSUME call \in Call, call.phase = "loop", NEW i \in DOMAIN call.todo, OwedOnce, Plain,
           call'.phase \in {"loop", "sort"}, call'.todo = Rest(i), call'.force = call.force,
           call'.msgs = call.msgs, call'.after = call.after
    PROVE  /\ \A e \in Counted :
                Owed(e)' <=> Owed(e) /\ ~(e = call.todo[i] /\ e.key \in call.force)
           /\ OwedOnce' /\ Plain'
           /\ Elements(call'.todo) \subseteq Elements(call.todo)
<1> DEFINE s == call.todo
           r == Rest(i)
           from(j) == IF j < i THEN j ELSE j + 1
<1>1. s \in Seq(Updates)
  BY DEF Call
<1>2. /\ \A j \in DOMAIN r : from(j) \in DOMAIN s /\ from(j) # i /\ r[j] = s[from(j)]
      /\ \A a, b \in DOMAIN r : from(a) = from(b) => a = b
      /\ \A j \in DOMAIN s : j # i => s[j] \in Elements(r)
      /\ Elements(r) \subseteq Elements(s)
  BY <1>1, RestElements DEF Rest
<1> HIDE DEF r, s, from
<1>3. Handing /\ Handing' /\ call'.todo = r /\ call.todo = s /\ i \in DOMAIN s
  BY DEF Handing, r, s
<1>4. /\ \A e \in call.msgs : ~Forced(e)
      /\ \A a, b \in DOMAIN s : s[a] \in Counted /\ s[a].key \in call.force /\ s[a] = s[b] => a = b
  BY <1>3 DEF OwedOnce
<1>5. \A e : /\ Forced(e) <=> e.key \in call.force /\ e \in Elements(s)
             /\ Forced(e)' <=> e.key \in call.force /\ e \in Elements(r)
  BY <1>3 DEF Forced
<1>6. \A e : /\ Owed(e) <=> e \in call.msgs \/ Forced(e)
             /\ Owed(e)' <=> e \in call.msgs \/ Forced(e)'
  BY <1>3 DEF Owed
<1>7. \A e \in Elements(r) : \E j \in DOMAIN r : e = s[from(j)] /\ from(j) # i /\ from(j) \in DOMAIN s
  BY <1>2 DEF Elements
<1>8. \A e \in Elements(s) : e = s[i] \/ e \in Elements(r)
  BY <1>2 DEF Elements
<1>9. s[i] \in Elements(s)
  BY <1>3 DEF Elements
<1>10. ASSUME NEW e \in Counted
       PROVE  Owed(e)' <=> Owed(e) /\ ~(e = s[i] /\ e.key \in call.force)
  <2>1. ASSUME e = s[i], e.key \in call.force
        PROVE  ~Owed(e)'
    <3>1. e \notin call.msgs
      BY <1>4, <1>5, <1>9, <2>1
    <3>2. e \notin Elements(r)
      BY <1>3, <1>4, <1>7, <2>1
    <3> QED BY <1>5, <1>6, <3>1, <3>2
  <2>2. ASSUME ~(e = s[i] /\ e.key \in call.force)
        PROVE  Forced(e)' <=> Forced(e)
    BY <1>2, <1>5, <1>8, <2>2
  <2> QED BY <1>6, <2>1, <2>2
<1>11. \A e \in call.msgs : ~Forced(e)'
  BY <1>2, <1>4, <1>5
<1>12. ASSUME NEW a \in DOMAIN r, NEW b \in DOMAIN r, r[a] \in Counted, r[a].key \in call.force, r[a] = r[b]
       PROVE  a = b
  <2>1. from(a) = from(b)
    BY <1>2, <1>4, <1>12
  <2> QED BY <1>2, <2>1
<1>13. OwedOnce'
  BY <1>3, <1>11, <1>12 DEF OwedOnce
<1>14. Plain'
  BY DEF Plain
<1> QED BY <1>2, <1>3, <1>10, <1>13, <1>14 DEF s

(* A step that moves no position and hands nothing out *)
LEMMA QuietStep ==
    ASSUME Inv, DInv, Inv', Same(mb, mb'), Nothing, srv' = srv,
           \A e \in Counted : Owed(e)' <=> Owed(e), OwedOnce', Plain',
           \A u \in Carried(mb', call') : u \in Carried(mb, call) \/ u.pts <= srv[u.key]
    PROVE  DInv' /\ Forward /\ Frozen
<1>1. mb \in Box /\ mb' \in Box /\ base' = base /\ delivered' = delivered
  BY DEF Inv, TypeOK, Nothing
<1>2. \A k \in Keys : Pts(mb', k) = Pts(mb, k) /\ (Known(mb', k) <=> Known(mb, k))
  BY <1>1, SameIsKnown DEF Same
<1>3. \A e \in Counted : e.key \in Keys
  BY EventsAssumption DEF Counted
<1>4. \A e \in Counted : Covered(e)' <=> Covered(e)
  BY <1>1, <1>2, <1>3 DEF Covered
<1>5. Accounted'
  BY <1>1, <1>4 DEF DInv, Accounted
<1>6. Based'
  BY <1>1, <1>2 DEF DInv, Based
<1>7. Behind'
  BY <1>2 DEF DInv, Behind
<1>8. Delayed'
  BY <1>2 DEF DInv, Delayed, Same
<1>9. Forward /\ Frozen
  <2>1. \A k \in Keys : Known(mb, k) => mb'.entries[k].pts = mb.entries[k].pts /\ mb.entries[k].pts \in Nat
    BY <1>1, <1>2, KnownPts DEF Pts
  <2> QED BY <2>1 DEF Forward, Frozen
<1> QED BY <1>5, <1>6, <1>7, <1>8, <1>9 DEF DInv


(* A quiet step between calls *)
LEMMA IdleQuiet ==
    ASSUME Inv, DInv, Inv', call.phase = "idle", call' = call, Keeps(mb, mb'), Nothing, srv' = srv
    PROVE  DInv' /\ Forward /\ Frozen
<1>1. (\A e \in Counted : Owed(e)' <=> Owed(e)) /\ OwedOnce'
  BY NotHanding DEF Handing
<1>2. Plain'
  BY DEF DInv, Plain
<1>3. Carried(mb', call') \subseteq Carried(mb, call)
  BY DEF Carried, Keeps, Stock
<1>4. Same(mb, mb')
  BY DEF Keeps
<1> QED BY <1>1, <1>2, <1>3, <1>4, QuietStep

(* A quiet step that begins or ends a call with nothing on its lists *)
LEMMA EmptyQuiet ==
    ASSUME Inv, DInv, Inv', ~Handing, ~Handing', Keeps(mb, mb'), Nothing, srv' = srv,
           call'.todo = <<>>, call'.built = <<>>, call'.after # "socket" \/ (call'.msgs = {} /\ call'.force = {})
    PROVE  DInv' /\ Forward /\ Frozen
<1>1. (\A e \in Counted : Owed(e)' <=> Owed(e)) /\ OwedOnce'
  BY NotHanding
<1>2. Plain'
  BY DEF Plain
<1>3. Carried(mb', call') \subseteq Carried(mb, call)
  BY ElementsEmpty DEF Carried, Keeps, Stock
<1>4. Same(mb, mb')
  BY DEF Keeps
<1> QED BY <1>1, <1>2, <1>3, <1>4, QuietStep

LEMMA IdleFields ==
    /\ Idle.phase = "idle" /\ Idle.todo = <<>> /\ Idle.built = <<>>
    /\ Idle.msgs = {} /\ Idle.force = {} /\ Idle.after = "socket"
BY DEF Idle

LEMMA BeginLoopFields ==
    ASSUME NEW us, NEW K, NEW q
    PROVE  LET n == BeginLoop(us, K, q)
           IN  /\ n.phase = "loop" /\ n.todo = us /\ n.built = <<>>
               /\ n.msgs = {} /\ n.force = K /\ n.after = "socket"
BY DEF BeginLoop, Idle

(* What Telegram may send was published *)
LEMMA OfferedBehind ==
    ASSUME TypeOK
    PROVE  \A u \in Offered : u.pts <= srv[u.key]
<1>1. \A k \in Keys : srv[k] \in Nat
  BY DEF TypeOK
<1>2. FreeUpdate.pts = 0 /\ FreeUpdate.key = Common
  BY DEF FreeUpdate, Update
<1>3. ASSUME NEW c \in Channels, NEW p \in {0, srv[c]}
      PROVE  TooLong(c, p).pts <= srv[TooLong(c, p).key]
  <2>1. TooLong(c, p).pts = p /\ TooLong(c, p).key = c
    BY DEF TooLong, Update
  <2> QED BY <1>1, <2>1, ChannelsAreKeys
<1> QED BY <1>1, <1>2, <1>3, ChannelsAreKeys DEF Offered

LEMMA ProcessGapDelivers ==
    ASSUME Inv, DInv, Inv', ProcessGap
    PROVE  DInv' /\ Forward /\ Frozen
<1>1. call.phase = "idle" /\ call' = call /\ srv' = srv /\ Nothing /\ mb' = TryBeginGetDiff(mb, Common)
  BY DEF ProcessGap
<1>2. Keeps(mb, mb')
  BY <1>1, IdleGood, TryBeginKeeps, ChannelsAreKeys
<1> QED BY <1>1, <1>2, IdleQuiet

LEMMA ProcessUpdatesDelivers ==
    ASSUME NEW us, NEW seqStart, NEW seq, NEW valid, \A u \in Elements(us) : u.pts <= srv[u.key],
           Inv, DInv, Inv', ProcessUpdates(us, seqStart, seq, valid)
    PROVE  DInv' /\ Forward /\ Frozen
<1>1. /\ call.phase = "idle" /\ srv' = srv /\ Nothing
      /\ mb' = TryBeginGetDiff(mb, Common) \/ mb' = mb
      /\ call' = Idle \/ \E q : call' = BeginLoop(us, {}, q)
  BY DEF ProcessUpdates
<1>2. Keeps(mb, mb')
  BY <1>1, IdleGood, TryBeginKeeps, ChannelsAreKeys, SameEntries
<1>3. call'.msgs = {} /\ call'.force = {} /\ call'.built = <<>> /\ (call'.todo = us \/ call'.todo = <<>>)
  BY <1>1, IdleFields, BeginLoopFields
<1>4. (\A e : ~Owed(e)') /\ OwedOnce' /\ Plain'
  BY <1>3, SocketOwesNext
<1>5. \A e : ~Owed(e)
  BY <1>1 DEF Owed, Handing
<1>6. \A u \in Carried(mb', call') : u \in Carried(mb, call) \/ u.pts <= srv[u.key]
  BY <1>2, <1>3, ElementsEmpty DEF Carried, Keeps, Stock
<1>7. Same(mb, mb')
  BY <1>2 DEF Keeps
<1> QED BY <1>1, <1>4, <1>5, <1>6, <1>7, QuietStep

LEMMA TakeReleasedUpdatesDelivers ==
    ASSUME Inv, DInv, Inv', TakeReleasedUpdates
    PROVE  DInv' /\ Forward /\ Frozen
<1>1. /\ call.phase = "idle" /\ srv' = srv /\ Nothing
      /\ mb' = [mb EXCEPT !.held_release_ready = FALSE, !.held_overflowed = FALSE]
      /\ call' = [BeginLoop(<<>>, {}, mb.seq) EXCEPT !.phase = "release", !.left = Len(mb.held_updates)]
  BY DEF TakeReleasedUpdates
<1>2. mb'.entries = mb.entries /\ mb'.held_updates = mb.held_updates
  BY <1>1, IdleGood DEF Box
<1>3. Keeps(mb, mb')
  BY <1>2, SameEntries
<1>4. /\ call'.phase = "release" /\ call'.todo = <<>> /\ call'.built = <<>>
      /\ call'.msgs = {} /\ call'.force = {}
  BY <1>1 DEF BeginLoop, Idle
<1>5. ~Handing /\ ~Handing'
  BY <1>1, <1>4 DEF Handing
<1> QED BY <1>1, <1>3, <1>4, <1>5, EmptyQuiet

LEMMA CheckDeadlinesDelivers ==
    ASSUME Inv, DInv, Inv', CheckDeadlines
    PROVE  DInv' /\ Forward /\ Frozen
<1>1. /\ call.phase = "idle" /\ srv' = srv /\ Nothing /\ mb' = mb
      /\ call' = [Idle EXCEPT !.phase = "deadlines", !.keys = Keys]
  BY DEF CheckDeadlines
<1>2. Keeps(mb, mb')
  BY <1>1, SameEntries
<1>3. call'.phase = "deadlines" /\ call'.todo = <<>> /\ call'.built = <<>> /\ call'.msgs = {} /\ call'.force = {}
  BY <1>1 DEF Idle
<1>4. ~Handing /\ ~Handing'
  BY <1>1, <1>3 DEF Handing
<1> QED BY <1>1, <1>2, <1>3, <1>4, EmptyQuiet

LEMMA EmptyDifferenceDelivers ==
    ASSUME Inv, DInv, Inv', EmptyDifference
    PROVE  DInv' /\ Forward /\ Frozen
<1> DEFINE m1 == [mb EXCEPT !.seq = srvSeq]
<1>1. /\ call.phase = "idle" /\ call' = call /\ srv' = srv /\ Nothing
      /\ mb' = TryEndGetDiff(TryEndGetDiff(m1, Common), Secondary)
  BY DEF EmptyDifference, AccountDiffWanted
<1>2. Good(mb) /\ mb \in Box /\ srvSeq \in Nat
  BY <1>1, IdleGood DEF Inv, TypeOK
<1>3. Good(m1) /\ m1.entries = mb.entries /\ m1.held_updates = mb.held_updates
  BY <1>2, SetSeqGood
<1> HIDE DEF m1
<1>4. Keeps(mb, m1) /\ Keeps(m1, mb') /\ m1 \in Box
  BY <1>1, <1>3, SameEntries, EndAccountKeeps DEF Good
<1>5. Keeps(mb, mb')
  BY <1>2, <1>4, KeepsTrans
<1> QED BY <1>1, <1>5, IdleQuiet

LEMMA RetryChannelWithoutDelayDelivers ==
    ASSUME NEW c \in Channels, Inv, DInv, Inv', RetryChannelWithoutDelay(c)
    PROVE  DInv' /\ Forward /\ Frozen
<1> DEFINE e == mb.entries[c]
           e1 == [e EXCEPT !.failures = Max2(@ - 1, 0), !.notBefore = 0, !.gapDeadline = 0]
           m1 == SetEntry(mb, c, e1)
<1>1. /\ call.phase = "idle" /\ call' = call /\ srv' = srv /\ Nothing
      /\ Known(mb, c) /\ ~Getting(mb, c)
      /\ mb' = [m1 EXCEPT !.next_deadline = IF e.gap = <<>> THEN @ ELSE 0]
  BY DEF RetryChannelWithoutDelay
<1>2. Good(mb) /\ mb \in Box /\ c \in Keys /\ e \in Entry
  BY <1>1, IdleGood, ChannelsAreKeys, KnownEntry
<1>3. /\ e1 \in Entry /\ e1.pts = e.pts /\ e1.gap = e.gap /\ e1.notBefore = 0
      /\ e1.deferred = e.deferred /\ e1.deadline = e.deadline
  <2>1. Max2(e.failures - 1, 0) \in Nat
    BY <1>2 DEF Entry, Max2
  <2> QED BY <1>2, <2>1 DEF Entry
<1> HIDE DEF e1
<1>4. PacedEntry(e1)
  BY <1>2, <1>3, BoundsNat DEF PacedEntry, Entry
<1>5. m1 \in Box /\ m1.entries = [mb.entries EXCEPT ![c] = e1] /\ m1.held_updates = mb.held_updates
  BY <1>2, <1>3, SetEntryBox DEF SetEntry, Box
<1> HIDE DEF m1
<1>6. mb'.entries = [mb.entries EXCEPT ![c] = e1] /\ mb'.held_updates = mb.held_updates
  BY <1>1, <1>5 DEF Box
<1>7. Elements(e1.gap) \subseteq Stock(mb) /\ Elements(mb'.held_updates) \subseteq Stock(mb)
  BY <1>1, <1>2, <1>3, <1>6, GapInStock DEF Stock
<1>8. Keeps(mb, mb')
  BY <1>1, <1>2, <1>3, <1>4, <1>6, <1>7, EntryKeeps DEF Pts
<1> QED BY <1>1, <1>8, IdleQuiet

LEMMA TryExhaustDelivers ==
    ASSUME NEW c \in Channels, Inv, DInv, Inv', TryExhaustChannelGrace(c)
    PROVE  DInv' /\ Forward /\ Frozen
<1>1. /\ call.phase = "idle" /\ call' = call /\ srv' = srv /\ Nothing
      /\ mb' = [mb EXCEPT !.exhausted_channels = @ \cup {c}]
  BY DEF TryExhaustChannelGrace, ChannelReady
<1>2. mb'.entries = mb.entries /\ mb'.held_updates = mb.held_updates
  BY <1>1, IdleGood DEF Box
<1> QED BY <1>1, <1>2, SameEntries, IdleQuiet

LEMMA AccessibleDelivers ==
    ASSUME NEW c \in Channels, Inv, DInv, Inv', ChannelDifferenceAccessible(c)
    PROVE  DInv' /\ Forward /\ Frozen
<1>1. /\ call.phase = "idle" /\ call' = call /\ srv' = srv /\ Nothing /\ IsChannelInDiff(mb, c)
      /\ mb' = [mb EXCEPT !.exhausted_channels = @ \ {c}, !.entries[c].deferrals = 0]
  BY DEF ChannelDifferenceAccessible, ChannelReady
<1>2. c \in Keys /\ Known(mb, c) /\ mb \in Box /\ mb.entries[c] \in Entry
  BY <1>1, IdleGood, ChannelReadyProps
<1>3. PICK e : e = [mb.entries[c] EXCEPT !.deferrals = 0]
  OBVIOUS
<1>4. /\ e \in Entry /\ e.pts = mb.entries[c].pts /\ e.gap = mb.entries[c].gap
      /\ e.notBefore = mb.entries[c].notBefore /\ e.pending = mb.entries[c].pending
      /\ e.deferred = mb.entries[c].deferred /\ e.deadline = mb.entries[c].deadline
  BY <1>2, <1>3 DEF Entry
<1>5. mb'.entries = [mb.entries EXCEPT ![c] = e] /\ mb'.held_updates = mb.held_updates
  BY <1>1, <1>2, <1>3 DEF Box
<1>6. PacedEntry(mb.entries[c]) => PacedEntry(e)
  BY <1>4 DEF PacedEntry
<1>7. Elements(e.gap) \subseteq Stock(mb) /\ Elements(mb'.held_updates) \subseteq Stock(mb)
  BY <1>2, <1>4, <1>5, GapInStock DEF Stock
<1>8. Keeps(mb, mb')
  BY <1>2, <1>4, <1>5, <1>6, <1>7, EntryKeeps DEF Pts
<1> QED BY <1>1, <1>8, IdleQuiet


LEMMA ClearGapKeeps ==
    ASSUME NEW m, Good(m), NEW c \in Channels, IsChannelInDiff(m, c)
    PROVE  Keeps(m, ClearGap(m, c))
<1>1. c \in Keys /\ Known(m, c) /\ m \in Box /\ m.entries[c] \in Entry
  BY ChannelReadyProps
<1>2. PICK e : e = [m.entries[c] EXCEPT !.gap = <<>>, !.gapDeadline = 0]
  OBVIOUS
<1>3. PICK z \in Seq(Events) : z = <<>>
  BY EmptySeq
<1>4. e = [m.entries[c] EXCEPT !.gap = z, !.gapDeadline = 0]
  BY <1>2, <1>3
<1>5. /\ e \in Entry /\ e.pending = m.entries[c].pending /\ e.pts = m.entries[c].pts
      /\ e.deferred = m.entries[c].deferred /\ e.gap = z /\ e.deadline = m.entries[c].deadline
      /\ e.notBefore = m.entries[c].notBefore
  BY <1>1, <1>4 DEF Entry
<1>6. PICK n : n = ClearGap(m, c)
  OBVIOUS
<1>7. n.entries = [m.entries EXCEPT ![c] = e] /\ n.held_updates = m.held_updates
  BY <1>1, <1>2, <1>6 DEF ClearGap, SetEntry, Box
<1>8. PacedEntry(m.entries[c]) => PacedEntry(e)
  BY <1>5 DEF PacedEntry
<1>9. Elements(e.gap) \subseteq Stock(m) /\ Elements(n.held_updates) \subseteq Stock(m)
  BY <1>3, <1>5, <1>7, ElementsEmpty DEF Stock
<1> QED BY <1>1, <1>5, <1>6, <1>7, <1>8, <1>9, EntryKeeps DEF Pts

LEMMA TickDelivers ==
    ASSUME Inv, DInv, Inv', Tick
    PROVE  DInv' /\ Forward /\ Frozen
<1> DEFINE dec(t) == Max2(t - 1, 0)
           older(e) == [e EXCEPT !.deadline = dec(@), !.notBefore = dec(@),
                                 !.gapDeadline = dec(@)]
           es == [k \in Keys |-> IF Known(mb, k) THEN older(mb.entries[k]) ELSE NoEntry]
<1>1. /\ call.phase = "idle" /\ call' = call /\ srv' = srv /\ Nothing
      /\ mb' = [mb EXCEPT !.next_deadline = dec(mb.next_deadline), !.entries = es]
  BY DEF Tick
<1>2. mb \in Box
  BY <1>1, IdleGood
<1>3. \A t \in Nat : dec(t) \in Nat /\ dec(t) <= t /\ (t = 0 => dec(t) = 0) /\ \A s \in Nat : s <= t => dec(s) <= dec(t)
  BY DEF Max2
<1> HIDE DEF dec
<1>4. ASSUME NEW e \in Entry
      PROVE  /\ older(e) \in Entry /\ older(e).gap = e.gap /\ older(e).pts = e.pts
             /\ PacedEntry(e) => PacedEntry(older(e))
  <2>1. e.deadline \in Nat /\ e.notBefore \in Nat /\ e.gapDeadline \in Nat
    BY DEF Entry
  <2>2. dec(e.deadline) \in Nat /\ dec(e.notBefore) \in Nat /\ dec(e.gapDeadline) \in Nat
    BY <1>3, <2>1
  <2>3. older(e) = [e EXCEPT !.deadline = dec(e.deadline), !.notBefore = dec(e.notBefore),
                             !.gapDeadline = dec(e.gapDeadline)]
    BY DEF Entry
  <2> HIDE DEF older
  <2>4. /\ older(e) \in Entry /\ older(e).gap = e.gap /\ older(e).pts = e.pts
        /\ older(e).pending = e.pending /\ older(e).deferred = e.deferred
        /\ older(e).deadline = dec(e.deadline) /\ older(e).notBefore = dec(e.notBefore)
    BY <2>2, <2>3 DEF Entry
  <2>5. /\ dec(e.notBefore) <= e.notBefore /\ (e.notBefore = 0 => dec(e.notBefore) = 0)
        /\ (e.notBefore <= e.deadline => dec(e.notBefore) <= dec(e.deadline))
    BY <1>3, <2>1
  <2>6. PacedEntry(e) => PacedEntry(older(e))
    BY <2>1, <2>2, <2>4, <2>5, BoundsNat DEF PacedEntry
  <2> QED BY <2>4, <2>6
<1> HIDE DEF older
<1>5. mb'.entries = es /\ mb'.held_updates = mb.held_updates
  BY <1>1, <1>2 DEF Box
<1>6. ASSUME NEW j \in Keys
      PROVE  /\ Pts(mb', j) = Pts(mb, j)
             /\ Known(mb, j) /\ PacedEntry(mb.entries[j]) => PacedEntry(mb'.entries[j])
             /\ Known(mb', j) => Known(mb, j) /\ mb'.entries[j].gap = mb.entries[j].gap
  <2>1. CASE Known(mb, j)
    <3>1. mb'.entries[j] = older(mb.entries[j]) /\ mb.entries[j] \in Entry
      BY <1>2, <1>5, <2>1, KnownEntry
    <3> QED BY <1>4, <2>1, <3>1 DEF Pts
  <2>2. CASE ~Known(mb, j)
    BY <1>5, <2>2 DEF Pts, Known
  <2> QED BY <2>1, <2>2
<1>7. Gaps(mb') \subseteq Gaps(mb)
  BY <1>6 DEF Gaps
<1>8. Keeps(mb, mb')
  BY <1>5, <1>6, <1>7 DEF Keeps, Same, Stock
<1> QED BY <1>1, <1>8, IdleQuiet

LEMMA NumberContainerDelivers ==
    ASSUME Inv, DInv, Inv', NumberContainer
    PROVE  DInv' /\ Forward /\ Frozen
<1>1. call.phase = "idle" /\ call' = call /\ srv' = srv /\ mb' = mb /\ Nothing
  BY DEF NumberContainer, Nothing
<1>2. Keeps(mb, mb')
  BY <1>1, SameEntries
<1> QED BY <1>1, <1>2, IdleQuiet

LEMMA PublishDelivers ==
    ASSUME NEW e \in Events, Inv, DInv, Inv', Publish(e)
    PROVE  DInv' /\ Forward /\ Frozen
<1>1. /\ call.phase = "idle" /\ srv[e.key] = SortKey(e) /\ srv' = [srv EXCEPT ![e.key] = e.pts]
      /\ mb' = mb /\ call' = call /\ base' = base /\ delivered' = delivered
  BY DEF Publish
<1>2. e.key \in Keys /\ e.pts \in Nat /\ e.count \in Nat /\ SortKey(e) = e.pts - e.count
  BY EventProps DEF SortKey
<1>3. srv \in [Keys -> Nat] /\ mb \in Box /\ call \in Call
  BY DEF Inv, TypeOK
<1>4. \A k \in Keys : srv[k] <= srv'[k] /\ srv[k] \in Nat /\ srv'[k] \in Nat
  BY <1>1, <1>2, <1>3
<1>5. Accounted' /\ OwedOnce' /\ Plain' /\ Based' /\ Delayed'
  <2>1. (\A x : Owed(x)' <=> Owed(x)) /\ OwedOnce'
    BY <1>1 DEF Owed, Handing, OwedOnce
  <2> QED BY <1>1, <2>1 DEF DInv, Accounted, Covered, Plain, Based, Delayed
<1>6. \A u \in Carried(mb, call) : u \in Updates
  <2>1. /\ mb.held_updates \in Seq(Events) /\ call.todo \in Seq(Updates) /\ call.built \in Seq(Events)
    BY <1>3 DEF Box, Call
  <2>2. \A k \in Keys : Known(mb, k) => mb.entries[k].gap \in Seq(Events)
    BY <1>3, KnownEntry DEF Entry
  <2>3. Events \subseteq Updates
    BY DEF Updates
  <2>4. Elements(mb.held_updates) \subseteq Events /\ Elements(call.todo) \subseteq Updates /\ Elements(call.built) \subseteq Events
    BY <2>1, ElementsAre
  <2>5. \A k \in Keys : Known(mb, k) => Elements(mb.entries[k].gap) \subseteq Events
    BY <2>2, ElementsAre
  <2> QED BY <2>3, <2>4, <2>5 DEF Carried, Gaps
<1>7. \A u \in Updates : u.key \in Keys /\ u.pts \in Nat
  <2>1. FreeUpdate.key = Common /\ FreeUpdate.pts = 0
    BY DEF FreeUpdate, Update
  <2>2. \A u \in Events : u.key \in Keys /\ u.pts \in Nat
    BY EventProps
  <2>3. ASSUME NEW u \in [kind : {"tooLong"}, key : Channels, pts : Nat, count : {0}, msg : {FALSE}]
        PROVE  u.key \in Keys /\ u.pts \in Nat
    BY ChannelsAreKeys
  <2>4. ASSUME NEW u \in Updates
        PROVE  u.key \in Keys /\ u.pts \in Nat
    <3>1. CASE u \in Events
      BY <2>2, <3>1
    <3>2. CASE u = FreeUpdate
      BY <2>1, <3>2, ChannelsAreKeys
    <3>3. CASE u \in [kind : {"tooLong"}, key : Channels, pts : Nat, count : {0}, msg : {FALSE}]
      BY <2>3, <3>3
    <3> QED BY <3>1, <3>2, <3>3 DEF Updates
  <2> QED BY <2>4
<1>8. \A k \in Keys : Pts(mb, k) \in Int
  BY <1>3, KnownPts
<1>9. Behind'
  BY <1>1, <1>4, <1>6, <1>7, <1>8 DEF DInv, Behind
<1>10. Forward /\ Frozen
  <2>1. \A k \in Keys : Known(mb, k) => mb.entries[k].pts \in Nat
    BY <1>3, KnownPts DEF Pts
  <2> QED BY <1>1, <2>1 DEF Forward, Frozen
<1> QED BY <1>5, <1>9, <1>10 DEF DInv

LEMMA EndTemporarilyDelivers ==
    ASSUME NEW c \in Channels, Inv, DInv, Inv', EndTemporarily(c)
    PROVE  DInv' /\ Forward /\ Frozen
<1> DEFINE m1 == ClearGap(mb, c)
<1>1. /\ call.phase = "idle" /\ srv' = srv /\ IsChannelInDiff(mb, c) /\ Nothing
      /\ mb' = TryEndGetDiff(m1, c)
      /\ call'.phase = "extract" /\ call'.todo = <<>> /\ call'.built = <<>> /\ call'.after = "temporary"
  BY DEF EndTemporarily, ChannelReady, ClearGap, Idle
<1>2. Good(mb) /\ mb \in Box /\ c \in Keys /\ mb.entries[c] \in Entry /\ Known(mb, c)
  BY <1>1, IdleGood, ChannelReadyProps
<1>3. Good(m1)
  BY <1>1, <1>2, ClearGapGood
<1>4. Keeps(mb, m1)
  BY <1>1, <1>2, ClearGapKeeps
<1> HIDE DEF m1
<1>5. Keeps(m1, mb') /\ m1 \in Box
  BY <1>1, <1>2, <1>3, TryEndKeeps DEF Good
<1>6. Keeps(mb, mb')
  BY <1>2, <1>4, <1>5, KeepsTrans
<1>7. ~Handing /\ ~Handing'
  BY <1>1 DEF Handing
<1> QED BY <1>1, <1>6, <1>7, EmptyQuiet


-----------------------------------------------------------------------------
(* Steps of a call that move no position and hand nothing of a difference out *)

LEMMA OutsideLoop ==
    ASSUME Inv, DInv, Inv', ~Handing, ~Handing', Same(mb, mb'), Nothing, srv' = srv, Plain',
           Carried(mb', call') \subseteq Carried(mb, call)
    PROVE  DInv' /\ Forward /\ Frozen
<1>1. (\A e \in Counted : Owed(e)' <=> Owed(e)) /\ OwedOnce'
  BY NotHanding
<1> QED BY <1>1, QuietStep

LEMMA DropQuiet ==
    ASSUME Inv, DInv, Inv', call.phase = "loop", NEW i \in DOMAIN call.todo,
           ~(call.todo[i] \in Counted /\ call.todo[i].key \in call.force),
           Same(mb, mb'), Nothing, srv' = srv, Stock(mb') \subseteq Stock(mb) \cup Elements(call.todo),
           call'.phase \in {"loop", "sort"}, call'.todo = Rest(i), call'.force = call.force,
           call'.msgs = call.msgs, call'.after = call.after, call'.built = call.built
    PROVE  DInv' /\ Forward /\ Frozen
<1>1. call \in Call /\ OwedOnce /\ Plain
  BY DEF Inv, TypeOK, DInv
<1>2. /\ \A e \in Counted : Owed(e)' <=> Owed(e) /\ ~(e = call.todo[i] /\ e.key \in call.force)
      /\ OwedOnce' /\ Plain' /\ Elements(call'.todo) \subseteq Elements(call.todo)
  BY <1>1, Dropped
<1>3. \A e \in Counted : Owed(e)' <=> Owed(e)
  BY <1>2
<1>4. Carried(mb', call') \subseteq Carried(mb, call)
  BY <1>2 DEF Carried, Stock
<1> QED BY <1>2, <1>3, <1>4, QuietStep

(* The update at hand is one of the call's *)
LEMMA AtHand ==
    ASSUME Inv, call.phase = "loop", NEW i \in DOMAIN call.todo
    PROVE  call.todo[i] \in Elements(call.todo) /\ Good(mb) /\ mb \in Box /\ call \in Call
BY IdleGood DEF Elements, Inv, TypeOK

LEMMA LoopUnorderedDelivers ==
    ASSUME NEW i \in DOMAIN call.todo, Inv, DInv, Inv', LoopUnordered(i)
    PROVE  DInv' /\ Forward /\ Frozen
<1>1. /\ call.phase = "loop" /\ call' = [call EXCEPT !.todo = Rest(i), !.got = TRUE]
      /\ Nothing /\ mb' = mb /\ srv' = srv
      /\ call.todo[i].kind = "free" \/ call.todo[i].key \notin call.force
  BY DEF LoopUnordered, AtUpdate
<1>2. call \in Call
  BY <1>1, AtHand
<1>3. /\ call'.phase = "loop" /\ call'.todo = Rest(i) /\ call'.force = call.force
      /\ call'.msgs = call.msgs /\ call'.after = call.after /\ call'.built = call.built
  BY <1>1, <1>2 DEF Call
<1>4. ~(call.todo[i] \in Counted /\ call.todo[i].key \in call.force)
  BY <1>1, EventsAssumption DEF Counted
<1>5. Same(mb, mb')
  BY <1>1, SameEntries
<1> QED BY <1>1, <1>3, <1>4, <1>5, DropQuiet

LEMMA LoopHeldDelivers ==
    ASSUME NEW i \in DOMAIN call.todo, Inv, DInv, Inv', LoopHeld(i)
    PROVE  DInv' /\ Forward /\ Frozen
<1> DEFINE u == call.todo[i]
<1>1. /\ call.phase = "loop" /\ call' = [call EXCEPT !.todo = Rest(i), !.gaps = TRUE]
      /\ Nothing /\ srv' = srv /\ u.kind = "pts" /\ u.key \notin call.force
      /\ mb' = IF u.key \in Channels THEN HoldUpdates(mb, <<u>>) ELSE mb
  BY DEF LoopHeld, AtUpdate
<1>2. call \in Call /\ mb \in Box /\ u \in Elements(call.todo) /\ u \in Events
  BY <1>1, AtHand, ChannelLoop
<1>3. /\ call'.phase = "loop" /\ call'.todo = Rest(i) /\ call'.force = call.force
      /\ call'.msgs = call.msgs /\ call'.after = call.after /\ call'.built = call.built
  BY <1>1, <1>2 DEF Call
<1> HIDE DEF u
<1>4. <<u>> \in Seq(Events) /\ Elements(<<u>>) = {u}
  <2>1. <<u>> \in Seq(Events)
    BY <1>2
  <2>2. Elements(<<u>>) = {u}
    BY DEF Elements
  <2> QED BY <2>1, <2>2
<1>5. mb'.entries = mb.entries /\ Elements(mb'.held_updates) \subseteq Elements(mb.held_updates) \cup {u}
  BY <1>1, <1>2, <1>4, HoldElements
<1>6. Same(mb, mb') /\ Gaps(mb') = Gaps(mb)
  BY <1>5, SameEntries
<1>7. Stock(mb') \subseteq Stock(mb) \cup Elements(call.todo)
  BY <1>2, <1>5, <1>6 DEF Stock
<1> QED BY <1>1, <1>3, <1>6, <1>7, DropQuiet DEF u

(* A gap in the middle of its sort or drain is replaced *)
LEMMA SetGapSame ==
    ASSUME Inv, call.phase \in {"sort", "drain"}, NEW g \in Seq(Events),
           mb' = [mb EXCEPT !.entries[call.key].gap = g]
    PROVE  /\ Same(mb, mb')
           /\ Stock(mb') \subseteq Stock(mb) \cup Elements(g)
<1>0. PICK k : k = call.key
  OBVIOUS
<1>1. mb \in Box /\ k \in Keys /\ Known(mb, k) /\ mb.entries[k] \in Entry
  BY <1>0, SortingProps
<1>2. PICK e : e = [mb.entries[k] EXCEPT !.gap = g]
  OBVIOUS
<1>3. /\ e \in Entry /\ e.pts = Pts(mb, k) /\ e.gap = g /\ e.pending = mb.entries[k].pending
      /\ e.deferred = mb.entries[k].deferred /\ e.deadline = mb.entries[k].deadline
      /\ e.notBefore = mb.entries[k].notBefore
  BY <1>1, <1>2 DEF Entry, Pts
<1>4. mb'.entries = [mb.entries EXCEPT ![k] = e] /\ mb'.held_updates = mb.held_updates
  BY <1>0, <1>1, <1>2 DEF Box
<1>5. PacedEntry(mb.entries[k]) => PacedEntry(e)
  BY <1>3 DEF PacedEntry
<1>6. Same(mb, mb') /\ Gaps(mb') \subseteq Gaps(mb) \cup Elements(e.gap)
  <2>1. PICK n : n = mb'
    OBVIOUS
  <2>2. e.pts = Pts(mb, k) /\ e \in Entry /\ n.entries = [mb.entries EXCEPT ![k] = e]
    BY <1>3, <1>4, <2>1
  <2>3. Same(mb, n) /\ Gaps(n) \subseteq Gaps(mb) \cup Elements(e.gap)
    BY ONLY <1>1, <1>5, <2>2, EntrySame
  <2> QED BY <2>1, <2>3
<1> QED BY <1>3, <1>4, <1>6 DEF Stock

LEMMA SortNextDelivers ==
    ASSUME NEW i \in Nat, Inv, DInv, Inv', SortNext(i)
    PROVE  DInv' /\ Forward /\ Frozen
<1> DEFINE g == mb.entries[call.key].gap
<1>1. /\ call.phase = "sort" /\ i \in DOMAIN g /\ Nothing /\ srv' = srv
      /\ mb' = [mb EXCEPT !.entries[call.key].gap = RemoveIndex(g, i)]
      /\ call' = [call EXCEPT !.built = Append(@, g[i])]
  BY DEF SortNext
<1>2. /\ g \in Seq(Events) /\ call \in Call /\ call.built \in Seq(Events)
      /\ call.key \in Keys /\ Known(mb, call.key)
  BY <1>1, SortingProps
<1>3. Elements(g) \subseteq Stock(mb)
  BY <1>2, GapInStock
<1> HIDE DEF g
<1>4. RemoveIndex(g, i) \in Seq(Events) /\ Elements(RemoveIndex(g, i)) \subseteq Elements(g) /\ g[i] \in Elements(g)
  BY <1>1, <1>2, RemoveIndexProps, ElementsRemove
<1>5. Same(mb, mb') /\ Stock(mb') \subseteq Stock(mb) \cup Elements(RemoveIndex(g, i))
  BY <1>1, <1>4, SetGapSame
<1>6. g[i] \in Events
  BY <1>1, <1>2, ElementOfSeq, LenProperties
<1>7. Elements(Append(call.built, g[i])) = Elements(call.built) \cup {g[i]}
  BY <1>2, <1>6, ElementsAppend
<1>8. /\ call'.phase = "sort" /\ call'.todo = call.todo /\ call'.force = call.force
      /\ call'.msgs = call.msgs /\ call'.after = call.after /\ call'.built = Append(call.built, g[i])
  BY <1>1, <1>2 DEF Call
<1>9. Handing /\ Handing'
  BY <1>1, <1>8 DEF Handing
<1>10. (\A e \in Counted : Owed(e)' <=> Owed(e)) /\ OwedOnce' /\ Plain'
  BY <1>8, <1>9, SameHanding DEF DInv
<1>11. Carried(mb', call') \subseteq Carried(mb, call)
  BY <1>3, <1>4, <1>5, <1>7, <1>8 DEF Carried, Stock
<1> QED BY <1>1, <1>5, <1>10, <1>11, QuietStep

LEMMA EndSortDelivers ==
    ASSUME Inv, DInv, Inv', EndSort
    PROVE  DInv' /\ Forward /\ Frozen
<1>1. /\ call.phase = "sort" /\ Nothing /\ srv' = srv
      /\ mb' = [mb EXCEPT !.entries[call.key].gap = call.built]
      /\ call' = [call EXCEPT !.phase = "drain", !.built = <<>>]
  BY DEF EndSort
<1>2. call \in Call /\ call.built \in Seq(Events)
  BY <1>1, SortingProps
<1>3. Same(mb, mb') /\ Stock(mb') \subseteq Stock(mb) \cup Elements(call.built)
  BY <1>1, <1>2, SetGapSame
<1>4. /\ call'.phase = "drain" /\ call'.todo = call.todo /\ call'.force = call.force
      /\ call'.msgs = call.msgs /\ call'.after = call.after /\ call'.built = <<>>
  BY <1>1, <1>2 DEF Call
<1>5. Handing /\ Handing'
  BY <1>1, <1>4 DEF Handing
<1>6. (\A e \in Counted : Owed(e)' <=> Owed(e)) /\ OwedOnce' /\ Plain'
  BY <1>4, <1>5, SameHanding DEF DInv
<1>7. Carried(mb', call') \subseteq Carried(mb, call)
  BY <1>3, <1>4, ElementsEmpty DEF Carried, Stock
<1> QED BY <1>1, <1>3, <1>6, <1>7, QuietStep

LEMMA AppliedKeeps ==
    ASSUME Inv, call.phase = "loop"
    PROVE  Keeps(mb, Applied)
BY AppliedGood, SameEntries

LEMMA EndSocketDelivers ==
    ASSUME Inv, DInv, Inv', EndSocket
    PROVE  DInv' /\ Forward /\ Frozen
<1>1. call.phase = "loop" /\ call.after = "socket" /\ mb' = Applied /\ call' = Idle /\ Nothing /\ srv' = srv
  BY DEF EndSocket, LoopEnds
<1>2. call.msgs = {} /\ call.force = {}
  BY <1>1 DEF DInv, Plain
<1>3. \A e : ~Owed(e)
  BY <1>2, SocketOwes
<1>4. call'.msgs = {} /\ call'.force = {} /\ call'.todo = <<>> /\ call'.built = <<>>
  BY <1>1, IdleFields
<1>5. (\A e : ~Owed(e)') /\ OwedOnce' /\ Plain'
  BY <1>4, SocketOwesNext
<1>6. Keeps(mb, mb')
  BY <1>1, AppliedKeeps
<1>7. Carried(mb', call') \subseteq Carried(mb, call) /\ Same(mb, mb')
  BY <1>4, <1>6, ElementsEmpty DEF Carried, Keeps, Stock
<1> QED BY <1>1, <1>3, <1>5, <1>7, QuietStep


(* schedule_channel_retry delays an entry that is not being recovered *)
LEMMA ScheduleSame ==
    ASSUME NEW m, Good(m), NEW c \in Keys, Known(m, c), ~Getting(m, c), NEW f \in Nat,
           NEW beyond \in Seq(Events)
    PROVE  LET n == ScheduleChannelRetry(m, c, f, beyond)
           IN  Same(m, n) /\ Stock(n) \subseteq Stock(m) \cup Elements(beyond)
<1>1. m \in Box /\ m.entries[c] \in Entry /\ ~m.entries[c].pending /\ ~m.entries[c].deferred
  BY QuietEntry DEF Good
<1>2. PICK at : at = RetryDelay(f)
  OBVIOUS
<1>3. at \in Nat /\ at <= NoUpdatesTimeout
  <2>1. RetryDelayLimit \in Nat /\ NoUpdatesTimeout \in Nat /\ RetryDelayLimit <= NoUpdatesTimeout
    BY BoundsAssumption
  <2>2. at \in Nat
    BY <1>2, RetryDelayNat
  <2>3. PICK d : at = Min2(d, RetryDelayLimit)
    BY <1>2 DEF RetryDelay
  <2>4. at = RetryDelayLimit \/ at <= RetryDelayLimit
    BY <2>3 DEF Min2
  <2> QED BY <2>1, <2>2, <2>4
<1>4. PICK e : e = [m.entries[c] EXCEPT !.failures = f, !.notBefore = at]
  OBVIOUS
<1>5. PICK g : g = [e EXCEPT !.gap = beyond, !.gapDeadline = at]
  OBVIOUS
<1>6. e \in Entry /\ e.pts = Pts(m, c) /\ ~e.pending /\ ~e.deferred /\ e.notBefore = at /\ e.gap = m.entries[c].gap
  BY <1>1, <1>3, <1>4 DEF Entry, Pts
<1>7. g \in Entry /\ g.pts = Pts(m, c) /\ ~g.pending /\ ~g.deferred /\ g.notBefore = at /\ g.gap = beyond
  BY <1>3, <1>5, <1>6 DEF Entry
<1>8. PacedEntry(e) /\ PacedEntry(g)
  BY <1>3, <1>6, <1>7 DEF PacedEntry
<1>9. PICK n : n = ScheduleChannelRetry(m, c, f, beyond)
  OBVIOUS
<1>10. CASE beyond = <<>>
  <2>1. n.entries = [m.entries EXCEPT ![c] = e] /\ n.held_updates = m.held_updates
    BY <1>1, <1>2, <1>4, <1>9, <1>10 DEF ScheduleChannelRetry, SetEntry, Box
  <2>2. Elements(e.gap) \subseteq Stock(m) /\ Elements(n.held_updates) \subseteq Stock(m)
    BY <1>6, <2>1, GapInStock DEF Stock
  <2>3. Keeps(m, n)
    BY <1>1, <1>6, <1>8, <2>1, <2>2, EntryKeeps
  <2> QED BY <1>9, <2>3 DEF Keeps
<1>11. CASE beyond # <<>>
  <2>1. n = [SetEntry(m, c, g) EXCEPT !.next_deadline = Min2(@, at)]
    BY <1>2, <1>4, <1>5, <1>9, <1>11 DEF ScheduleChannelRetry
  <2>2. SetEntry(m, c, g) \in Box /\ SetEntry(m, c, g).entries = [m.entries EXCEPT ![c] = g]
        /\ SetEntry(m, c, g).held_updates = m.held_updates
    BY <1>1, <1>7, SetEntryBox DEF SetEntry, Box
  <2>3. n.entries = [m.entries EXCEPT ![c] = g] /\ n.held_updates = m.held_updates
    BY <2>1, <2>2 DEF Box
  <2>4. Same(m, n) /\ Gaps(n) \subseteq Gaps(m) \cup Elements(g.gap)
    BY <1>1, <1>7, <1>8, <2>3, EntrySame
  <2> QED BY <1>7, <1>9, <2>3, <2>4 DEF Stock
<1> QED BY <1>10, <1>11

LEMMA ReleaseNextDelivers ==
    ASSUME Inv, DInv, Inv', ReleaseNext
    PROVE  DInv' /\ Forward /\ Frozen
<1>1. PICK h, u : h = mb.held_updates /\ u = Head(h)
  OBVIOUS
<1>2. /\ call.phase = "release" /\ call.left > 0 /\ Nothing /\ srv' = srv
      /\ \E x \in {Append(Tail(h), u), Tail(h)} : mb' = [mb EXCEPT !.held_updates = x]
      /\ \E y \in {call.todo, Append(call.todo, u)} : call' = [call EXCEPT !.left = @ - 1, !.todo = y]
  BY <1>1 DEF ReleaseNext
<1>3. mb \in Box /\ call \in Call /\ call.todo \in Seq(Events) /\ call.left <= Len(h) /\ call.left \in Nat
  BY <1>1, <1>2 DEF Inv, TypeOK, CallOK, ReleaseOK, Call
<1>4. h \in Seq(Events) /\ h # <<>>
  BY <1>1, <1>2, <1>3, EmptySeq, LenProperties DEF Box
<1>5. u \in Elements(h) /\ Elements(Tail(h)) \subseteq Elements(h) /\ Tail(h) \in Seq(Events)
  BY <1>1, <1>4, ElementsTail
<1>6. u \in Events
  BY <1>4, <1>5, ElementsAre
<1>7. Elements(Append(Tail(h), u)) \subseteq Elements(h) /\ Elements(Append(call.todo, u)) \subseteq Elements(call.todo) \cup Elements(h)
  <2>1. Elements(Append(Tail(h), u)) = Elements(Tail(h)) \cup {u}
    <3>1. PICK t \in Seq(Events) : t = Tail(h)
      BY <1>5
    <3>2. Elements(Append(t, u)) = Elements(t) \cup {u}
      BY <1>6, ElementsAppend
    <3> QED BY <3>1, <3>2
  <2>2. Elements(Append(call.todo, u)) = Elements(call.todo) \cup {u}
    BY <1>3, <1>6, ElementsAppend
  <2> QED BY <1>5, <2>1, <2>2
<1>8. mb'.entries = mb.entries /\ Elements(mb'.held_updates) \subseteq Elements(mb.held_updates)
  BY <1>1, <1>2, <1>3, <1>5, <1>7 DEF Box
<1>9. /\ call'.phase = "release" /\ Elements(call'.todo) \subseteq Elements(call.todo) \cup Elements(h)
      /\ call'.force = call.force /\ call'.msgs = call.msgs /\ call'.after = call.after /\ call'.built = call.built
  BY <1>2, <1>3, <1>7 DEF Call
<1>10. Same(mb, mb') /\ Gaps(mb') = Gaps(mb)
  BY <1>8, SameEntries
<1>11. Plain' /\ ~Handing /\ ~Handing'
  BY <1>2, <1>9 DEF DInv, Plain, Handing
<1>12. Carried(mb', call') \subseteq Carried(mb, call)
  BY <1>1, <1>8, <1>9, <1>10 DEF Carried
<1> QED BY <1>2, <1>10, <1>11, <1>12, OutsideLoop

LEMMA EndReleaseDelivers ==
    ASSUME Inv, DInv, Inv', EndRelease
    PROVE  DInv' /\ Forward /\ Frozen
<1>1. /\ call.phase = "release" /\ Nothing /\ mb' = mb /\ srv' = srv
      /\ call' = Idle \/ call' = [call EXCEPT !.phase = "loop"]
  BY DEF EndRelease
<1>2. call \in Call /\ call.after = "socket"
  BY <1>1 DEF Inv, TypeOK, CallOK, ReleaseOK
<1>3. call.msgs = {} /\ call.force = {}
  BY <1>2 DEF DInv, Plain
<1>4. /\ call'.msgs = {} /\ call'.force = {} /\ Elements(call'.todo) \subseteq Elements(call.todo)
      /\ Elements(call'.built) \subseteq Elements(call.built)
  BY <1>1, <1>2, <1>3, IdleFields, ElementsEmpty DEF Call
<1>5. (\A e : ~Owed(e)') /\ OwedOnce' /\ Plain'
  BY <1>4, SocketOwesNext
<1>6. \A e : ~Owed(e)
  BY <1>3, SocketOwes
<1>7. Same(mb, mb')
  BY <1>1, SameEntries
<1>8. Carried(mb', call') \subseteq Carried(mb, call)
  BY <1>1, <1>4 DEF Carried
<1> QED BY <1>1, <1>5, <1>6, <1>7, <1>8, QuietStep

LEMMA CheckNextEntryDelivers ==
    ASSUME NEW k \in Keys, Inv, DInv, Inv', CheckNextEntry(k)
    PROVE  DInv' /\ Forward /\ Frozen
<1>1. /\ call.phase = "deadlines" /\ mb' = CheckDeadline(mb, k) /\ Nothing /\ srv' = srv
      /\ call' = [call EXCEPT !.keys = @ \ {k}]
  BY DEF CheckNextEntry
<1>2. Good(mb) /\ call \in Call
  BY <1>1, IdleGood DEF Inv, TypeOK
<1>3. Keeps(mb, mb')
  BY <1>1, <1>2, CheckDeadlineKeeps DEF DInv, Delayed
<1>4. /\ call'.phase = "deadlines" /\ call'.todo = call.todo /\ call'.force = call.force
      /\ call'.msgs = call.msgs /\ call'.after = call.after /\ call'.built = call.built
  BY <1>1, <1>2 DEF Call
<1>5. Plain' /\ ~Handing /\ ~Handing'
  BY <1>1, <1>4 DEF DInv, Plain, Handing
<1>6. Carried(mb', call') \subseteq Carried(mb, call) /\ Same(mb, mb')
  BY <1>3, <1>4 DEF Carried, Keeps, Stock
<1> QED BY <1>1, <1>5, <1>6, OutsideLoop

LEMMA EndDeadlinesDelivers ==
    ASSUME Inv, DInv, Inv', EndDeadlines
    PROVE  DInv' /\ Forward /\ Frozen
<1>1. /\ call.phase = "deadlines" /\ mb' = [mb EXCEPT !.next_deadline = NextDeadline(mb)]
      /\ call' = Idle /\ Nothing /\ srv' = srv
  BY DEF EndDeadlines
<1>2. mb'.entries = mb.entries /\ mb'.held_updates = mb.held_updates
  BY <1>1, IdleGood DEF Box
<1>3. Keeps(mb, mb')
  BY <1>2, SameEntries
<1>4. ~Handing /\ ~Handing'
  BY <1>1, IdleFields DEF Handing
<1> QED BY <1>1, <1>3, <1>4, IdleFields, EmptyQuiet

LEMMA ExtractNextDelivers ==
    ASSUME Inv, DInv, Inv', ExtractNext
    PROVE  DInv' /\ Forward /\ Frozen
<1>1. PICK h, u : h = mb.held_updates /\ u = Head(h)
  OBVIOUS
<1>2. /\ call.phase = "extract" /\ call.left > 0 /\ Nothing /\ srv' = srv
      /\ \E x \in {Append(Tail(h), u), Tail(h)} : mb' = [mb EXCEPT !.held_updates = x]
      /\ \E y \in {call.todo, Append(call.todo, u)} : call' = [call EXCEPT !.left = @ - 1, !.todo = y]
  BY <1>1 DEF ExtractNext
<1>3. mb \in Box /\ call \in Call /\ call.todo \in Seq(Events) /\ call.left <= Len(h) /\ call.left \in Nat
  BY <1>1, <1>2, SiftProps
<1>4. h \in Seq(Events) /\ h # <<>>
  BY <1>1, <1>2, <1>3, EmptySeq, LenProperties DEF Box
<1>5. u \in Elements(h) /\ Elements(Tail(h)) \subseteq Elements(h) /\ Tail(h) \in Seq(Events)
  BY <1>1, <1>4, ElementsTail
<1>6. u \in Events
  BY <1>4, <1>5, ElementsAre
<1>7. Elements(Append(Tail(h), u)) \subseteq Elements(h) /\ Elements(Append(call.todo, u)) \subseteq Elements(call.todo) \cup Elements(h)
  <2>1. Elements(Append(Tail(h), u)) = Elements(Tail(h)) \cup {u}
    <3>1. PICK t \in Seq(Events) : t = Tail(h)
      BY <1>5
    <3>2. Elements(Append(t, u)) = Elements(t) \cup {u}
      BY <1>6, ElementsAppend
    <3> QED BY <3>1, <3>2
  <2>2. Elements(Append(call.todo, u)) = Elements(call.todo) \cup {u}
    BY <1>3, <1>6, ElementsAppend
  <2> QED BY <1>5, <2>1, <2>2
<1>8. mb'.entries = mb.entries /\ Elements(mb'.held_updates) \subseteq Elements(mb.held_updates)
  BY <1>1, <1>2, <1>3, <1>5, <1>7 DEF Box
<1>9. /\ call'.phase = "extract" /\ Elements(call'.todo) \subseteq Elements(call.todo) \cup Elements(h)
      /\ call'.force = call.force /\ call'.msgs = call.msgs /\ call'.after = call.after /\ call'.built = call.built
  BY <1>2, <1>3, <1>7 DEF Call
<1>10. Same(mb, mb') /\ Gaps(mb') = Gaps(mb)
  BY <1>8, SameEntries
<1>11. Plain' /\ ~Handing /\ ~Handing'
  BY <1>2, <1>9 DEF DInv, Plain, Handing
<1>12. Carried(mb', call') \subseteq Carried(mb, call)
  BY <1>1, <1>8, <1>9, <1>10 DEF Carried
<1> QED BY <1>2, <1>10, <1>11, <1>12, OutsideLoop

LEMMA EndExtractDelivers ==
    ASSUME Inv, DInv, Inv', EndExtract
    PROVE  DInv' /\ Forward /\ Frozen
<1>1. call.phase = "extract" /\ mb' = mb /\ call' = [call EXCEPT !.phase = "sift"] /\ Nothing /\ srv' = srv
  BY DEF EndExtract
<1>2. call \in Call
  BY DEF Inv, TypeOK
<1>3. /\ call'.phase = "sift" /\ call'.todo = call.todo /\ call'.force = call.force
      /\ call'.msgs = call.msgs /\ call'.after = call.after /\ call'.built = call.built
  BY <1>1, <1>2 DEF Call
<1>4. Plain' /\ ~Handing /\ ~Handing'
  BY <1>1, <1>3 DEF DInv, Plain, Handing
<1>5. Carried(mb', call') \subseteq Carried(mb, call) /\ Same(mb, mb')
  BY <1>1, <1>3, SameEntries DEF Carried
<1> QED BY <1>1, <1>4, <1>5, OutsideLoop

LEMMA SiftNextDelivers ==
    ASSUME NEW i \in DOMAIN call.todo, Inv, DInv, Inv', SiftNext(i)
    PROVE  DInv' /\ Forward /\ Frozen
<1>1. PICK u : u = call.todo[i]
  OBVIOUS
<1>2. /\ call.phase = "sift" /\ Nothing /\ srv' = srv
      /\ \E x \in {mb.held_updates, Append(mb.held_updates, u)} : mb' = [mb EXCEPT !.held_updates = x]
      /\ \E y \in {call.built, Append(call.built, u)} : \E z :
            call' = [call EXCEPT !.todo = Rest(i), !.at = z, !.built = y]
  <2>1. mb \in Box
    BY DEF Inv, TypeOK
  <2>2. mb = [mb EXCEPT !.held_updates = mb.held_updates]
    BY <2>1 DEF Box
  <2> QED BY <1>1, <2>2 DEF SiftNext
<1>3. mb \in Box /\ call \in Call /\ call.todo \in Seq(Events) /\ call.built \in Seq(Events)
      /\ mb.held_updates \in Seq(Events)
  BY <1>2, SiftProps
<1>4. u \in Elements(call.todo) /\ u \in Events /\ Elements(Rest(i)) \subseteq Elements(call.todo)
  BY <1>1, <1>3, ElementsRemove, ElementsAre DEF Rest
<1>5. /\ Elements(Append(mb.held_updates, u)) = Elements(mb.held_updates) \cup {u}
      /\ Elements(Append(call.built, u)) = Elements(call.built) \cup {u}
  BY <1>3, <1>4, ElementsAppend
<1>6. mb'.entries = mb.entries /\ Elements(mb'.held_updates) \subseteq Elements(mb.held_updates) \cup {u}
  BY <1>2, <1>3, <1>5 DEF Box
<1>7. /\ call'.phase = "sift" /\ call'.todo = Rest(i) /\ call'.force = call.force
      /\ call'.msgs = call.msgs /\ call'.after = call.after
      /\ Elements(call'.built) \subseteq Elements(call.built) \cup {u}
  BY <1>2, <1>3, <1>5 DEF Call
<1>8. Same(mb, mb') /\ Gaps(mb') = Gaps(mb)
  BY <1>6, SameEntries
<1>9. Plain' /\ ~Handing /\ ~Handing'
  BY <1>2, <1>7 DEF DInv, Plain, Handing
<1>10. Carried(mb', call') \subseteq Carried(mb, call)
  BY <1>4, <1>6, <1>7, <1>8 DEF Carried
<1> QED BY <1>2, <1>8, <1>9, <1>10, OutsideLoop

LEMMA EndSiftDelivers ==
    ASSUME Inv, DInv, Inv', EndSift
    PROVE  DInv' /\ Forward /\ Frozen
<1>1. /\ call.phase = "sift" /\ call' = Idle /\ Nothing /\ srv' = srv
      /\ mb' = ScheduleChannelRetry(mb, call.chan, call.failures, call.built) \/ mb' = mb
  BY DEF EndSift
<1>2. /\ Good(mb) /\ call.chan \in Keys /\ Known(mb, call.chan) /\ ~Getting(mb, call.chan)
      /\ call.failures \in Nat /\ call.built \in Seq(Events)
  BY <1>1, SiftProps
<1>3. Same(mb, mb') /\ Stock(mb') \subseteq Stock(mb) \cup Elements(call.built)
  BY <1>1, <1>2, ScheduleSame, SameEntries
<1>4. Plain' /\ ~Handing /\ ~Handing'
  BY <1>1, IdleFields DEF Plain, Handing
<1>5. Carried(mb', call') \subseteq Carried(mb, call)
  BY <1>1, <1>3, IdleFields, ElementsEmpty DEF Carried, Stock
<1> QED BY <1>1, <1>3, <1>4, <1>5, OutsideLoop


-----------------------------------------------------------------------------
(* Steps that hand out events of a difference *)

LEMMA HandOutStep ==
    ASSUME Inv, DInv, Inv', NEW S, Handed(S), Same(mb, mb'), srv' = srv,
           \A e \in Counted : e \in S => Owed(e),
           \A e \in Counted : Owed(e)' <=> Owed(e) /\ e \notin S, OwedOnce', Plain',
           Carried(mb', call') \subseteq Carried(mb, call)
    PROVE  DInv' /\ Forward /\ Frozen
<1>1. mb \in Box /\ mb' \in Box /\ base' = base /\ delivered \in [Counted -> Nat]
  BY DEF Inv, TypeOK, Handed
<1>2. \A k \in Keys : Pts(mb', k) = Pts(mb, k) /\ (Known(mb', k) <=> Known(mb, k))
  BY <1>1, SameIsKnown DEF Same
<1>3. \A e \in Counted : e.key \in Keys
  BY EventsAssumption DEF Counted
<1>4. \A e \in Counted : Covered(e)' <=> Covered(e)
  BY <1>1, <1>2, <1>3 DEF Covered
<1>5. \A e \in Counted : delivered'[e] = IF e \in S THEN delivered[e] + 1 ELSE delivered[e]
  BY DEF Handed, Deliver
<1>6. \A e \in Counted : (Owed(e) => Covered(e)) /\ delivered[e] = IF Covered(e) /\ ~Owed(e) THEN 1 ELSE 0
  BY DEF DInv, Accounted
<1>7. ASSUME NEW e \in Counted
      PROVE  (Owed(e)' => Covered(e)') /\ delivered'[e] = IF Covered(e)' /\ ~Owed(e)' THEN 1 ELSE 0
  <2>1. CASE e \in S
    <3>1. Owed(e) /\ ~Owed(e)' /\ Covered(e) /\ Covered(e)' /\ delivered[e] = 0 /\ delivered'[e] = 1
      BY <1>4, <1>5, <1>6, <2>1
    <3> QED BY <3>1
  <2>2. CASE e \notin S
    <3>1. (Owed(e)' <=> Owed(e)) /\ (Covered(e)' <=> Covered(e)) /\ delivered'[e] = delivered[e]
      BY <1>4, <1>5, <2>2
    <3> QED BY <1>6, <3>1
  <2> QED BY <2>1, <2>2
<1>8. Accounted'
  BY <1>7 DEF Accounted
<1>9. Based'
  BY <1>1, <1>2 DEF DInv, Based
<1>10. Behind'
  BY <1>2 DEF DInv, Behind
<1>11. Delayed'
  BY <1>2 DEF DInv, Delayed, Same
<1>12. Forward /\ Frozen
  <2>1. \A k \in Keys : Known(mb, k) => mb'.entries[k].pts = mb.entries[k].pts /\ mb.entries[k].pts \in Nat
    BY <1>1, <1>2, KnownPts DEF Pts
  <2> QED BY <2>1 DEF Forward, Frozen
<1> QED BY <1>8, <1>9, <1>10, <1>11, <1>12 DEF DInv

LEMMA LoopForcedDelivers ==
    ASSUME NEW i \in DOMAIN call.todo, Inv, DInv, Inv', LoopForced(i)
    PROVE  DInv' /\ Forward /\ Frozen
<1>1. PICK u : u = call.todo[i]
  OBVIOUS
<1>2. /\ call.phase = "loop" /\ call' = [call EXCEPT !.todo = Rest(i), !.got = TRUE]
      /\ Handed({u}) /\ srv' = srv /\ u.kind = "pts" /\ u.key \in call.force
      /\ mb' = ResetDeadline(mb, u.key, NoUpdatesTimeout)
  BY <1>1 DEF LoopForced, AtUpdate
<1>3. call \in Call /\ mb \in Box /\ u \in Elements(call.todo) /\ u \in Events
  BY <1>1, <1>2, AtHand, ChannelLoop
<1>4. /\ call'.phase = "loop" /\ call'.todo = Rest(i) /\ call'.force = call.force
      /\ call'.msgs = call.msgs /\ call'.after = call.after /\ call'.built = call.built
  BY <1>2, <1>3 DEF Call
<1>5. Keeps(mb, mb')
  BY <1>2, <1>3, EventProps, ResetDeadlineKeeps, BoundsNat
<1>6. /\ \A e \in Counted : Owed(e)' <=> Owed(e) /\ ~(e = u /\ e.key \in call.force)
      /\ OwedOnce' /\ Plain' /\ Elements(call'.todo) \subseteq Elements(call.todo)
  BY <1>1, <1>2, <1>3, <1>4, Dropped DEF DInv
<1>7. \A e \in Counted : e \in {u} => Owed(e)
  BY <1>2, <1>3 DEF Owed, Handing, Forced
<1>8. \A e \in Counted : Owed(e)' <=> Owed(e) /\ e \notin {u}
  BY <1>2, <1>6
<1>9. Carried(mb', call') \subseteq Carried(mb, call) /\ Same(mb, mb')
  BY <1>4, <1>5, <1>6 DEF Carried, Keeps, Stock
<1> QED BY <1>2, <1>6, <1>7, <1>8, <1>9, HandOutStep

(* The end of a loop hands out the messages of the difference *)
LEMMA LoopEndOwes ==
    ASSUME call.phase = "loop", call.todo = <<>>
    PROVE  \A e : Owed(e) <=> e \in call.msgs
BY ElementsEmpty DEF Owed, Handing, Forced

LEMMA EndAccountDelivers ==
    ASSUME Inv, DInv, Inv', EndAccount
    PROVE  DInv' /\ Forward /\ Frozen
<1>1. /\ call.phase = "loop" /\ call.todo = <<>> /\ call' = Idle /\ Handed(call.msgs) /\ srv' = srv
      /\ mb' = Applied \/ mb' = TryEndGetDiff(TryEndGetDiff(Applied, Common), Secondary)
  BY DEF EndAccount, LoopEnds
<1>2. Keeps(mb, Applied) /\ Good(Applied) /\ mb \in Box
  BY <1>1, AppliedKeeps, AppliedGood, IdleGood
<1>3. Keeps(mb, mb')
  BY <1>1, <1>2, EndAccountKeeps, KeepsTrans DEF Good
<1>4. \A e : Owed(e) <=> e \in call.msgs
  BY <1>1, LoopEndOwes
<1>5. call'.msgs = {} /\ call'.force = {} /\ call'.todo = <<>> /\ call'.built = <<>>
  BY <1>1, IdleFields
<1>6. (\A e : ~Owed(e)') /\ OwedOnce' /\ Plain'
  BY <1>5, SocketOwesNext
<1>7. Carried(mb', call') \subseteq Carried(mb, call) /\ Same(mb, mb')
  BY <1>3, <1>5, ElementsEmpty DEF Carried, Keeps, Stock
<1> QED BY <1>1, <1>4, <1>6, <1>7, HandOutStep

LEMMA RotateKeeps ==
    ASSUME NEW m, Good(m), NEW k \in Keys, k \in Ready(m)
    PROVE  Keeps(m, RotateToBack(m, k))
<1>1. m \in Box /\ Dequeue(m, k) \in Box
  BY DequeueProps DEF Good
<1>2. Dequeue(m, k).held_updates = m.held_updates
  BY <1>1 DEF Dequeue, Box
<1>3. RotateToBack(m, k).held_updates = m.held_updates
  BY <1>1, <1>2 DEF RotateToBack, Box
<1>4. RotateToBack(m, k).entries = m.entries
  BY RotateGood
<1> QED BY <1>3, <1>4, SameEntries

LEMMA EndChannelDelivers ==
    ASSUME Inv, DInv, Inv', EndChannel
    PROVE  DInv' /\ Forward /\ Frozen
<1>1. PICK c, m1 : c = call.chan /\ m1 = ResetDeadline(Applied, c, call.timeout)
  OBVIOUS
<1>2. /\ call.phase = "loop" /\ call.todo = <<>> /\ call.after = "channel" /\ Handed(call.msgs) /\ srv' = srv
      /\ mb' = IF call.final THEN m1 ELSE RotateToBack(m1, c)
      /\ call' = IF call.final
                 THEN [call EXCEPT !.phase = "extract", !.left = Len(mb.held_updates)]
                 ELSE Idle
  BY <1>1 DEF EndChannel, LoopEnds
<1>3. /\ c \in Keys /\ Known(mb, c) /\ call \in Call /\ call.timeout \in Nat
      /\ call.final \in BOOLEAN /\ Good(mb) /\ mb \in Box
      /\ call.final => ~Getting(mb, c)
      /\ ~call.final => c \in Ready(mb)
  BY <1>1, <1>2, IdleGood, ChannelsAreKeys DEF Inv, TypeOK, CallOK, LoopOK, Call
<1>4. ~mb.entries[c].deferred
  <2>1. CASE call.final
    BY <1>3, <2>1 DEF Good, Clean, Getting
  <2>2. CASE ~call.final
    BY <1>3, <2>2 DEF Ready
  <2> QED BY <2>1, <2>2
<1>5. Good(Applied) /\ Applied.entries = mb.entries /\ Keeps(mb, Applied)
  BY <1>2, AppliedGood, AppliedKeeps
<1>6. m1 \in Box /\ SameCore(Applied, m1) /\ Keeps(Applied, m1)
  BY <1>1, <1>3, <1>4, <1>5, ResetDeadlineProps, ResetDeadlineKeeps DEF Good
<1>7. Good(m1) /\ Keeps(mb, m1)
  BY <1>3, <1>5, <1>6, SameCoreGood, KeepsTrans DEF Good
<1>8. Keeps(mb, mb')
  <2>1. CASE call.final
    BY <1>2, <1>7, <2>1
  <2>2. CASE ~call.final
    <3>1. c \in Ready(m1)
      BY <1>3, <1>5, <1>6, <2>2 DEF Ready, Getting, SameCore, Known
    <3>2. Keeps(m1, mb')
      BY <1>2, <1>3, <1>7, <2>2, <3>1, RotateKeeps
    <3> QED BY <1>3, <1>6, <1>7, <3>2, KeepsTrans
  <2> QED BY <2>1, <2>2
<1>9. \A e : Owed(e) <=> e \in call.msgs
  BY <1>2, LoopEndOwes
<1>10. call'.phase \in {"idle", "extract"} /\ (call'.after = "channel" \/ call' = Idle)
       /\ Elements(call'.todo) \subseteq Elements(call.todo) /\ Elements(call'.built) \subseteq Elements(call.built)
  BY <1>2, <1>3, IdleFields, ElementsEmpty DEF Call
<1>11. (\A e : ~Owed(e)') /\ OwedOnce' /\ Plain'
  BY <1>10, IdleFields DEF Owed, OwedOnce, Handing, Plain
<1>12. Carried(mb', call') \subseteq Carried(mb, call) /\ Same(mb, mb')
  BY <1>8, <1>10 DEF Carried, Keeps, Stock
<1> QED BY <1>2, <1>9, <1>11, <1>12, HandOutStep


-----------------------------------------------------------------------------
(* Steps that move positions *)

(* The positions of the sequences K move *)
LEMMA MoveStep ==
    ASSUME Inv, DInv, Inv', srv' = srv, NEW K \in SUBSET Keys,
           \A k \in Keys \ K : Pts(mb', k) = Pts(mb, k) /\ base'[k] = base[k],
           \A k \in K : Pts(mb', k) <= srv[k] /\ (Known(mb', k) => base'[k] <= Pts(mb', k)),
           \A k \in K : Known(mb, k) /\ Known(mb', k) =>
               /\ Pts(mb', k) >= Pts(mb, k)
               /\ ~Getting(mb, k) \/ ~Getting(mb', k) \/ (call.phase = "idle" /\ k \in call'.force),
           \A e \in Counted : e.key \in K =>
               /\ Owed(e)' => Covered(e)'
               /\ delivered'[e] = IF Covered(e)' /\ ~Owed(e)' THEN 1 ELSE 0,
           \A e \in Counted : e.key \notin K => (Owed(e)' <=> Owed(e)) /\ delivered'[e] = delivered[e],
           OwedOnce', Plain', Delayed',
           \A u \in Carried(mb', call') : u \in Carried(mb, call) \/ u.pts <= srv[u.key]
    PROVE  DInv' /\ Forward /\ Frozen
<1>1. mb \in Box /\ mb' \in Box /\ srv \in [Keys -> Nat]
  BY DEF Inv, TypeOK
<1>2. \A k \in Keys \ K : Known(mb', k) <=> Known(mb, k)
  BY <1>1, KnownPts
<1>3. \A e \in Counted : e.key \in Keys
  BY EventsAssumption DEF Counted
<1>4. \A e \in Counted : e.key \notin K => (Covered(e)' <=> Covered(e))
  BY <1>3 DEF Covered
<1>5. Accounted'
  <2>1. ASSUME NEW e \in Counted
        PROVE  (Owed(e)' => Covered(e)') /\ delivered'[e] = IF Covered(e)' /\ ~Owed(e)' THEN 1 ELSE 0
    <3>1. CASE e.key \in K
      BY <3>1
    <3>2. CASE e.key \notin K
      <4>1. (Owed(e)' <=> Owed(e)) /\ (Covered(e)' <=> Covered(e)) /\ delivered'[e] = delivered[e]
        BY <1>4, <3>2
      <4>2. (Owed(e) => Covered(e)) /\ delivered[e] = IF Covered(e) /\ ~Owed(e) THEN 1 ELSE 0
        BY DEF DInv, Accounted
      <4> QED BY <4>1, <4>2
    <3> QED BY <3>1, <3>2
  <2> QED BY <2>1 DEF Accounted
<1>6. Based'
  BY <1>2 DEF DInv, Based
<1>7. Behind'
  <2>1. \A k \in Keys : Pts(mb', k) <= srv[k]
    BY DEF DInv, Behind
  <2> QED BY <2>1 DEF DInv, Behind
<1>8. ASSUME NEW k \in Keys, Known(mb, k), Known(mb', k)
      PROVE  /\ Pts(mb', k) >= Pts(mb, k)
             /\ mb.entries[k].pending /\ mb'.entries[k].pending /\ Pts(mb', k) # Pts(mb, k)
                  => call.phase = "idle" /\ k \in call'.force
  <2>1. CASE k \in K
    BY <1>8, <2>1 DEF Getting
  <2>2. CASE k \notin K
    <3>1. Pts(mb', k) = Pts(mb, k) /\ Pts(mb, k) \in Nat
      BY <1>1, <1>8, <2>2, KnownPts
    <3> QED BY <3>1
  <2> QED BY <2>1, <2>2
<1>9. Forward /\ Frozen
  BY <1>8 DEF Forward, Frozen, Pts
<1> QED BY <1>5, <1>6, <1>7, <1>9 DEF DInv

(* The positions of the sequences K are established at p or given up *)
LEMMA EstablishStep ==
    ASSUME Inv, DInv, Inv', srv' = srv, NEW K \in SUBSET Keys, NEW p, Establish(K, p),
           \A k \in Keys \ K : Pts(mb', k) = Pts(mb, k),
           \A k \in K : ~Known(mb', k) \/ (Pts(mb', k) = p[k] /\ p[k] <= srv[k]),
           \A k \in K : Known(mb, k) /\ Known(mb', k) => Pts(mb', k) >= Pts(mb, k) /\ 
               (~Getting(mb, k) \/ ~Getting(mb', k) \/ (call.phase = "idle" /\ k \in call'.force)),
           \A e \in Counted : (Owed(e)' <=> Owed(e)) /\ (e.key \in K => ~Owed(e)),
           OwedOnce', Plain', Delayed',
           \A u \in Carried(mb', call') : u \in Carried(mb, call) \/ u.pts <= srv[u.key]
    PROVE  DInv' /\ Forward /\ Frozen
<1>1. mb' \in Box /\ srv \in [Keys -> Nat] /\ base \in [Keys -> Nat]
  BY DEF Inv, TypeOK
<1>2. \A k \in Keys : base'[k] = IF k \in K THEN p[k] ELSE base[k]
  BY DEF Establish
<1>3. \A e \in Counted : delivered'[e] = IF e.key \in K THEN 0 ELSE delivered[e]
  BY DEF Establish
<1>4. \A e \in Counted : e.key \in Keys /\ e.pts \in Nat /\ e.pts > 0
  BY EventsAssumption DEF Counted
<1>5. ASSUME NEW k \in K
      PROVE  /\ Pts(mb', k) \in Int /\ Pts(mb', k) <= srv[k]
             /\ Known(mb', k) => base'[k] = Pts(mb', k)
             /\ ~Known(mb', k) => Pts(mb', k) = -1
  <2>1. /\ Known(mb', k) => Pts(mb', k) \in Nat
        /\ ~Known(mb', k) => Pts(mb', k) = -1
    BY <1>1, KnownPts
  <2>2. srv[k] \in Nat
    BY <1>1
  <2> QED BY <1>2, <2>1, <2>2
<1>6. ASSUME NEW e \in Counted, e.key \in K
      PROVE  ~Covered(e)' /\ ~Owed(e)' /\ delivered'[e] = 0
  <2>1. ~Owed(e)' /\ delivered'[e] = 0
    BY <1>3, <1>6
  <2>2. PICK k \in K : k = e.key
    BY <1>6
  <2>3. Covered(e)' <=> base'[k] < e.pts /\ e.pts <= Pts(mb', k)
    BY <2>2 DEF Covered
  <2>4. ~(base'[k] < e.pts /\ e.pts <= Pts(mb', k))
    BY <1>4, <1>5
  <2> QED BY <2>1, <2>3, <2>4
<1>7. \A k \in Keys \ K : base'[k] = base[k]
  BY <1>2
<1>8. \A k \in K : Pts(mb', k) <= srv[k] /\ (Known(mb', k) => base'[k] <= Pts(mb', k))
  BY <1>5
<1>9. \A e \in Counted : e.key \notin K => (Owed(e)' <=> Owed(e)) /\ delivered'[e] = delivered[e]
  BY <1>3
<1> QED BY <1>6, <1>7, <1>8, <1>9, MoveStep

(* One entry becomes known or goes, the others are left alone *)
LEMMA OneEntry ==
    ASSUME NEW m \in Box, NEW n, NEW k \in Keys, NEW e,
           n.entries = [m.entries EXCEPT ![k] = e]
    PROVE  /\ n.entries[k] = e /\ Pts(n, k) = e.pts
           /\ \A j \in Keys \ {k} : n.entries[j] = m.entries[j] /\ Pts(n, j) = Pts(m, j)
           /\ Gaps(n) \subseteq Gaps(m) \cup Elements(e.gap)
           /\ e = NoEntry => Gaps(n) \subseteq Gaps(m)
<1>1. n.entries[k] = e /\ \A j \in Keys \ {k} : n.entries[j] = m.entries[j]
  BY DEF Box
<1>2. \A j \in Keys \ {k} : Known(n, j) <=> Known(m, j)
  BY <1>1 DEF Known
<1>3. ASSUME NEW j \in Keys, Known(n, j)
      PROVE  Elements(n.entries[j].gap) \subseteq Gaps(m) \cup Elements(e.gap)
  BY <1>1, <1>2, <1>3 DEF Gaps
<1>4. ASSUME NEW j \in Keys, Known(n, j), e = NoEntry
      PROVE  Elements(n.entries[j].gap) \subseteq Gaps(m)
  BY <1>1, <1>2, <1>4 DEF Gaps, Known
<1> QED BY <1>1, <1>3, <1>4 DEF Gaps, Pts

LEMMA NewEntryPaced ==
    ASSUME NEW p \in Nat
    PROVE  /\ NewEntry(p) \in Entry /\ NewEntry(p).pts = p /\ PacedEntry(NewEntry(p))
           /\ Elements(NewEntry(p).gap) = {} /\ ~NewEntry(p).pending /\ NewEntry(p) # NoEntry
<1>1. NewEntry(p) \in Entry /\ NewEntry(p).pts = p /\ NewEntry(p).gap = <<>> /\ ~NewEntry(p).pending
  BY NewEntryProps
<1>2. NewEntry(p).notBefore = 0 /\ NewEntry(p).deferred = FALSE
  BY DEF NewEntry
<1>3. NewEntry(p) # NoEntry
  BY <1>1 DEF Entry, NoEntry
<1> QED BY <1>1, <1>2, <1>3, ElementsEmpty, BoundsNat DEF PacedEntry


LEMMA IdleEstablish ==
    ASSUME Inv, DInv, Inv', srv' = srv, call.phase = "idle", call' = call,
           NEW K \in SUBSET Keys, NEW p, Establish(K, p),
           \A k \in Keys \ K : Pts(mb', k) = Pts(mb, k),
           \A k \in K : ~Known(mb', k) \/ (Pts(mb', k) = p[k] /\ p[k] <= srv[k]),
           \A k \in K : Known(mb, k) /\ Known(mb', k) => Pts(mb', k) >= Pts(mb, k) /\ ~Getting(mb', k),
           Delayed', Stock(mb') \subseteq Stock(mb)
    PROVE  DInv' /\ Forward /\ Frozen
<1>1. (\A e : ~Owed(e) /\ ~Owed(e)') /\ OwedOnce'
  BY DEF Owed, Handing, OwedOnce
<1>2. Plain'
  BY DEF DInv, Plain
<1>3. Carried(mb', call') \subseteq Carried(mb, call)
  BY DEF Carried, Stock
<1> QED BY <1>1, <1>2, <1>3, EstablishStep

LEMMA TrySetChannelStateDelivers ==
    ASSUME NEW c \in Channels, Inv, DInv, Inv', TrySetChannelState(c)
    PROVE  DInv' /\ Forward /\ Frozen
<1>1. /\ call.phase = "idle" /\ call' = call /\ srv' = srv /\ ~Known(mb, c) /\ Establish({c}, srv)
      /\ mb' = SetEntry(mb, c, NewEntry(srv[c]))
  BY DEF TrySetChannelState
<1>2. c \in Keys /\ mb \in Box /\ srv[c] \in Nat
  BY <1>1, ChannelsAreKeys DEF Inv, TypeOK
<1>3. PICK e : e = NewEntry(srv[c])
  OBVIOUS
<1>4. e \in Entry /\ e.pts = srv[c] /\ PacedEntry(e) /\ Elements(e.gap) = {}
  BY <1>2, <1>3, NewEntryPaced
<1>5. mb'.entries = [mb.entries EXCEPT ![c] = e] /\ mb'.held_updates = mb.held_updates
  BY <1>1, <1>2, <1>3 DEF SetEntry, Box
<1>6. /\ mb'.entries[c] = e /\ Pts(mb', c) = e.pts /\ Gaps(mb') \subseteq Gaps(mb) \cup Elements(e.gap)
      /\ \A j \in Keys \ {c} : mb'.entries[j] = mb.entries[j] /\ Pts(mb', j) = Pts(mb, j)
  BY <1>2, <1>5, OneEntry
<1>7. Delayed'
  BY <1>4, <1>6 DEF DInv, Delayed, Known
<1>8. Stock(mb') \subseteq Stock(mb)
  BY <1>4, <1>5, <1>6 DEF Stock
<1>9. srv[c] <= srv[c] /\ {c} \in SUBSET Keys
  BY <1>2
<1> QED BY <1>1, <1>4, <1>6, <1>7, <1>8, <1>9, IdleEstablish

(* An entry is dropped once its recovery has ended *)
LEMMA DropKeeps ==
    ASSUME NEW m, Good(m), NEW k \in Keys
    PROVE  LET n == PopEntry(TryEndGetDiff(m, k), k)
           IN  /\ ~Known(n, k) /\ Pts(n, k) = -1 /\ Stock(n) \subseteq Stock(m)
               /\ \A j \in Keys \ {k} : /\ Pts(n, j) = Pts(m, j)
                                        /\ Known(n, j) <=> Known(m, j)
                                        /\ Known(m, j) /\ PacedEntry(m.entries[j]) => PacedEntry(n.entries[j])
<1> DEFINE m1 == TryEndGetDiff(m, k)
           n == PopEntry(m1, k)
<1>1. m \in Box /\ Good(m1) /\ m1 \in Box /\ Keeps(m, m1)
  BY TryEndGood, TryEndKeeps DEF Good
<1> HIDE DEF m1
<1>2. n.entries = [m1.entries EXCEPT ![k] = NoEntry] /\ n.held_updates = m1.held_updates
  BY <1>1 DEF PopEntry, SetEntry, Box
<1> HIDE DEF n
<1>3. /\ n.entries[k] = NoEntry /\ Pts(n, k) = NoEntry.pts /\ Gaps(n) \subseteq Gaps(m1)
      /\ \A j \in Keys \ {k} : n.entries[j] = m1.entries[j] /\ Pts(n, j) = Pts(m1, j)
  BY <1>1, <1>2, OneEntry
<1>4. \A j \in Keys : Known(m1, j) <=> Known(m, j)
  BY <1>1, SameIsKnown DEF Keeps
<1>5. Stock(n) \subseteq Stock(m)
  BY <1>1, <1>2, <1>3 DEF Stock, Keeps
<1>6. ~Known(n, k) /\ Pts(n, k) = -1
  BY <1>3 DEF Known, NoEntry
<1>7. ASSUME NEW j \in Keys \ {k}
      PROVE  /\ Pts(n, j) = Pts(m, j) /\ (Known(n, j) <=> Known(m, j))
             /\ Known(m, j) /\ PacedEntry(m.entries[j]) => PacedEntry(n.entries[j])
  <2>1. n.entries[j] = m1.entries[j] /\ Pts(n, j) = Pts(m1, j)
    BY <1>3
  <2>2. Pts(m1, j) = Pts(m, j) /\ (Known(m, j) /\ PacedEntry(m.entries[j]) => PacedEntry(m1.entries[j]))
    BY <1>1 DEF Keeps, Same
  <2> QED BY <1>4, <2>1, <2>2 DEF Known
<1> QED BY <1>5, <1>6, <1>7 DEF m1, n

LEMMA EndBannedDelivers ==
    ASSUME NEW c \in Channels, Inv, DInv, Inv', EndBanned(c)
    PROVE  DInv' /\ Forward /\ Frozen
<1>1. PICK m1 : m1 = ClearGap(mb, c)
  OBVIOUS
<1>2. /\ call.phase = "idle" /\ call' = call /\ srv' = srv /\ IsChannelInDiff(mb, c)
      /\ mb' = PopEntry(TryEndGetDiff(m1, c), c) /\ Establish({c}, [k \in Keys |-> 0])
  BY <1>1 DEF EndBanned, ChannelReady, ClearGap
<1>3. Good(mb) /\ mb \in Box /\ c \in Keys
  BY <1>2, IdleGood, ChannelsAreKeys
<1>4. Good(m1) /\ Keeps(mb, m1) /\ m1 \in Box
  BY <1>1, <1>2, <1>3, ClearGapGood, ClearGapKeeps DEF Good
<1>5. /\ ~Known(mb', c) /\ Stock(mb') \subseteq Stock(m1)
      /\ \A j \in Keys \ {c} : /\ Pts(mb', j) = Pts(m1, j)
                               /\ Known(mb', j) <=> Known(m1, j)
                               /\ Known(m1, j) /\ PacedEntry(m1.entries[j]) => PacedEntry(mb'.entries[j])
  BY <1>2, <1>3, <1>4, DropKeeps
<1>6. \A j \in Keys : /\ Pts(m1, j) = Pts(mb, j) /\ (Known(m1, j) <=> Known(mb, j))
                      /\ Known(mb, j) /\ PacedEntry(mb.entries[j]) => PacedEntry(m1.entries[j])
  BY <1>3, <1>4, SameIsKnown DEF Keeps, Same
<1>7. Delayed'
  BY <1>5, <1>6 DEF DInv, Delayed
<1>8. Stock(mb') \subseteq Stock(mb)
  BY <1>4, <1>5 DEF Keeps
<1>9. \A j \in Keys \ {c} : Pts(mb', j) = Pts(mb, j)
  BY <1>5, <1>6
<1> QED BY <1>2, <1>3, <1>5, <1>7, <1>8, <1>9, IdleEstablish

LEMMA DeferChannelDifferenceDelivers ==
    ASSUME NEW c \in Channels, Inv, DInv, Inv', DeferChannelDifference(c)
    PROVE  DInv' /\ Forward /\ Frozen
<1>1. call.phase = "idle" /\ call' = call /\ srv' = srv /\ IsChannelInDiff(mb, c)
  BY DEF DeferChannelDifference, ChannelReady
<1>2. /\ Good(mb) /\ mb \in Box /\ c \in Keys /\ Known(mb, c) /\ c \in Ready(mb)
      /\ mb.entries[c] \in Entry /\ mb.entries[c].pending /\ ~mb.entries[c].deferred /\ mb.entries[c].gap = <<>>
  BY <1>1, IdleGood, ChannelReadyProps
<1>3. CASE GraceSpent(c)
  <2>1. PICK X : X = mb.exhausted_channels \cup {c}
    OBVIOUS
  <2>2. PICK m1 : m1 = [mb EXCEPT !.exhausted_channels = X]
    OBVIOUS
  <2>3. mb' = PopEntry(TryEndGetDiff(m1, c), c) /\ Establish({c}, [k \in Keys |-> 0])
    BY <1>3, <2>1, <2>2 DEF DeferChannelDifference
  <2>4. Good(m1) /\ m1.entries = mb.entries /\ m1.held_updates = mb.held_updates
    BY <1>2, <2>1, <2>2, SetExhaustedGood DEF Box
  <2>5. /\ ~Known(mb', c) /\ Stock(mb') \subseteq Stock(m1)
        /\ \A j \in Keys \ {c} : /\ Pts(mb', j) = Pts(m1, j)
                                 /\ Known(mb', j) <=> Known(m1, j)
                                 /\ Known(m1, j) /\ PacedEntry(m1.entries[j]) => PacedEntry(mb'.entries[j])
    BY <1>2, <2>3, <2>4, DropKeeps
  <2>6. Stock(mb') \subseteq Stock(mb)
    BY <2>4, <2>5, SameEntries DEF Keeps
  <2>7. \A j \in Keys \ {c} : /\ Pts(mb', j) = Pts(mb, j)
                              /\ Known(mb', j) <=> Known(mb, j)
                              /\ Known(mb, j) /\ PacedEntry(mb.entries[j]) => PacedEntry(mb'.entries[j])
    BY <2>4, <2>5 DEF Pts, Known
  <2>8. Delayed'
    BY <2>5, <2>7 DEF DInv, Delayed
  <2> QED BY <1>1, <1>2, <2>3, <2>5, <2>6, <2>7, <2>8, IdleEstablish
<1>4. CASE ~GraceSpent(c)
  <2>1. PICK d : d = [mb.entries[c] EXCEPT !.deferred = TRUE, !.deferrals = @ + 1, !.deadline = DeferDelay]
    OBVIOUS
  <2>2. PICK m1 : m1 = SetEntry(Dequeue(mb, c), c, d)
    OBVIOUS
  <2>3. mb' = [m1 EXCEPT !.next_deadline = Min2(@, DeferDelay)] /\ Nothing
    BY <1>4, <2>1, <2>2 DEF DeferChannelDifference
  <2>4. /\ d \in Entry /\ d.pts = Pts(mb, c) /\ d.gap = mb.entries[c].gap /\ d.deadline = DeferDelay
        /\ d.notBefore = mb.entries[c].notBefore /\ d.deferred
    <3>1. PICK o \in Entry : o = mb.entries[c]
      BY <1>2
    <3>2. d = [o EXCEPT !.deferred = TRUE, !.deferrals = o.deferrals + 1, !.deadline = DeferDelay]
      BY <2>1, <3>1
    <3>3. o.deferrals + 1 \in Nat /\ DeferDelay \in Nat
      BY BoundsNat DEF Entry
    <3>4. /\ d \in Entry /\ d.pts = o.pts /\ d.gap = o.gap /\ d.deadline = DeferDelay
          /\ d.notBefore = o.notBefore /\ d.deferred
      BY ONLY <3>2, <3>3, o \in Entry DEF Entry
    <3> QED BY <3>1, <3>4 DEF Pts
  <2>5. PacedEntry(mb.entries[c]) => PacedEntry(d)
    BY <1>2, <2>4, BoundsNat DEF PacedEntry
  <2>6. Dequeue(mb, c) \in Box /\ Dequeue(mb, c).entries = mb.entries /\ Dequeue(mb, c).held_updates = mb.held_updates
    <3>1. Dequeue(mb, c) \in Box
      BY <1>2, DequeueProps DEF Good
    <3> QED BY <1>2, <3>1 DEF Dequeue, Box
  <2>7. m1 \in Box /\ m1.entries = [mb.entries EXCEPT ![c] = d] /\ m1.held_updates = mb.held_updates
    BY <1>2, <2>2, <2>4, <2>6, SetEntryBox DEF SetEntry, Box
  <2>8. mb'.entries = [mb.entries EXCEPT ![c] = d] /\ mb'.held_updates = mb.held_updates
    BY <2>3, <2>7 DEF Box
  <2>9. Elements(d.gap) \subseteq Stock(mb) /\ Elements(mb'.held_updates) \subseteq Stock(mb)
    BY <1>2, <2>4, <2>8, GapInStock DEF Stock
  <2>10. Keeps(mb, mb')
    BY <1>2, <2>4, <2>5, <2>8, <2>9, EntryKeeps
  <2> QED BY <1>1, <2>3, <2>10, IdleQuiet
<1> QED BY <1>3, <1>4


LEMMA SetAccountStateDelivers ==
    ASSUME Inv, DInv, Inv', SetAccountState
    PROVE  DInv' /\ Forward /\ Frozen
<1>1. PICK a, b : /\ a = SetEntry(mb, Common, NewEntry(srv[Common]))
                  /\ b = SetEntry(a, Secondary, NewEntry(srv[Secondary]))
  OBVIOUS
<1>2. /\ call.phase = "idle" /\ call' = call /\ srv' = srv /\ ~Known(mb, Common)
      /\ Establish({Common, Secondary}, srv)
      /\ mb' = [b EXCEPT !.seq = srvSeq, !.next_deadline = Min2(@, NoUpdatesTimeout)]
  BY <1>1 DEF SetAccountState, SetState
<1>3. /\ mb \in Box /\ ~Known(mb, Secondary) /\ srv[Common] \in Nat /\ srv[Secondary] \in Nat
  BY <1>2, ChannelsAreKeys DEF Inv, TypeOK, QtsNeedsPrimary
<1>4. PICK e, f : e = NewEntry(srv[Common]) /\ f = NewEntry(srv[Secondary])
  OBVIOUS
<1>5. /\ e \in Entry /\ e.pts = srv[Common] /\ PacedEntry(e) /\ Elements(e.gap) = {}
      /\ f \in Entry /\ f.pts = srv[Secondary] /\ PacedEntry(f) /\ Elements(f.gap) = {}
  BY <1>3, <1>4, NewEntryPaced
<1>6. a \in Box /\ a.entries = [mb.entries EXCEPT ![Common] = e] /\ a.held_updates = mb.held_updates
  BY <1>1, <1>3, <1>4, <1>5, ChannelsAreKeys, SetEntryBox DEF SetEntry, Box
<1>7. b \in Box /\ b.entries = [a.entries EXCEPT ![Secondary] = f] /\ b.held_updates = a.held_updates
  BY <1>1, <1>4, <1>5, <1>6, ChannelsAreKeys, SetEntryBox DEF SetEntry, Box
<1>8. mb'.entries = [a.entries EXCEPT ![Secondary] = f] /\ mb'.held_updates = mb.held_updates
  BY <1>2, <1>6, <1>7 DEF Box
<1>9. /\ a.entries[Common] = e /\ Pts(a, Common) = e.pts /\ Gaps(a) \subseteq Gaps(mb) \cup Elements(e.gap)
      /\ \A j \in Keys \ {Common} : a.entries[j] = mb.entries[j] /\ Pts(a, j) = Pts(mb, j)
  BY <1>3, <1>6, ChannelsAreKeys, OneEntry
<1>10. /\ mb'.entries[Secondary] = f /\ Pts(mb', Secondary) = f.pts /\ Gaps(mb') \subseteq Gaps(a) \cup Elements(f.gap)
       /\ \A j \in Keys \ {Secondary} : mb'.entries[j] = a.entries[j] /\ Pts(mb', j) = Pts(a, j)
  BY <1>6, <1>8, ChannelsAreKeys, OneEntry, SMTT(30)
<1>11. /\ mb'.entries[Common] = e /\ Pts(mb', Common) = srv[Common] /\ Pts(mb', Secondary) = srv[Secondary]
       /\ \A j \in Keys \ {Common, Secondary} : mb'.entries[j] = mb.entries[j] /\ Pts(mb', j) = Pts(mb, j)
  BY <1>5, <1>9, <1>10, ChannelsAreKeys
<1>12. Delayed'
  <2>1. ASSUME NEW j \in Keys, Known(mb', j)
        PROVE  PacedEntry(mb'.entries[j])
    <3>1. CASE j = Common \/ j = Secondary
      BY <1>5, <1>10, <1>11, <3>1
    <3>2. CASE j \in Keys \ {Common, Secondary}
      BY <1>11, <2>1, <3>2 DEF DInv, Delayed, Known
    <3> QED BY <3>1, <3>2
  <2> QED BY <2>1 DEF Delayed
<1>13. Stock(mb') \subseteq Stock(mb)
  BY <1>5, <1>8, <1>9, <1>10 DEF Stock
<1>14. {Common, Secondary} \in SUBSET Keys /\ \A k \in {Common, Secondary} : srv[k] <= srv[k] /\ Pts(mb', k) = srv[k] /\ ~Known(mb, k)
  BY <1>2, <1>3, <1>11, ChannelsAreKeys
<1> QED BY <1>2, <1>11, <1>12, <1>13, <1>14, IdleEstablish

LEMMA DiscardAccountDelivers ==
    ASSUME Inv, DInv, Inv', DiscardAccount
    PROVE  DInv' /\ Forward /\ Frozen
<1>1. PICK m1 : m1 = PopEntry(TryEndGetDiff(mb, Common), Common)
  OBVIOUS
<1>2. /\ call.phase = "idle" /\ call' = call /\ srv' = srv
      /\ mb' = PopEntry(TryEndGetDiff(m1, Secondary), Secondary)
      /\ Establish({Common, Secondary}, [k \in Keys |-> 0])
  BY <1>1 DEF DiscardAccount, DiscardAccountState
<1>3. Good(mb) /\ Good(m1)
  BY <1>1, <1>2, IdleGood, DropGood, ChannelsAreKeys
<1>4. /\ ~Known(m1, Common) /\ Stock(m1) \subseteq Stock(mb)
      /\ \A j \in Keys \ {Common} : /\ Pts(m1, j) = Pts(mb, j)
                                    /\ Known(m1, j) <=> Known(mb, j)
                                    /\ Known(mb, j) /\ PacedEntry(mb.entries[j]) => PacedEntry(m1.entries[j])
  BY <1>1, <1>3, ChannelsAreKeys, DropKeeps
<1>5. /\ ~Known(mb', Secondary) /\ Stock(mb') \subseteq Stock(m1)
      /\ \A j \in Keys \ {Secondary} : /\ Pts(mb', j) = Pts(m1, j)
                                       /\ Known(mb', j) <=> Known(m1, j)
                                       /\ Known(m1, j) /\ PacedEntry(m1.entries[j]) => PacedEntry(mb'.entries[j])
  BY <1>2, <1>3, ChannelsAreKeys, DropKeeps
<1>6. ~Known(mb', Common) /\ ~Known(mb', Secondary)
  BY <1>4, <1>5, ChannelsAreKeys
<1>7. \A j \in Keys \ {Common, Secondary} :
         /\ Pts(mb', j) = Pts(mb, j) /\ (Known(mb', j) <=> Known(mb, j))
         /\ Known(mb, j) /\ PacedEntry(mb.entries[j]) => PacedEntry(mb'.entries[j])
  BY <1>4, <1>5
<1>8. Delayed'
  BY <1>6, <1>7 DEF DInv, Delayed
<1>9. Stock(mb') \subseteq Stock(mb) /\ {Common, Secondary} \in SUBSET Keys
  BY <1>4, <1>5, ChannelsAreKeys
<1> QED BY <1>2, <1>6, <1>7, <1>8, <1>9, IdleEstablish

(* Setting a position leaves the other entries and all gaps alone *)
LEMMA SetPtsProps ==
    ASSUME NEW m, Good(m), NEW k \in Keys, NEW p \in Nat
    PROVE  LET n == SetPts(m, k, p)
           IN  /\ Known(n, k) /\ Pts(n, k) = p /\ Stock(n) \subseteq Stock(m)
               /\ \A j \in Keys \ {k} : n.entries[j] = m.entries[j] /\ Pts(n, j) = Pts(m, j)
               /\ (Known(m, k) => PacedEntry(m.entries[k])) => PacedEntry(n.entries[k])
               /\ Getting(n, k) => Getting(m, k)
<1>1. PICK e : e = IF Known(m, k) THEN [m.entries[k] EXCEPT !.pts = p] ELSE NewEntry(p)
  OBVIOUS
<1>2. PICK n : n = SetPts(m, k, p)
  OBVIOUS
<1>3. m \in Box
  BY DEF Good
<1>4. /\ e \in Entry /\ e.pts = p /\ e # NoEntry
      /\ (Known(m, k) => PacedEntry(m.entries[k])) => PacedEntry(e)
      /\ Elements(e.gap) \subseteq Stock(m)
      /\ e.pending => Getting(m, k)
  <2>1. CASE Known(m, k)
    <3>1. PICK o \in Entry : o = m.entries[k]
      BY <1>3, <2>1, KnownEntry
    <3>2. e = [o EXCEPT !.pts = p]
      BY <1>1, <2>1, <3>1
    <3>3. /\ e \in Entry /\ e.pts = p /\ e.gap = o.gap /\ e.pending = o.pending
          /\ e.deferred = o.deferred /\ e.deadline = o.deadline /\ e.notBefore = o.notBefore
      BY <3>2 DEF Entry
    <3>4. PacedEntry(o) => PacedEntry(e)
      BY <3>3 DEF PacedEntry
    <3>5. Elements(e.gap) \subseteq Stock(m) /\ (e.pending => Getting(m, k))
      BY <2>1, <3>1, <3>3, GapInStock DEF Getting
    <3> QED BY <1>3, <2>1, <3>1, <3>3, <3>4, <3>5, KnownEntry
  <2>2. CASE ~Known(m, k)
    <3>1. e = NewEntry(p)
      BY <1>1, <2>2
    <3> QED BY <3>1, NewEntryPaced
  <2> QED BY <2>1, <2>2
<1>5. n.entries = [m.entries EXCEPT ![k] = e] /\ n.held_updates = m.held_updates
  BY <1>1, <1>2, <1>3 DEF SetPts, SetEntry, Box
<1>6. /\ n.entries[k] = e /\ Pts(n, k) = e.pts /\ Gaps(n) \subseteq Gaps(m) \cup Elements(e.gap)
      /\ \A j \in Keys \ {k} : n.entries[j] = m.entries[j] /\ Pts(n, j) = Pts(m, j)
  BY <1>3, <1>5, OneEntry
<1>7. Stock(n) \subseteq Stock(m)
  BY <1>4, <1>5, <1>6 DEF Stock
<1> QED BY <1>2, <1>4, <1>6, <1>7 DEF Known, Getting

LEMMA DifferenceTooLongDelivers ==
    ASSUME Inv, DInv, Inv', DifferenceTooLong(srv[Common])
    PROVE  DInv' /\ Forward /\ Frozen
<1>1. PICK p, m1 : p = srv[Common] /\ m1 = SetPts(mb, Common, p)
  OBVIOUS
<1>2. /\ call.phase = "idle" /\ call' = call /\ srv' = srv
      /\ mb' = TryEndGetDiff(TryEndGetDiff(m1, Common), Secondary)
      /\ Establish({Common}, [k \in {Common} |-> p])
  BY <1>1 DEF DifferenceTooLong, AccountDiffWanted
<1>3. Good(mb) /\ mb \in Box /\ p \in Nat
  BY <1>1, <1>2, IdleGood, ChannelsAreKeys DEF Inv, TypeOK
<1>4. Good(m1) /\ m1 \in Box
  BY <1>1, <1>3, SetPtsGood, ChannelsAreKeys DEF Good
<1>5. /\ Known(m1, Common) /\ Pts(m1, Common) = p /\ Stock(m1) \subseteq Stock(mb)
      /\ \A j \in Keys \ {Common} : m1.entries[j] = mb.entries[j] /\ Pts(m1, j) = Pts(mb, j)
      /\ (Known(mb, Common) => PacedEntry(mb.entries[Common])) => PacedEntry(m1.entries[Common])
  BY <1>1, <1>3, SetPtsProps, ChannelsAreKeys
<1>6. Keeps(m1, mb') /\ mb' \in Box
  BY <1>2, <1>4, EndAccountKeeps DEF Inv, TypeOK
<1>7. \A j \in Keys : /\ Pts(mb', j) = Pts(m1, j) /\ (Known(mb', j) <=> Known(m1, j))
                      /\ Known(m1, j) /\ PacedEntry(m1.entries[j]) => PacedEntry(mb'.entries[j])
  BY <1>4, <1>6, SameIsKnown DEF Keeps, Same
<1>8. Delayed'
  <2>1. ASSUME NEW j \in Keys, Known(mb', j)
        PROVE  PacedEntry(mb'.entries[j])
    <3>1. Known(m1, j)
      BY <1>7, <2>1
    <3>2. PacedEntry(m1.entries[j])
      BY <1>5, <3>1, ChannelsAreKeys DEF DInv, Delayed, Known
    <3> QED BY <1>7, <3>1, <3>2
  <2> QED BY <2>1 DEF Delayed
<1>9. Stock(mb') \subseteq Stock(mb)
  BY <1>5, <1>6 DEF Keeps
<1>10. ~Getting(mb', Common)
  <2>1. PICK m2 : m2 = TryEndGetDiff(m1, Common)
    OBVIOUS
  <2>2. Good(m2) /\ ~Getting(m2, Common)
    BY <1>4, <2>1, TryEndGood, ChannelsAreKeys
  <2> QED BY <1>2, <2>1, <2>2, TryEndGood, ChannelsAreKeys
<1>11. Pts(mb, Common) <= srv[Common] /\ Pts(mb, Common) \in Int
  BY <1>3, KnownPts, ChannelsAreKeys DEF DInv, Behind
<1>12. /\ {Common} \in SUBSET Keys /\ Pts(mb', Common) = p /\ p <= srv[Common] /\ Pts(mb', Common) >= Pts(mb, Common)
       /\ [k \in {Common} |-> p][Common] = p
  BY <1>1, <1>3, <1>5, <1>7, <1>11, ChannelsAreKeys
<1>13. \A j \in Keys \ {Common} : Pts(mb', j) = Pts(mb, j)
  BY <1>5, <1>7
<1> QED BY <1>2, <1>8, <1>9, <1>10, <1>12, <1>13, IdleEstablish



(* A recovery starts for a channel, which may become known by it *)
LEMMA LoopTooLongDelivers ==
    ASSUME NEW i \in DOMAIN call.todo, Inv, DInv, Inv', LoopTooLong(i)
    PROVE  DInv' /\ Forward /\ Frozen
<1>1. PICK u : u = call.todo[i]
  OBVIOUS
<1>2. PICK fresh \in BOOLEAN : fresh <=> (u.pts > 0 /\ ~Known(mb, u.key))
  OBVIOUS
<1>3. /\ call.phase = "loop" /\ srv' = srv /\ u.kind = "tooLong"
      /\ call' = [call EXCEPT !.todo = Rest(i)]
      /\ ~fresh => mb' = TryBeginGetDiff(mb, u.key) /\ Nothing
      /\ fresh => /\ mb' = TryBeginGetDiff(SetEntry(mb, u.key, NewEntry(u.pts)), u.key)
                  /\ Establish({u.key}, [k \in {u.key} |-> u.pts])
  BY <1>1, <1>2 DEF LoopTooLong, AtUpdate
<1>4. /\ call \in Call /\ mb \in Box /\ Good(mb) /\ mb' \in Box
      /\ u \in Elements(call.todo) /\ u.key \in Keys /\ u.pts \in Nat
  BY <1>1, <1>3, AtHand, ChannelLoop, ChannelsAreKeys DEF Inv, TypeOK
<1>5. /\ call'.phase = "loop" /\ call'.todo = Rest(i) /\ call'.force = call.force
      /\ call'.msgs = call.msgs /\ call'.after = call.after /\ call'.built = call.built
  BY <1>3, <1>4 DEF Call
<1>6. u \notin Counted
  BY <1>3, EventsAssumption DEF Counted
<1>7. CASE ~fresh
  <2>1. Keeps(mb, mb')
    BY <1>3, <1>4, <1>7, TryBeginKeeps
  <2>2. Same(mb, mb') /\ Stock(mb') \subseteq Stock(mb) \cup Elements(call.todo)
    BY <2>1 DEF Keeps
  <2> QED BY <1>1, <1>3, <1>5, <1>6, <1>7, <2>2, DropQuiet
<1>8. CASE fresh
  <2>1. PICK e, m1 : e = NewEntry(u.pts) /\ m1 = SetEntry(mb, u.key, e)
    OBVIOUS
  <2>2. ~Known(mb, u.key) /\ ~Getting(mb, u.key) /\ mb' = TryBeginGetDiff(m1, u.key)
        /\ Establish({u.key}, [k \in {u.key} |-> u.pts])
    BY <1>2, <1>3, <1>8, <2>1 DEF Getting
  <2>3. Good(m1) /\ m1 \in Box
    BY <1>4, <2>1, <2>2, SetNewGood DEF Good
  <2>4. e.pts = u.pts /\ PacedEntry(e) /\ Elements(e.gap) = {} /\ e # NoEntry
    BY <1>4, <2>1, NewEntryPaced
  <2>5. m1.entries = [mb.entries EXCEPT ![u.key] = e] /\ m1.held_updates = mb.held_updates
    BY <1>4, <2>1 DEF SetEntry, Box
  <2>6. /\ m1.entries[u.key] = e /\ Pts(m1, u.key) = e.pts /\ Gaps(m1) \subseteq Gaps(mb) \cup Elements(e.gap)
        /\ \A j \in Keys \ {u.key} : m1.entries[j] = mb.entries[j] /\ Pts(m1, j) = Pts(mb, j)
    BY <1>4, <2>5, OneEntry
  <2>7. Keeps(m1, mb')
    BY <1>4, <2>2, <2>3, TryBeginKeeps
  <2>8. \A j \in Keys : /\ Pts(mb', j) = Pts(m1, j) /\ (Known(mb', j) <=> Known(m1, j))
                        /\ Known(m1, j) /\ PacedEntry(m1.entries[j]) => PacedEntry(mb'.entries[j])
    BY <1>4, <2>3, <2>7, SameIsKnown DEF Keeps, Same
  <2>9. Delayed'
    <3>1. ASSUME NEW j \in Keys, Known(mb', j)
          PROVE  PacedEntry(mb'.entries[j])
      <4>1. Known(m1, j)
        BY <2>8, <3>1
      <4>2. PacedEntry(m1.entries[j])
        BY <2>4, <2>6, <4>1 DEF DInv, Delayed, Known
      <4> QED BY <2>8, <4>1, <4>2
    <3> QED BY <3>1 DEF Delayed
  <2>10. /\ \A f \in Counted : Owed(f)' <=> Owed(f) /\ ~(f = u /\ f.key \in call.force)
         /\ OwedOnce' /\ Plain' /\ Elements(call'.todo) \subseteq Elements(call.todo)
    BY <1>1, <1>3, <1>4, <1>5, Dropped DEF DInv
  <2>11. ASSUME NEW f \in Counted, f.key = u.key
         PROVE  ~Owed(f)
    <3>1. Pts(mb, u.key) = -1 /\ f.pts \in Nat
      BY <1>4, <2>2, KnownPts, EventsAssumption DEF Counted
    <3>2. ~Covered(f)
      BY <2>11, <3>1 DEF Covered
    <3> QED BY <3>2 DEF DInv, Accounted
  <2>12. \A f \in Counted : (Owed(f)' <=> Owed(f)) /\ (f.key \in {u.key} => ~Owed(f))
    BY <1>6, <2>10, <2>11
  <2>13. u.pts <= srv[u.key]
    BY <1>4 DEF DInv, Behind, Carried
  <2>14. Carried(mb', call') \subseteq Carried(mb, call)
    BY <1>5, <2>4, <2>5, <2>6, <2>7, <2>10 DEF Carried, Keeps, Stock
  <2>15. /\ {u.key} \in SUBSET Keys /\ Pts(mb', u.key) = [k \in {u.key} |-> u.pts][u.key]
         /\ [k \in {u.key} |-> u.pts][u.key] <= srv[u.key]
    BY <1>4, <2>4, <2>6, <2>8, <2>13
  <2>16. \A j \in Keys \ {u.key} : Pts(mb', j) = Pts(mb, j)
    BY <2>6, <2>8
  <2> QED BY <1>3, <2>2, <2>9, <2>10, <2>12, <2>14, <2>15, <2>16, EstablishStep
<1> QED BY <1>7, <1>8


-----------------------------------------------------------------------------
(* Steps that compare an update with the position of its sequence *)

(* Only the update itself lies between the position it follows and its own *)
LEMMA OnlyItself ==
    ASSUME NEW u \in Events, NEW e \in Counted, e.key = u.key, SortKey(u) < e.pts, e.pts <= u.pts
    PROVE  e = u
<1>1. u.pts \in Nat /\ u.count \in Nat /\ e.pts \in Nat /\ e.count \in Nat /\ e.count > 0
  BY EventProps, EventsAssumption DEF Counted
<1>2. u.count > 0
  BY <1>1 DEF SortKey
<1>3. u \in Counted
  BY <1>2 DEF Counted
<1>4. e # u => e.pts <= u.pts - u.count \/ u.pts <= e.pts - e.count
  BY <1>3, NumberingAssumption
<1> QED BY <1>1, <1>4 DEF SortKey

(* Sequence k, at a, takes the update u or not *)
LEMMA AdvanceStep ==
    ASSUME Inv, DInv, Inv', srv' = srv, NEW k \in Keys, NEW u \in Events, u.key = k,
           u \in Carried(mb, call), ~Getting(mb, k),
           NEW a \in Nat, NEW applies \in BOOLEAN,
           Known(mb, k) => a = Pts(mb, k) /\ base'[k] = base[k],
           ~Known(mb, k) => applies /\ base'[k] = a,
           applies => a + u.count = u.pts /\ Pts(mb', k) = u.pts,
           ~applies => Pts(mb', k) = a,
           \A j \in Keys \ {k} : Pts(mb', j) = Pts(mb, j) /\ base'[j] = base[j],
           \A e \in Counted : delivered'[e] = IF applies /\ e = u THEN delivered[e] + 1 ELSE delivered[e],
           \A e \in Counted : Owed(e)' <=> Owed(e), OwedOnce', Plain', Delayed',
           Carried(mb', call') \subseteq Carried(mb, call)
    PROVE  DInv' /\ Forward /\ Frozen
<1>1. /\ mb \in Box /\ mb' \in Box /\ srv[k] \in Nat /\ base[k] \in Nat /\ base'[k] \in Nat
      /\ u.pts \in Nat /\ u.count \in Nat /\ u.pts <= srv[k]
  BY EventProps DEF Inv, TypeOK, DInv, Behind
<1>2. Pts(mb, k) \in Int /\ (~Known(mb, k) => Pts(mb, k) = -1) /\ Pts(mb, k) <= srv[k]
      /\ (Known(mb, k) => base[k] <= Pts(mb, k))
  BY <1>1, KnownPts DEF DInv, Based, Behind
<1>3. /\ Pts(mb', k) <= srv[k] /\ base'[k] <= Pts(mb', k) /\ Pts(mb', k) \in Nat
      /\ Known(mb, k) => Pts(mb', k) >= Pts(mb, k)
  BY <1>1, <1>2
<1>4. ASSUME NEW e \in Counted, e.key = k
      PROVE  /\ Owed(e)' => Covered(e)'
             /\ delivered'[e] = IF Covered(e)' /\ ~Owed(e)' THEN 1 ELSE 0
  <2>1. e.pts \in Nat /\ (Owed(e) => Covered(e)) /\ delivered[e] = IF Covered(e) /\ ~Owed(e) THEN 1 ELSE 0
    BY EventsAssumption DEF Counted, DInv, Accounted
  <2>2. Covered(e) <=> base[k] < e.pts /\ e.pts <= Pts(mb, k)
    BY <1>4 DEF Covered
  <2>3. Covered(e)' <=> base'[k] < e.pts /\ e.pts <= Pts(mb', k)
    BY <1>4 DEF Covered
  <2>4. CASE applies /\ e = u
    <3>1. u.count > 0
      BY <1>1, <2>4 DEF Counted
    <3>2. ~Covered(e) /\ Covered(e)'
      BY <1>1, <1>2, <2>2, <2>3, <2>4, <3>1
    <3>3. ~Owed(e) /\ ~Owed(e)' /\ delivered[e] = 0 /\ delivered'[e] = 1
      BY <2>1, <2>4, <3>2
    <3> QED BY <3>2, <3>3
  <2>5. CASE ~(applies /\ e = u)
    <3>1. applies => ~(a < e.pts /\ e.pts <= u.pts)
      BY <1>1, <1>4, <2>5, OnlyItself DEF SortKey
    <3>2. Covered(e)' <=> Covered(e)
      BY <1>1, <1>2, <2>1, <2>2, <2>3, <3>1
    <3>3. (Owed(e)' <=> Owed(e)) /\ delivered'[e] = delivered[e]
      BY <2>5
    <3> QED BY <2>1, <3>2, <3>3
  <2> QED BY <2>4, <2>5
<1>5. ASSUME NEW e \in Counted, e.key # k
      PROVE  (Owed(e)' <=> Owed(e)) /\ delivered'[e] = delivered[e]
  BY <1>5
<1>6. {k} \in SUBSET Keys
  OBVIOUS
<1> QED BY <1>3, <1>4, <1>5, <1>6, MoveStep


(* What the update does to its entry *)
LEMMA AfterUpdateMoves ==
    ASSUME NEW u \in Events, NEW e \in Entry, ~e.pending, ~e.deferred, KeysAre(e.gap, u.key)
    PROVE  LET n == AfterUpdate(e, u)
           IN  /\ n.pts = IF Applies(e, u) THEN u.pts ELSE e.pts
               /\ Elements(n.gap) \subseteq Elements(e.gap) \cup {u}
               /\ PacedEntry(e) => PacedEntry(n)
<1>1. PICK n : n = AfterUpdate(e, u)
  OBVIOUS
<1>2. n \in Entry /\ ~n.pending /\ ~n.deferred
  BY <1>1, AfterUpdateProps
<1>3. e.gap \in Seq(Events) /\ e.pts \in Nat /\ u.pts \in Nat /\ u.count \in Nat
  BY EventProps DEF Entry
<1>4. CASE Applies(e, u)
  <2>1. ~LeavesGap(e, u)
    BY <1>3, <1>4 DEF Applies, LeavesGap
  <2>2. n = [e EXCEPT !.pts = u.pts, !.deadline = NoUpdatesTimeout]
    BY <1>1, <1>4, <2>1 DEF AfterUpdate
  <2>3. n.pts = u.pts /\ n.gap = e.gap /\ n.notBefore = e.notBefore
    BY <2>2 DEF Entry
  <2> QED BY <1>1, <1>2, <1>4, <2>3 DEF PacedEntry
<1>5. CASE ~Applies(e, u) /\ LeavesGap(e, u)
  <2>1. PICK g, gd : g = (IF Len(e.gap) < MaxHeld THEN Append(e.gap, u) ELSE e.gap)
                  /\ gd = (IF e.gap = <<>> THEN GapTimeout ELSE e.gapDeadline)
    OBVIOUS
  <2>2. n = [e EXCEPT !.gapDeadline = gd, !.gap = g]
    BY <1>1, <1>5, <2>1 DEF AfterUpdate
  <2>3. n.pts = e.pts /\ n.gap = g /\ n.notBefore = e.notBefore
    BY <2>2 DEF Entry
  <2>4. Elements(g) \subseteq Elements(e.gap) \cup {u}
    BY <1>3, <2>1, ElementsAppend
  <2> QED BY <1>1, <1>2, <1>5, <2>3, <2>4 DEF PacedEntry
<1>6. CASE ~Applies(e, u) /\ ~LeavesGap(e, u)
  <2>1. n = e
    BY <1>1, <1>6 DEF AfterUpdate
  <2> QED BY <1>1, <1>6, <2>1
<1> QED BY <1>4, <1>5, <1>6

(* What taking the last update of a gap does to its entry *)
LEMMA AfterPopMoves ==
    ASSUME NEW e \in Entry, ~e.pending, ~e.deferred, NEW k, KeysAre(e.gap, k),
           e.gap # <<>>, NEW u, u = e.gap[Len(e.gap)]
    PROVE  LET n == AfterPop(e, u)
           IN  /\ n.pts = IF Applies(e, u) THEN u.pts ELSE e.pts
               /\ Elements(n.gap) \subseteq Elements(e.gap)
               /\ PacedEntry(e) => PacedEntry(n)
               /\ u \in Elements(e.gap) /\ u.key = k
<1>1. PICK n, left, p, gd : /\ n = AfterPop(e, u)
                            /\ left = SubSeq(e.gap, 1, Len(e.gap) - 1)
                            /\ p = (IF Applies(e, u) THEN u.pts ELSE e.pts)
                            /\ gd = (IF left = <<>> THEN 0 ELSE e.gapDeadline)
  OBVIOUS
<1>2. n \in Entry /\ ~n.pending /\ ~n.deferred
  BY <1>1, AfterPopProps
<1>3. n = [e EXCEPT !.pts = p, !.gap = left, !.gapDeadline = gd]
  BY <1>1 DEF AfterPop
<1>4. n.pts = p /\ n.gap = left /\ n.notBefore = e.notBefore
  BY <1>3 DEF Entry
<1>5. PICK s \in Seq(Events) : s = e.gap
  BY DEF Entry
<1>6. PICK l \in Nat : l = Len(s) /\ l # 0 /\ DOMAIN s = 1 .. l
  BY <1>5, LenProperties, EmptySeq
<1>7. Len(left) = l - 1 /\ left \in Seq(Events) /\ \A j \in 1 .. l - 1 : left[j] = s[j]
  <2>1. 1 \in 1 .. Len(s) + 1 /\ l - 1 \in 0 .. Len(s) /\ \A j \in 1 .. l - 1 : s[1 + j - 1] = s[j]
    BY <1>6
  <2> QED BY <1>1, <1>5, <1>6, <2>1, SubSeqProperties
<1>8. DOMAIN left = 1 .. l - 1
  BY <1>6, <1>7, LenProperties
<1>9. Elements(left) \subseteq Elements(s) /\ u \in Elements(s)
  BY <1>5, <1>6, <1>7, <1>8 DEF Elements
<1>10. u.key = k
  BY <1>5, <1>6 DEF KeysAre
<1> QED BY <1>1, <1>2, <1>4, <1>5, <1>9, <1>10 DEF PacedEntry

LEMMA LoopOrderedDelivers ==
    ASSUME NEW i \in DOMAIN call.todo, Inv, DInv, Inv', LoopOrdered(i)
    PROVE  DInv' /\ Forward /\ Frozen
<1>1. PICK u, k, e, e1, m1 : /\ u = call.todo[i] /\ k = u.key /\ e = EntryFor(u)
                             /\ e1 = AfterUpdate(e, u) /\ m1 = SetEntry(mb, k, e1)
  OBVIOUS
<1>2. PICK applies \in BOOLEAN : applies <=> Applies(e, u)
  OBVIOUS
<1>3. /\ call.phase = "loop" /\ u.kind = "pts" /\ k \notin call.force /\ ~Getting(mb, k) /\ srv' = srv
      /\ Deliver(IF applies THEN {u} ELSE {})
      /\ base' = IF Known(mb, k) THEN base ELSE [base EXCEPT ![k] = SortKey(u)]
  BY <1>1, <1>2 DEF LoopOrdered, AtUpdate
<1>4. /\ mb' = m1 \/ mb' = [m1 EXCEPT !.next_deadline = Min2(@, NoUpdatesTimeout)]
      /\ \/ call' = [call EXCEPT !.todo = Rest(i), !.got = call.got \/ applies]
         \/ call' = [call EXCEPT !.todo = Rest(i), !.got = call.got \/ applies,
                                 !.phase = "sort", !.built = <<>>, !.key = k]
  <2>1. CASE e1.gap = <<>>
    BY <1>1, <1>2, <2>1 DEF LoopOrdered
  <2>2. CASE e1.gap # <<>>
    BY <1>1, <1>2, <2>2 DEF LoopOrdered
  <2> QED BY <2>1, <2>2
<1>5. /\ call \in Call /\ mb \in Box /\ Good(mb) /\ u \in Elements(call.todo) /\ u \in Events
      /\ base \in [Keys -> Nat] /\ delivered \in [Counted -> Nat]
  BY <1>1, <1>3, AtHand, ChannelLoop DEF Inv, TypeOK
<1>6. k \in Keys /\ u.pts \in Nat /\ u.count \in Nat /\ SortKey(u) \in Nat
  BY <1>1, <1>5, EventProps
<1>7. e \in Entry /\ ~e.pending /\ ~e.deferred /\ KeysAre(e.gap, k)
  BY <1>1, <1>3, <1>5, EntryForProps
<1>8. e1 \in Entry /\ e1.pts = (IF applies THEN u.pts ELSE e.pts)
      /\ Elements(e1.gap) \subseteq Elements(e.gap) \cup {u} /\ (PacedEntry(e) => PacedEntry(e1))
  <2>1. KeysAre(e.gap, u.key) /\ e1 = AfterUpdate(e, u)
    BY <1>1, <1>7
  <2>2. e1 \in Entry
    BY <1>5, <1>7, <2>1, AfterUpdateProps
  <2>3. /\ e1.pts = (IF Applies(e, u) THEN u.pts ELSE e.pts)
        /\ Elements(e1.gap) \subseteq Elements(e.gap) \cup {u} /\ (PacedEntry(e) => PacedEntry(e1))
    BY <1>5, <1>7, <2>1, AfterUpdateMoves
  <2> QED BY <1>2, <2>2, <2>3
<1>9. /\ Known(mb, k) => e = mb.entries[k] /\ e.pts = Pts(mb, k)
      /\ ~Known(mb, k) => e = NewEntry(SortKey(u)) /\ e.pts = SortKey(u) /\ applies
  <2>1. NewEntry(SortKey(u)).pts = SortKey(u)
    BY DEF NewEntry
  <2>2. e.pts = SortKey(u) => applies
    BY <1>2, <1>6 DEF Applies, SortKey
  <2> QED BY <1>1, <2>1, <2>2 DEF EntryFor, Pts
<1>10. PacedEntry(e) /\ Elements(e.gap) \subseteq Stock(mb)
  <2>1. CASE Known(mb, k)
    BY <1>6, <1>9, <2>1, GapInStock DEF DInv, Delayed
  <2>2. CASE ~Known(mb, k)
    BY <1>6, <1>9, <2>2, NewEntryPaced
  <2> QED BY <2>1, <2>2
<1>11. m1 \in Box /\ m1.entries = [mb.entries EXCEPT ![k] = e1] /\ m1.held_updates = mb.held_updates
  BY <1>1, <1>5, <1>6, <1>8, SetEntryBox DEF SetEntry, Box
<1>12. mb'.entries = [mb.entries EXCEPT ![k] = e1] /\ mb'.held_updates = mb.held_updates
  BY <1>4, <1>11 DEF Box
<1>13. /\ mb'.entries[k] = e1 /\ Pts(mb', k) = e1.pts /\ Gaps(mb') \subseteq Gaps(mb) \cup Elements(e1.gap)
       /\ \A j \in Keys \ {k} : mb'.entries[j] = mb.entries[j] /\ Pts(mb', j) = Pts(mb, j)
  BY <1>5, <1>6, <1>12, OneEntry
<1>14. Delayed'
  BY <1>8, <1>10, <1>13 DEF DInv, Delayed, Known
<1>15. /\ call'.phase \in {"loop", "sort"} /\ call'.todo = Rest(i) /\ call'.force = call.force
       /\ call'.msgs = call.msgs /\ call'.after = call.after /\ (call'.built = call.built \/ call'.built = <<>>)
  BY <1>3, <1>4, <1>5 DEF Call
<1>16. /\ \A f \in Counted : Owed(f)' <=> Owed(f) /\ ~(f = u /\ f.key \in call.force)
       /\ OwedOnce' /\ Plain' /\ Elements(call'.todo) \subseteq Elements(call.todo)
  BY <1>1, <1>3, <1>5, <1>15, Dropped DEF DInv
<1>17. \A f \in Counted : Owed(f)' <=> Owed(f)
  BY <1>1, <1>3, <1>16
<1>18. Carried(mb', call') \subseteq Carried(mb, call)
  <2>1. Elements(call'.built) \subseteq Elements(call.built)
    BY <1>15, ElementsEmpty
  <2> QED BY <1>5, <1>8, <1>10, <1>12, <1>13, <1>16, <2>1 DEF Carried, Stock
<1>19. u \in Carried(mb, call)
  BY <1>5 DEF Carried
<1>20. \A f \in Counted : delivered'[f] = IF applies /\ f = u THEN delivered[f] + 1 ELSE delivered[f]
  BY <1>3 DEF Deliver
<1>21. /\ e.pts \in Nat
       /\ Known(mb, k) => e.pts = Pts(mb, k) /\ base'[k] = base[k]
       /\ ~Known(mb, k) => applies /\ base'[k] = e.pts
       /\ applies => e.pts + u.count = u.pts /\ Pts(mb', k) = u.pts
       /\ ~applies => Pts(mb', k) = e.pts
       /\ \A j \in Keys \ {k} : Pts(mb', j) = Pts(mb, j) /\ base'[j] = base[j]
  <2>1. e.pts \in Nat
    BY <1>7 DEF Entry
  <2>2. applies => e.pts + u.count = u.pts
    BY <1>2 DEF Applies
  <2>3. (Known(mb, k) => base'[k] = base[k]) /\ (~Known(mb, k) => base'[k] = SortKey(u))
        /\ \A j \in Keys \ {k} : base'[j] = base[j]
    BY <1>3, <1>5, <1>6
  <2> QED BY <1>8, <1>9, <1>13, <2>1, <2>2, <2>3
<1> QED BY <1>1, <1>3, <1>5, <1>6, <1>14, <1>16, <1>17, <1>18, <1>19, <1>20, <1>21, AdvanceStep

LEMMA LoopDrainDelivers ==
    ASSUME Inv, DInv, Inv', LoopDrain
    PROVE  DInv' /\ Forward /\ Frozen
<1>1. PICK k, e : k = call.key /\ e = mb.entries[k]
  OBVIOUS
<1>2. PICK u, e1, m1 : u = e.gap[Len(e.gap)] /\ e1 = AfterPop(e, u) /\ m1 = SetEntry(mb, k, e1)
  OBVIOUS
<1>3. PICK applies \in BOOLEAN : applies <=> Applies(e, u)
  OBVIOUS
<1>4. /\ call.phase = "drain" /\ srv' = srv /\ Handed(IF applies THEN {u} ELSE {})
  BY <1>1, <1>2, <1>3 DEF LoopDrain
<1>5. /\ LeavesGap(e, u) => /\ mb' = [mb EXCEPT !.next_deadline = Min2(@, e.gapDeadline)]
                            /\ call' = [call EXCEPT !.phase = "loop", !.gaps = TRUE]
      /\ ~LeavesGap(e, u) =>
            /\ mb' = [m1 EXCEPT !.next_deadline = IF e1.gap = <<>> THEN Min2(@, NoUpdatesTimeout) ELSE @]
            /\ call' = [call EXCEPT !.phase = IF e1.gap = <<>> THEN "loop" ELSE "drain",
                                    !.got = call.got \/ Applies(e, u)]
  BY <1>1, <1>2 DEF LoopDrain
<1>6. /\ mb \in Box /\ call \in Call /\ k \in Keys /\ Known(mb, k) /\ ~Getting(mb, k)
      /\ e \in Entry /\ ~e.pending /\ ~e.deferred /\ KeysAre(e.gap, k) /\ e.gap # <<>>
  BY <1>1, <1>4, SortingProps
<1>7. e1 \in Entry /\ u \in Events
  BY <1>2, <1>6, AfterPopProps
<1>8. /\ e1.pts = (IF applies THEN u.pts ELSE e.pts) /\ Elements(e1.gap) \subseteq Elements(e.gap)
      /\ PacedEntry(e) => PacedEntry(e1)
      /\ u \in Elements(e.gap) /\ u.key = k
  BY <1>2, <1>3, <1>6, AfterPopMoves
<1>9. e.pts = Pts(mb, k) /\ e.pts \in Nat /\ u.pts \in Nat /\ u.count \in Nat /\ PacedEntry(e)
      /\ Elements(e.gap) \subseteq Stock(mb)
  BY <1>1, <1>6, <1>7, EventProps, GapInStock DEF Pts, Entry, DInv, Delayed
<1>10. m1 \in Box /\ m1.entries = [mb.entries EXCEPT ![k] = e1] /\ m1.held_updates = mb.held_updates
  BY <1>2, <1>6, <1>7, SetEntryBox DEF SetEntry, Box
<1>11. /\ call'.phase \in {"loop", "drain"} /\ call'.todo = call.todo /\ call'.force = call.force
       /\ call'.msgs = call.msgs /\ call'.after = call.after /\ call'.built = call.built
  <2>1. CASE LeavesGap(e, u)
    BY <1>5, <1>6, <2>1 DEF Call
  <2>2. CASE ~LeavesGap(e, u)
    <3>1. PICK ph \in {"loop", "drain"} : ph = IF e1.gap = <<>> THEN "loop" ELSE "drain"
      OBVIOUS
    <3>2. call' = [call EXCEPT !.phase = ph, !.got = call.got \/ Applies(e, u)]
      BY <1>5, <2>2, <3>1
    <3> QED BY <1>6, <3>2 DEF Call
  <2> QED BY <2>1, <2>2
<1>12. (\A f \in Counted : Owed(f)' <=> Owed(f)) /\ OwedOnce' /\ Plain'
  BY <1>4, <1>11, SameHanding DEF Handing, DInv
<1>13. /\ Pts(mb', k) = (IF applies THEN u.pts ELSE e.pts) /\ Delayed' /\ Stock(mb') \subseteq Stock(mb)
       /\ \A j \in Keys \ {k} : Pts(mb', j) = Pts(mb, j)
  <2>1. CASE LeavesGap(e, u)
    <3>1. mb'.entries = mb.entries /\ mb'.held_updates = mb.held_updates
      BY <1>5, <1>6, <2>1 DEF Box
    <3>2. ~applies
      BY <1>3, <1>9, <2>1 DEF Applies, LeavesGap
    <3>3. Delayed'
      BY <3>1 DEF DInv, Delayed, Known
    <3>4. Stock(mb') \subseteq Stock(mb)
      BY <3>1, SameEntries DEF Keeps
    <3> QED BY <1>9, <3>1, <3>2, <3>3, <3>4 DEF Pts
  <2>2. CASE ~LeavesGap(e, u)
    <3>1. mb'.entries = [mb.entries EXCEPT ![k] = e1] /\ mb'.held_updates = mb.held_updates
      BY <1>5, <1>10, <2>2 DEF Box
    <3>2. /\ mb'.entries[k] = e1 /\ Pts(mb', k) = e1.pts /\ Gaps(mb') \subseteq Gaps(mb) \cup Elements(e1.gap)
          /\ \A j \in Keys \ {k} : mb'.entries[j] = mb.entries[j] /\ Pts(mb', j) = Pts(mb, j)
      BY <1>6, <3>1, OneEntry
    <3>3. Delayed'
      BY <1>8, <1>9, <3>2 DEF DInv, Delayed, Known
    <3>4. Stock(mb') \subseteq Stock(mb)
      BY <1>8, <1>9, <3>1, <3>2 DEF Stock
    <3> QED BY <1>8, <3>2, <3>3, <3>4
  <2> QED BY <2>1, <2>2
<1>14. Carried(mb', call') \subseteq Carried(mb, call) /\ u \in Carried(mb, call)
  BY <1>8, <1>9, <1>11, <1>13 DEF Carried, Stock
<1>15. base' = base /\ \A f \in Counted : delivered'[f] = IF applies /\ f = u THEN delivered[f] + 1 ELSE delivered[f]
  BY <1>4 DEF Handed, Deliver
<1>16. applies => e.pts + u.count = u.pts
  BY <1>3 DEF Applies
<1> QED BY <1>4, <1>6, <1>7, <1>8, <1>9, <1>12, <1>13, <1>14, <1>15, <1>16, AdvanceStep


-----------------------------------------------------------------------------
(* Differences: their positions are taken over before their events are handed out *)

(* The events a difference brings are the ones it lists *)
LEMMA OrderingElements ==
    ASSUME NEW S \in SUBSET Events, NEW o \in Orderings(S)
    PROVE  /\ o \in Seq(Updates) /\ Elements(o) = S
           /\ \A i, j \in DOMAIN o : o[i] = o[j] => i = j
<1>1. IsFiniteSet(S)
  BY EventsAssumption, FS_Subset
<1>2. PICK n \in Nat : n = Cardinality(S)
  BY <1>1, FS_CardinalityType
<1>3. o \in [1 .. n -> S] /\ \A i, j \in 1 .. n : o[i] = o[j] => i = j
  BY <1>2 DEF Orderings
<1>4. o \in Injection(1 .. n, S)
  BY <1>3, Fun_IsInj
<1>5. Cardinality(1 .. n) = n
  BY FS_Interval
<1>6. o \in Surjection(1 .. n, S)
  BY <1>1, <1>2, <1>4, <1>5, FS_Injection
<1>7. \A t \in S : \E i \in 1 .. n : o[i] = t
  BY <1>6, Fun_SurjectionProperties
<1>8. DOMAIN o = 1 .. n
  BY <1>3
<1>9. Elements(o) = S
  BY <1>3, <1>7, <1>8 DEF Elements
<1>10. o \in Seq(Updates)
  BY OrderingsProps, EventsAreUpdates
<1> QED BY <1>3, <1>8, <1>9, <1>10

(* A call that begins with the events S of a difference for the sequences K, and with
   updates of other sequences *)
LEMMA TakenOver ==
    ASSUME NEW S \in SUBSET Counted, NEW K, \A e \in S : e.key \in K,
           NEW others \in Orderings({e \in S : ~e.msg}), NEW extra \in Seq(Updates),
           \A u \in Elements(extra) : u.key \notin K,
           call'.phase = "loop", call'.todo = others \o extra, call'.force = K,
           call'.msgs = {e \in S : e.msg}
    PROVE  /\ \A e \in Counted : Owed(e)' <=> e \in S
           /\ OwedOnce'
           /\ Elements(call'.todo) \subseteq S \cup Elements(extra)
<1>1. PICK N : N = {e \in S : ~e.msg}
  OBVIOUS
<1>2. N \in SUBSET Events /\ N \subseteq S
  BY <1>1 DEF Counted
<1>3. others \in Seq(Updates) /\ Elements(others) = N /\ \A i, j \in DOMAIN others : others[i] = others[j] => i = j
  BY <1>1, <1>2, OrderingElements
<1>4. Elements(call'.todo) = N \cup Elements(extra)
  BY <1>3, ElementsConcat
<1>5. \A e : Forced(e)' <=> e \in N
  BY <1>1, <1>4 DEF Forced
<1>6. Handing'
  BY DEF Handing
<1>7. \A e : Owed(e)' <=> e \in call'.msgs \/ e \in N
  BY <1>5, <1>6 DEF Owed
<1>8. \A e \in Counted : Owed(e)' <=> e \in S
  BY <1>1, <1>7
<1>9. \A e \in call'.msgs : ~Forced(e)'
  BY <1>1, <1>5
<1>10. ASSUME NEW i \in DOMAIN call'.todo, NEW j \in DOMAIN call'.todo,
              call'.todo[i].key \in K, call'.todo[i] = call'.todo[j]
       PROVE  i = j
  <2>1. PICK l \in Nat : l = Len(others) /\ DOMAIN others = 1 .. l
    BY <1>3, LenProperties
  <2>2. PICK n \in Nat : n = Len(extra) /\ DOMAIN extra = 1 .. n
    BY LenProperties
  <2>3. /\ call'.todo \in Seq(Updates) /\ Len(call'.todo) = l + n
        /\ \A x \in 1 .. l + n : call'.todo[x] = IF x <= l THEN others[x] ELSE extra[x - l]
    BY <1>3, <2>1, <2>2, ConcatProperties
  <2>4. DOMAIN call'.todo = 1 .. l + n
    BY <2>3, LenProperties
  <2>5. ASSUME NEW x \in 1 .. l + n, call'.todo[x].key \in K
        PROVE  x \in DOMAIN others /\ call'.todo[x] = others[x]
    <3>1. x <= l
      <4> SUFFICES ASSUME ~(x <= l) PROVE FALSE
        OBVIOUS
      <4>1. x - l \in 1 .. n
        OBVIOUS
      <4>2. extra[x - l] \in Elements(extra)
        BY <2>2, <4>1 DEF Elements
      <4> QED BY <2>3, <2>5, <4>2
    <3> QED BY <2>1, <2>3, <3>1
  <2>6. i \in 1 .. l + n /\ j \in 1 .. l + n /\ call'.todo[j].key \in K
    BY <1>10, <2>4
  <2> QED BY <1>3, <1>10, <2>5, <2>6
<1>11. OwedOnce'
  BY <1>9, <1>10 DEF OwedOnce
<1> QED BY <1>2, <1>4, <1>8, <1>11

(* Sequence k moves from a to p: what lies between is owed, what was handed out stays so *)
LEMMA Gains ==
    ASSUME Inv, DInv, Inv', NEW k \in Keys, NEW e \in Counted, e.key = k, ~Owed(e),
           NEW a \in Nat, NEW p \in Nat, a <= p, Pts(mb', k) = p,
           Known(mb, k) => a = Pts(mb, k) /\ base'[k] = base[k] /\ delivered'[e] = delivered[e],
           ~Known(mb, k) => base'[k] = a /\ delivered'[e] = 0,
           Owed(e)' <=> e \in Between(k, a, p)
    PROVE  /\ Owed(e)' => Covered(e)'
           /\ delivered'[e] = IF Covered(e)' /\ ~Owed(e)' THEN 1 ELSE 0
           /\ base'[k] <= p
<1>1. e.pts \in Nat /\ delivered[e] = (IF Covered(e) THEN 1 ELSE 0) /\ base[k] \in Nat /\ base'[k] \in Nat
  BY EventsAssumption DEF Counted, DInv, Accounted, Inv, TypeOK
<1>2. Covered(e) <=> base[k] < e.pts /\ e.pts <= Pts(mb, k)
  BY DEF Covered
<1>3. Covered(e)' <=> base'[k] < e.pts /\ e.pts <= p
  BY DEF Covered
<1>4. Owed(e)' <=> a < e.pts /\ e.pts <= p
  BY DEF Between
<1>5. Known(mb, k) => base[k] <= Pts(mb, k)
  BY DEF DInv, Based
<1>6. CASE Known(mb, k)
  <2>1. (Covered(e)' /\ ~Owed(e)') <=> Covered(e)
    BY <1>1, <1>2, <1>3, <1>4, <1>5, <1>6
  <2>2. (Owed(e)' => Covered(e)') /\ base'[k] <= p
    BY <1>1, <1>3, <1>4, <1>5, <1>6
  <2> QED BY <1>1, <1>6, <2>1, <2>2
<1>7. CASE ~Known(mb, k)
  <2>1. Covered(e)' <=> Owed(e)'
    BY <1>3, <1>4, <1>7
  <2> QED BY <1>7, <2>1
<1> QED BY <1>6, <1>7


LEMMA DifferenceDelivers ==
    ASSUME NEW pts \in Nat, NEW qts \in Nat, NEW others, NEW extra \in Seq(Updates),
           NEW final \in BOOLEAN, Inv, DInv, Inv', Difference(pts, qts, others, extra, final),
           PtsOf(Common) <= pts, pts <= srv[Common], PtsOf(Secondary) <= qts, qts <= srv[Secondary],
           \A u \in Elements(extra) : u.key \in Channels /\ u.pts <= srv[u.key]
    PROVE  DInv' /\ Forward /\ Frozen
<1>1. PICK a, b, S, K : /\ a = PtsOf(Common) /\ b = PtsOf(Secondary) /\ K = {Common, Secondary}
                        /\ S = Between(Common, a, pts) \cup Between(Secondary, b, qts)
  OBVIOUS
<1>2. PICK m1, m2, q : m1 = SetPts(mb, Common, pts) /\ m2 = SetPts(m1, Secondary, qts) /\ q = srvSeq
  OBVIOUS
<1>3. /\ call.phase = "idle" /\ srv' = srv /\ Known(mb, Common)
      /\ others \in Orderings({e \in S : ~e.msg})
      /\ mb' = [m2 EXCEPT !.seq = q]
      /\ call' = [BeginLoop(others \o extra, K, q) EXCEPT !.after = "account", !.final = final,
                                                          !.msgs = {e \in S : e.msg}]
  BY <1>1, <1>2 DEF Difference, AccountDiffWanted
<1>4. /\ Known(mb, Secondary) => Nothing
      /\ ~Known(mb, Secondary) => Establish({Secondary}, [k \in {Secondary} |-> Start])
  BY DEF Difference
<1>5. /\ Good(mb) /\ mb \in Box /\ Common \in Keys /\ Secondary \in Keys /\ Common # Secondary
      /\ Common \notin Channels /\ Secondary \notin Channels
  BY <1>3, IdleGood, ChannelsAreKeys, KeysAssumption DEF Common, Secondary
<1>6. Good(m1) /\ Good(m2) /\ m2 \in Box
  BY <1>2, <1>5, SetPtsGood DEF Good
<1>7. /\ Known(m1, Common) /\ Pts(m1, Common) = pts /\ Stock(m1) \subseteq Stock(mb)
      /\ \A j \in Keys \ {Common} : m1.entries[j] = mb.entries[j] /\ Pts(m1, j) = Pts(mb, j)
      /\ (Known(mb, Common) => PacedEntry(mb.entries[Common])) => PacedEntry(m1.entries[Common])
  BY <1>2, <1>5, SetPtsProps
<1>8. /\ Known(m2, Secondary) /\ Pts(m2, Secondary) = qts /\ Stock(m2) \subseteq Stock(m1)
      /\ \A j \in Keys \ {Secondary} : m2.entries[j] = m1.entries[j] /\ Pts(m2, j) = Pts(m1, j)
      /\ (Known(m1, Secondary) => PacedEntry(m1.entries[Secondary])) => PacedEntry(m2.entries[Secondary])
  BY <1>2, <1>5, <1>6, SetPtsProps
<1>9. mb'.entries = m2.entries /\ mb'.held_updates = m2.held_updates
  BY <1>3, <1>6 DEF Box
<1>10. Stock(mb') \subseteq Stock(mb)
  BY <1>7, <1>8, <1>9, SameEntries DEF Keeps
<1>11. /\ Pts(mb', Common) = pts /\ Pts(mb', Secondary) = qts
       /\ \A j \in Keys \ K : mb'.entries[j] = mb.entries[j] /\ Pts(mb', j) = Pts(mb, j)
  BY <1>1, <1>5, <1>7, <1>8, <1>9 DEF Pts
<1>12. Delayed'
  <2>1. ASSUME NEW j \in Keys, Known(mb', j)
        PROVE  PacedEntry(mb'.entries[j])
    <3>1. CASE j = Common
      BY <1>5, <1>7, <1>8, <1>9, <3>1 DEF DInv, Delayed
    <3>2. CASE j = Secondary
      <4>1. Known(m1, Secondary) => PacedEntry(m1.entries[Secondary])
        BY <1>5, <1>7 DEF DInv, Delayed, Known
      <4> QED BY <1>8, <1>9, <3>2, <4>1
    <3>3. CASE j \in Keys \ K
      BY <1>11, <2>1, <3>3 DEF DInv, Delayed, Known
    <3> QED BY <1>1, <3>1, <3>2, <3>3
  <2> QED BY <2>1 DEF Delayed
<1>13. /\ call'.phase = "loop" /\ call'.todo = others \o extra /\ call'.built = <<>> /\ call'.force = K
       /\ call'.msgs = {e \in S : e.msg} /\ call'.after = "account"
  <2>1. PICK c, t : t = others \o extra /\ c = BeginLoop(t, K, q)
    OBVIOUS
  <2>2. /\ c.phase = "loop" /\ c.todo = t /\ c.built = <<>> /\ c.force = K
        /\ DOMAIN c = DOMAIN Idle
    BY <2>1 DEF BeginLoop, Idle
  <2>3. /\ {"after", "final", "msgs"} \subseteq DOMAIN c
    BY <2>2 DEF Idle
  <2>4. call' = [c EXCEPT !.after = "account", !.final = final, !.msgs = {e \in S : e.msg}]
    BY <1>3, <2>1
  <2> QED BY <2>1, <2>2, <2>3, <2>4 DEF BeginLoop, Idle
<1>14. S \in SUBSET Counted /\ \A e \in S : e.key \in K
  BY <1>1 DEF Between
<1>15. \A u \in Elements(extra) : u.key \notin K
  BY <1>1, <1>5
<1>16. /\ \A e \in Counted : Owed(e)' <=> e \in S
       /\ OwedOnce' /\ Elements(call'.todo) \subseteq S \cup Elements(extra)
  BY <1>3, <1>13, <1>14, <1>15, TakenOver
<1>17. \A e : ~Owed(e)
  BY <1>3 DEF Owed, Handing
<1>18. Plain'
  BY <1>13 DEF Plain
<1>19. \A u \in Carried(mb', call') : u \in Carried(mb, call) \/ u.pts <= srv[u.key]
  <2>1. \A u \in S : u.pts <= srv[u.key]
    <3>1. srv[Common] \in Nat /\ srv[Secondary] \in Nat /\ \A e \in Counted : e.pts \in Nat
      BY <1>5, EventsAssumption DEF Inv, TypeOK, Counted
    <3> QED BY <1>1, <3>1 DEF Between
  <2>2. Elements(call'.built) = {}
    BY <1>13, ElementsEmpty
  <2>3. \A u \in Carried(mb', call') : u \in Stock(mb) \/ u \in Elements(call'.todo)
    BY <1>10, <2>2 DEF Carried, Stock
  <2> QED BY <1>16, <2>1, <2>3 DEF Carried, Stock
<1>20. /\ a \in Nat /\ b \in Nat /\ a = Pts(mb, Common)
       /\ Known(mb, Secondary) => b = Pts(mb, Secondary)
       /\ ~Known(mb, Secondary) => b = Start
  <2>1. a \in Nat /\ b \in Nat
    BY <1>1, <1>5, PositionsNat DEF Inv
  <2> QED BY <1>1, <1>3, <2>1 DEF PtsOf, Pts
<1>21. /\ \A k \in Keys : k # Secondary \/ Known(mb, Secondary) => base'[k] = base[k]
       /\ ~Known(mb, Secondary) => base'[Secondary] = Start
       /\ \A e \in Counted : e.key # Secondary \/ Known(mb, Secondary) => delivered'[e] = delivered[e]
       /\ \A e \in Counted : e.key = Secondary /\ ~Known(mb, Secondary) => delivered'[e] = 0
  <2>1. CASE Known(mb, Secondary)
    BY <1>4, <2>1 DEF Nothing
  <2>2. CASE ~Known(mb, Secondary)
    <3>1. Establish({Secondary}, [k \in {Secondary} |-> Start])
      BY <1>4, <2>2
    <3> QED BY <1>5, <2>2, <3>1 DEF Establish
  <2> QED BY <2>1, <2>2
<1>22. ASSUME NEW e \in Counted, e.key = Common
       PROVE  /\ Owed(e)' => Covered(e)'
              /\ delivered'[e] = IF Covered(e)' /\ ~Owed(e)' THEN 1 ELSE 0
  <2>1. e \in S <=> e \in Between(Common, a, pts)
    BY <1>1, <1>5, <1>22 DEF Between
  <2>2. base'[Common] = base[Common] /\ delivered'[e] = delivered[e]
    BY <1>5, <1>21, <1>22
  <2> QED BY <1>1, <1>3, <1>5, <1>11, <1>16, <1>17, <1>20, <1>22, <2>1, <2>2, Gains
<1>23. ASSUME NEW e \in Counted, e.key = Secondary
       PROVE  /\ Owed(e)' => Covered(e)'
              /\ delivered'[e] = IF Covered(e)' /\ ~Owed(e)' THEN 1 ELSE 0
  <2>1. e \in S <=> e \in Between(Secondary, b, qts)
    BY <1>1, <1>5, <1>23 DEF Between
  <2>2. /\ Known(mb, Secondary) => b = Pts(mb, Secondary) /\ base'[Secondary] = base[Secondary]
                                   /\ delivered'[e] = delivered[e]
        /\ ~Known(mb, Secondary) => base'[Secondary] = b /\ delivered'[e] = 0
    BY <1>5, <1>20, <1>21, <1>23
  <2> QED BY <1>1, <1>5, <1>11, <1>16, <1>17, <1>20, <1>23, <2>1, <2>2, Gains
<1>24. ASSUME NEW k \in K
       PROVE  /\ Pts(mb', k) <= srv[k] /\ base'[k] <= Pts(mb', k)
              /\ Known(mb, k) => Pts(mb', k) >= Pts(mb, k)
  <2>1. base[Common] <= Pts(mb, Common) /\ base[Common] \in Nat /\ base[Secondary] \in Nat
        /\ (Known(mb, Secondary) => base[Secondary] <= Pts(mb, Secondary))
    BY <1>3, <1>5 DEF DInv, Based, Inv, TypeOK
  <2>2. base'[Common] = base[Common] /\ (Known(mb, Secondary) => base'[Secondary] = base[Secondary])
        /\ (~Known(mb, Secondary) => base'[Secondary] = b)
    BY <1>5, <1>20, <1>21
  <2>3. CASE k = Common
    BY <1>1, <1>11, <1>20, <2>1, <2>2, <2>3
  <2>4. CASE k = Secondary
    BY <1>1, <1>11, <1>20, <2>1, <2>2, <2>4
  <2> QED BY <1>1, <2>3, <2>4
<1>25. /\ \A k \in Keys \ K : base'[k] = base[k]
       /\ \A e \in Counted : e.key \notin K => ~Owed(e)' /\ delivered'[e] = delivered[e]
  BY <1>1, <1>14, <1>16, <1>21
<1>26. \A e \in Counted : e.key \in K =>
          /\ Owed(e)' => Covered(e)'
          /\ delivered'[e] = IF Covered(e)' /\ ~Owed(e)' THEN 1 ELSE 0
  BY <1>1, <1>22, <1>23
<1>27. K \in SUBSET Keys
  BY <1>1, <1>5
<1>28. \A k \in Keys \ K : Pts(mb', k) = Pts(mb, k) /\ base'[k] = base[k]
  BY <1>11, <1>25
<1>29. \A k \in K : Pts(mb', k) <= srv[k] /\ (Known(mb', k) => base'[k] <= Pts(mb', k))
  BY <1>24
<1>30. \A k \in K : Known(mb, k) /\ Known(mb', k) =>
          /\ Pts(mb', k) >= Pts(mb, k)
          /\ ~Getting(mb, k) \/ ~Getting(mb', k) \/ (call.phase = "idle" /\ k \in call'.force)
  BY <1>3, <1>13, <1>24
<1>31. \A e \in Counted : e.key \notin K => (Owed(e)' <=> Owed(e)) /\ delivered'[e] = delivered[e]
  BY <1>17, <1>25
<1> QED BY <1>3, <1>12, <1>16, <1>18, <1>19, <1>26, <1>27, <1>28, <1>29, <1>30, <1>31, MoveStep


(* Answering a channel moves its position and leaves the other positions alone *)
LEMMA ApplyChannelMoves ==
    ASSUME NEW c \in Channels, NEW p \in Nat, NEW others, NEW msgs, NEW final \in BOOLEAN, NEW timeout,
           Inv, DInv, Inv', ApplyChannel(c, p, others, msgs, final, timeout)
    PROVE  /\ call.phase = "idle" /\ srv' = srv /\ c \in Keys /\ mb \in Box /\ Known(mb, c)
           /\ Pts(mb', c) = p /\ Delayed' /\ Stock(mb') \subseteq Stock(mb)
           /\ \A j \in Keys \ {c} : Pts(mb', j) = Pts(mb, j)
           /\ call'.phase = "loop" /\ call'.todo = others /\ call'.built = <<>> /\ call'.force = {c}
           /\ call'.msgs = msgs /\ call'.after = "channel"
<1>1. PICK e, X : e = mb.entries[c] /\ X = mb.exhausted_channels \ {c}
  OBVIOUS
<1>2. PICK x, z : x = [mb EXCEPT !.exhausted_channels = X] /\ z = <<>>
  OBVIOUS
<1>3. PICK d : d = [e EXCEPT !.gap = z, !.gapDeadline = 0, !.deferred = FALSE,
                             !.deferrals = 0, !.failures = 0, !.notBefore = 0]
  OBVIOUS
<1>4. PICK m1, m2 : m1 = SetEntry(x, c, d) /\ m2 = (IF final THEN TryEndGetDiff(m1, c) ELSE m1)
  OBVIOUS
<1>5. /\ call.phase = "idle" /\ srv' = srv /\ IsChannelInDiff(mb, c)
      /\ mb' = SetPts(m2, c, p)
  BY <1>1, <1>2, <1>3, <1>4 DEF ApplyChannel, ChannelReady
<1>6. /\ Good(mb) /\ mb \in Box /\ c \in Keys /\ Known(mb, c) /\ e \in Entry
      /\ c \in Ready(mb) /\ e.pending /\ ~e.deferred /\ e.gap = <<>>
  BY <1>1, <1>5, IdleGood, ChannelReadyProps
<1>7. /\ d \in Entry /\ d.pending = e.pending /\ d.deferred = FALSE /\ d.gap = <<>> /\ d.notBefore = 0
      /\ d.pts = e.pts
  <2>1. z \in Seq(Events)
    BY <1>2, EmptySeq
  <2> QED BY <1>2, <1>3, <1>6, <2>1 DEF Entry
<1>8. Good(x) /\ x.entries = mb.entries /\ x.held_updates = mb.held_updates
  <2>1. X \in SUBSET Channels
    BY <1>1, <1>6 DEF Box
  <2> QED BY <1>2, <1>6, <2>1, SetExhaustedGood DEF Box
<1>9. Good(m1) /\ m1 \in Box
  <2>1. d.deferred = e.deferred /\ d.gap = e.gap /\ Known(x, c) /\ x.entries[c] = e
    BY <1>1, <1>6, <1>7, <1>8 DEF Entry, Known
  <2> QED BY <1>4, <1>6, <1>7, <1>8, <2>1, TouchEntryGood DEF Good
<1>10. Keeps(mb, m1)
  <2>1. m1.entries = [mb.entries EXCEPT ![c] = d] /\ m1.held_updates = mb.held_updates
    BY <1>4, <1>8 DEF SetEntry, Good, Box
  <2>2. d.pts = Pts(mb, c) /\ PacedEntry(d)
    BY <1>1, <1>7, BoundsNat DEF Pts, PacedEntry
  <2>3. Elements(d.gap) \subseteq Stock(mb) /\ Elements(m1.held_updates) \subseteq Stock(mb)
    BY <1>7, <2>1, ElementsEmpty DEF Stock
  <2> QED BY <1>6, <1>7, <2>1, <2>2, <2>3, EntryKeeps
<1>11. Good(m2) /\ Keeps(mb, m2) /\ m2 \in Box
  <2>1. CASE final
    <3>1. m2 = TryEndGetDiff(m1, c)
      BY <1>4, <2>1
    <3>2. Good(m2) /\ Keeps(m1, m2)
      BY <1>6, <1>9, <3>1, TryEndGood, TryEndKeeps
    <3> QED BY <1>6, <1>9, <1>10, <3>2, KeepsTrans DEF Good
  <2>2. CASE ~final
    BY <1>4, <1>9, <1>10, <2>2
  <2> QED BY <2>1, <2>2
<1>12. /\ Pts(mb', c) = p /\ Stock(mb') \subseteq Stock(m2)
       /\ \A j \in Keys \ {c} : mb'.entries[j] = m2.entries[j] /\ Pts(mb', j) = Pts(m2, j)
       /\ (Known(m2, c) => PacedEntry(m2.entries[c])) => PacedEntry(mb'.entries[c])
  BY <1>5, <1>6, <1>11, SetPtsProps
<1>13. \A j \in Keys : /\ Pts(m2, j) = Pts(mb, j) /\ (Known(m2, j) <=> Known(mb, j))
                       /\ Known(mb, j) /\ PacedEntry(mb.entries[j]) => PacedEntry(m2.entries[j])
  BY <1>6, <1>11, SameIsKnown DEF Keeps, Same
<1>14. Delayed'
  <2>1. \A j \in Keys : Known(m2, j) => PacedEntry(m2.entries[j])
    BY <1>13 DEF DInv, Delayed
  <2>2. ASSUME NEW j \in Keys, Known(mb', j)
        PROVE  PacedEntry(mb'.entries[j])
    <3>1. CASE j = c
      BY <1>12, <2>1, <3>1
    <3>2. CASE j # c
      BY <1>12, <2>1, <2>2, <3>2 DEF Known
    <3> QED BY <3>1, <3>2
  <2> QED BY <2>2 DEF Delayed
<1>15. /\ call'.phase = "loop" /\ call'.todo = others /\ call'.built = <<>> /\ call'.force = {c}
       /\ call'.msgs = msgs /\ call'.after = "channel"
  <2>1. PICK f, q : f = Min2(e.failures + 1, MaxFailures) /\ q = mb.seq
    OBVIOUS
  <2>2. call' = [BeginLoop(others, {c}, q) EXCEPT !.after = "channel", !.chan = c, !.final = final,
                             !.timeout = timeout, !.msgs = msgs, !.at = p, !.failures = f]
    BY <1>1, <2>1 DEF ApplyChannel
  <2> QED BY <2>2 DEF BeginLoop, Idle
<1>16. Stock(mb') \subseteq Stock(mb) /\ \A j \in Keys \ {c} : Pts(mb', j) = Pts(mb, j)
  BY <1>11, <1>12, <1>13 DEF Keeps
<1> QED BY <1>5, <1>6, <1>12, <1>14, <1>15, <1>16

LEMMA ChannelDifferenceDelivers ==
    ASSUME NEW c \in Channels, NEW p \in Nat, NEW others, NEW final \in BOOLEAN, NEW timeout \in Nat,
           Inv, DInv, Inv', ChannelDifference(c, p, others, final, timeout),
           PtsOf(c) <= p, p <= srv[c]
    PROVE  DInv' /\ Forward /\ Frozen
<1>1. PICK a, S : a = PtsOf(c) /\ S = Between(c, a, p)
  OBVIOUS
<1>2. PICK M : M = {e \in S : e.msg}
  OBVIOUS
<1>3. /\ others \in Orderings({e \in S : ~e.msg}) /\ ApplyChannel(c, p, others, M, final, timeout)
      /\ base' = base /\ delivered' = delivered
  BY <1>1, <1>2 DEF ChannelDifference, Nothing
<1>4. /\ call.phase = "idle" /\ srv' = srv /\ c \in Keys /\ mb \in Box /\ Known(mb, c)
      /\ Pts(mb', c) = p /\ Delayed' /\ Stock(mb') \subseteq Stock(mb)
      /\ \A j \in Keys \ {c} : Pts(mb', j) = Pts(mb, j)
      /\ call'.phase = "loop" /\ call'.todo = others /\ call'.built = <<>> /\ call'.force = {c}
      /\ call'.msgs = M /\ call'.after = "channel"
  BY <1>3, ApplyChannelMoves
<1>5. S \in SUBSET Counted /\ \A e \in S : e.key \in {c}
  BY <1>1 DEF Between
<1>6. PICK z \in Seq(Updates) : z = <<>>
  BY EmptySeq
<1>7. others \o z = others
  <2>1. {e \in S : ~e.msg} \in SUBSET Events
    BY <1>5 DEF Counted
  <2>2. others \in Seq(Updates)
    BY <1>3, <2>1, OrderingElements
  <2> QED BY <1>6, <2>2, ConcatEmptySeq
<1>8. Elements(z) = {}
  BY <1>6, ElementsEmpty
<1>9. /\ \A e \in Counted : Owed(e)' <=> e \in S
      /\ OwedOnce' /\ Elements(call'.todo) \subseteq S
  <2>1. /\ call'.todo = others \o z /\ call'.msgs = {e \in S : e.msg}
        /\ \A u \in Elements(z) : u.key \notin {c}
    BY <1>2, <1>4, <1>7, <1>8
  <2>2. /\ \A e \in Counted : Owed(e)' <=> e \in S
        /\ OwedOnce' /\ Elements(call'.todo) \subseteq S \cup Elements(z)
    BY <1>3, <1>4, <1>5, <2>1, TakenOver
  <2> QED BY <1>8, <2>2
<1>10. \A e : ~Owed(e)
  BY <1>4 DEF Owed, Handing
<1>11. Plain'
  BY <1>4 DEF Plain
<1>12. \A u \in Carried(mb', call') : u \in Carried(mb, call) \/ u.pts <= srv[u.key]
  <2>1. \A u \in S : u.pts <= srv[u.key]
    <3>1. srv[c] \in Nat /\ \A e \in Counted : e.pts \in Nat
      BY <1>4, EventsAssumption DEF Inv, TypeOK, Counted
    <3> QED BY <1>1, <3>1 DEF Between
  <2>2. Elements(call'.built) = {}
    BY <1>4, ElementsEmpty
  <2>3. \A u \in Carried(mb', call') : u \in Stock(mb) \/ u \in Elements(call'.todo)
    BY <1>4, <2>2 DEF Carried, Stock
  <2> QED BY <1>9, <2>1, <2>3 DEF Carried, Stock
<1>13. a \in Nat /\ a = Pts(mb, c) /\ base[c] <= a /\ base[c] \in Nat
  <2>1. a \in Nat
    BY <1>1, <1>4, PositionsNat DEF Inv
  <2>2. a = Pts(mb, c)
    BY <1>1, <1>4 DEF PtsOf, Pts
  <2> QED BY <1>4, <2>1, <2>2 DEF DInv, Based, Inv, TypeOK
<1>14. ASSUME NEW e \in Counted, e.key \in {c}
       PROVE  /\ Owed(e)' => Covered(e)'
              /\ delivered'[e] = IF Covered(e)' /\ ~Owed(e)' THEN 1 ELSE 0
  <2>1. e.key = c /\ base'[c] = base[c] /\ delivered'[e] = delivered[e]
    BY <1>3, <1>14
  <2>2. /\ Known(mb, c) => a = Pts(mb, c) /\ base'[c] = base[c] /\ delivered'[e] = delivered[e]
        /\ ~Known(mb, c) => base'[c] = a /\ delivered'[e] = 0
        /\ Owed(e)' <=> e \in Between(c, a, p)
        /\ ~Owed(e) /\ a <= p
    BY <1>1, <1>4, <1>9, <1>10, <1>13, <2>1
  <2> QED BY <1>4, <1>13, <2>1, <2>2, Gains
<1>15. \A k \in Keys \ {c} : Pts(mb', k) = Pts(mb, k) /\ base'[k] = base[k]
  BY <1>3, <1>4
<1>16. \A k \in {c} : Pts(mb', k) <= srv[k] /\ (Known(mb', k) => base'[k] <= Pts(mb', k))
  BY <1>1, <1>3, <1>4, <1>13
<1>17. \A k \in {c} : Known(mb, k) /\ Known(mb', k) =>
          /\ Pts(mb', k) >= Pts(mb, k)
          /\ ~Getting(mb, k) \/ ~Getting(mb', k) \/ (call.phase = "idle" /\ k \in call'.force)
  BY <1>1, <1>4, <1>13
<1>18. \A e \in Counted : e.key \notin {c} => (Owed(e)' <=> Owed(e)) /\ delivered'[e] = delivered[e]
  BY <1>3, <1>5, <1>9, <1>10
<1>19. {c} \in SUBSET Keys
  BY <1>4
<1> QED BY <1>4, <1>9, <1>11, <1>12, <1>14, <1>15, <1>16, <1>17, <1>18, <1>19, MoveStep

LEMMA ChannelDifferenceTooLongDelivers ==
    ASSUME NEW c \in Channels, NEW final \in BOOLEAN, NEW timeout \in Nat,
           Inv, DInv, Inv', ChannelDifferenceTooLong(c, srv[c], final, timeout)
    PROVE  DInv' /\ Forward /\ Frozen
<1>1. PICK p \in Nat : p = srv[c]
  BY ChannelsAreKeys DEF Inv, TypeOK
<1>2. ApplyChannel(c, p, <<>>, {}, final, timeout) /\ Establish({c}, [k \in Keys |-> p])
  BY <1>1 DEF ChannelDifferenceTooLong
<1>3. /\ call.phase = "idle" /\ srv' = srv /\ c \in Keys /\ mb \in Box /\ Known(mb, c)
      /\ Pts(mb', c) = p /\ Delayed' /\ Stock(mb') \subseteq Stock(mb)
      /\ \A j \in Keys \ {c} : Pts(mb', j) = Pts(mb, j)
      /\ call'.phase = "loop" /\ call'.todo = <<>> /\ call'.built = <<>> /\ call'.force = {c}
      /\ call'.msgs = {} /\ call'.after = "channel"
  BY <1>2, ApplyChannelMoves
<1>4. /\ \A e : ~Owed(e)
      /\ \A e : ~Owed(e)'
      /\ OwedOnce' /\ Plain'
  <2>1. \A e : ~Owed(e)
    BY <1>3 DEF Owed, Handing
  <2>2. \A e : ~Forced(e)'
    BY <1>3, ElementsEmpty DEF Forced
  <2>3. \A e : ~Owed(e)'
    BY <1>3, <2>2 DEF Owed
  <2>4. OwedOnce'
    BY <1>3 DEF OwedOnce
  <2> QED BY <1>3, <2>1, <2>3, <2>4 DEF Plain
<1>5. Carried(mb', call') \subseteq Carried(mb, call)
  BY <1>3, ElementsEmpty DEF Carried, Stock
<1>6. Pts(mb, c) \in Int /\ Pts(mb, c) <= p /\ [k \in Keys |-> p][c] = p /\ {c} \in SUBSET Keys
  BY <1>1, <1>3, KnownPts DEF DInv, Behind
<1>7. \A k \in {c} : ~Known(mb', k) \/ (Pts(mb', k) = [j \in Keys |-> p][k] /\ [j \in Keys |-> p][k] <= srv[k])
  BY <1>1, <1>3, <1>6
<1>8. \A k \in {c} : Known(mb, k) /\ Known(mb', k) => Pts(mb', k) >= Pts(mb, k) /\
          (~Getting(mb, k) \/ ~Getting(mb', k) \/ (call.phase = "idle" /\ k \in call'.force))
  BY <1>3, <1>6
<1> QED BY <1>2, <1>3, <1>4, <1>5, <1>6, <1>7, <1>8, EstablishStep


-----------------------------------------------------------------------------
(* The invariant is inductive *)

(* new() and load() start with nothing handed out and nothing owed *)
LEMMA InitDInv == Init => DInv
<1> SUFFICES ASSUME Init
             PROVE  DInv
  OBVIOUS
<1>1. PICK K \in Sessions : \E q \in [1 .. Cardinality(K) -> K] :
          /\ mb = Loaded(K, q)
          /\ base = [k \in Keys |-> IF k \in K THEN Start ELSE 0]
  BY DEF Init
<1>2. PICK q \in [1 .. Cardinality(K) -> K] :
          /\ mb = Loaded(K, q)
          /\ base = [k \in Keys |-> IF k \in K THEN Start ELSE 0]
  BY <1>1
<1>3. call = Idle /\ srv = [k \in Keys |-> Start] /\ delivered = [e \in Counted |-> 0]
  BY DEF Init
<1>4. Start \in Nat /\ \A e \in Counted : e.key \in Keys /\ e.pts \in Nat
  BY EventsAssumption DEF Counted
<1>5. PICK e : e = [NewEntry(Start) EXCEPT !.pending = TRUE]
  OBVIOUS
<1>6. e.pts = Start /\ e.gap = <<>> /\ e.notBefore = 0 /\ e.deferred = FALSE
  BY <1>5 DEF NewEntry
<1>7. mb.held_updates = <<>> /\ \A k \in Keys : mb.entries[k] = IF k \in K THEN e ELSE NoEntry
  BY <1>2, <1>5 DEF Loaded
<1>8. \A k \in Keys : /\ k \in K => mb.entries[k] = e /\ Pts(mb, k) = Start /\ base[k] = Start
                      /\ k \notin K => Pts(mb, k) = -1 /\ ~Known(mb, k)
  BY <1>2, <1>6, <1>7 DEF Pts, Known, NoEntry
<1>9. \A x : ~Owed(x)
  BY <1>3, IdleFields DEF Owed, Handing
<1>10. \A x \in Counted : ~Covered(x)
  BY <1>4, <1>8 DEF Covered
<1>11. Accounted
  BY <1>3, <1>9, <1>10 DEF Accounted
<1>12. OwedOnce /\ Plain
  BY <1>3, IdleFields DEF OwedOnce, Handing, Plain
<1>13. Based
  BY <1>4, <1>8 DEF Based
<1>14. Carried(mb, call) = {}
  <2>1. \A k \in Keys : Known(mb, k) => mb.entries[k].gap = <<>>
    BY <1>6, <1>8
  <2>2. Gaps(mb) = {}
    BY <2>1, ElementsEmpty DEF Gaps
  <2> QED BY <1>3, <1>7, <2>2, IdleFields, ElementsEmpty DEF Carried
<1>15. Behind
  <2>1. \A k \in Keys : Pts(mb, k) <= srv[k]
    BY <1>3, <1>4, <1>8
  <2> QED BY <1>14, <2>1 DEF Behind
<1>16. Delayed
  BY <1>6, <1>8, BoundsNat DEF Delayed, PacedEntry
<1> QED BY <1>11, <1>12, <1>13, <1>15, <1>16 DEF DInv

LEMMA ContinueDelivers ==
    ASSUME Inv, DInv, Inv', Continue
    PROVE  DInv' /\ Forward /\ Frozen
<1>1. CASE \E i \in DOMAIN call.todo :
             \/ LoopTooLong(i) \/ LoopUnordered(i) \/ LoopForced(i) \/ LoopHeld(i)
             \/ LoopOrdered(i) \/ SiftNext(i)
  BY <1>1, LoopTooLongDelivers, LoopUnorderedDelivers, LoopForcedDelivers, LoopHeldDelivers,
     LoopOrderedDelivers, SiftNextDelivers
<1>2. CASE \E i \in 1 .. MaxHeld : SortNext(i)
  BY <1>2, SortNextDelivers
<1>3. CASE EndSort \/ LoopDrain
  BY <1>3, EndSortDelivers, LoopDrainDelivers
<1>4. CASE EndSocket \/ EndAccount \/ EndChannel \/ ReleaseNext \/ EndRelease
  BY <1>4, EndSocketDelivers, EndAccountDelivers, EndChannelDelivers, ReleaseNextDelivers, EndReleaseDelivers
<1>5. CASE (\E k \in call.keys : CheckNextEntry(k)) \/ EndDeadlines
  <2>1. call.keys \subseteq Keys
    BY DEF Inv, TypeOK, Call
  <2> QED BY <1>5, <2>1, CheckNextEntryDelivers, EndDeadlinesDelivers
<1>6. CASE ExtractNext \/ EndExtract \/ EndSift
  BY <1>6, ExtractNextDelivers, EndExtractDelivers, EndSiftDelivers
<1> QED BY <1>1, <1>2, <1>3, <1>4, <1>5, <1>6 DEF Continue

(* What a container holds *)
LEMMA BatchElements ==
    ASSUME NEW S, NEW n \in Nat, NEW b \in Batches(S, n)
    PROVE  Elements(b) \subseteq S
<1>1. PICK i \in 0 .. n : b \in [1 .. i -> S]
  BY DEF Batches
<1> QED BY <1>1 DEF Elements

LEMMA SocketDelivers ==
    ASSUME Inv, DInv, Inv', Socket
    PROVE  DInv' /\ Forward /\ Frozen
<1>1. CASE ProcessGap
  BY <1>1, ProcessGapDelivers
<1>2. CASE \E us \in Batches(Offered, MaxBatch), seq \in 0 .. srvSeq :
             \E seqStart \in 0 .. seq : ProcessUpdates(us, seqStart, seq, TRUE)
  <2>1. PICK us \in Batches(Offered, MaxBatch), seq \in 0 .. srvSeq :
             \E seqStart \in 0 .. seq : ProcessUpdates(us, seqStart, seq, TRUE)
    BY <1>2
  <2>2. \A u \in Elements(us) : u.pts <= srv[u.key]
    BY BatchElements, OfferedBehind, BoundsNat DEF Inv
  <2> QED BY <2>1, <2>2, ProcessUpdatesDelivers
<1>3. CASE ProcessUpdates(<<>>, 0, 0, FALSE)
  BY <1>3, ElementsEmpty, ProcessUpdatesDelivers
<1> QED BY <1>1, <1>2, <1>3 DEF Socket

(* Where a difference may end *)
LEMMA ReachableProps ==
    ASSUME TypeOK, NEW k \in Keys, NEW p \in Reachable(k, PtsOf(k))
    PROVE  p \in Nat /\ PtsOf(k) <= p /\ p <= srv[k]
<1>1. p \in Nat
  BY PositionsNat
<1> QED BY <1>1 DEF Reachable

LEMMA AccountAnswerDelivers ==
    ASSUME Inv, DInv, Inv', AccountAnswer
    PROVE  DInv' /\ Forward /\ Frozen
<1>1. TypeOK /\ Common \in Keys /\ Secondary \in Keys
  BY ChannelsAreKeys DEF Inv
<1>2. CASE EmptyDifference
  BY <1>2, EmptyDifferenceDelivers
<1>3. CASE DifferenceTooLong(srv[Common])
  BY <1>3, DifferenceTooLongDelivers
<1>4. CASE ~EmptyDifference /\ ~DifferenceTooLong(srv[Common])
  <2>1. PICK O : O = {u \in Offered : u.key \in Channels}
    OBVIOUS
  <2>2. PICK pts \in Reachable(Common, PtsOf(Common)),
             qts \in Reachable(Secondary, PtsOf(Secondary)),
             extra \in Batches(O, MaxExtra), final \in BOOLEAN :
             \E others : Difference(pts, qts, others, extra, final)
    BY <1>4, <2>1 DEF AccountAnswer
  <2>3. O \in SUBSET Updates /\ MaxExtra \in Nat /\ \A u \in O : u.key \in Channels /\ u.pts <= srv[u.key]
    BY <1>1, <2>1, OfferedUpdates, OfferedBehind, BoundsNat
  <2>4. extra \in Seq(Updates)
    BY <2>3, BatchesProps
  <2>5. \A u \in Elements(extra) : u.key \in Channels /\ u.pts <= srv[u.key]
    BY <2>3, BatchElements
  <2>6. /\ pts \in Nat /\ PtsOf(Common) <= pts /\ pts <= srv[Common]
        /\ qts \in Nat /\ PtsOf(Secondary) <= qts /\ qts <= srv[Secondary]
    BY <1>1, ReachableProps
  <2> QED BY <2>2, <2>4, <2>5, <2>6, DifferenceDelivers
<1> QED BY <1>2, <1>3, <1>4

LEMMA ChannelAnswerDelivers ==
    ASSUME NEW c \in Channels, Inv, DInv, Inv', ChannelAnswer(c)
    PROVE  DInv' /\ Forward /\ Frozen
<1>1. TypeOK /\ c \in Keys
  BY ChannelsAreKeys DEF Inv
<1>2. PICK timeout \in Timeouts, final \in BOOLEAN :
        \/ \E p \in Reachable(c, PtsOf(c)) : \E others : ChannelDifference(c, p, others, final, timeout)
        \/ ChannelDifferenceTooLong(c, srv[c], final, timeout)
  BY DEF ChannelAnswer
<1>3. timeout \in Nat
  BY BoundsNat
<1>4. ASSUME NEW p \in Reachable(c, PtsOf(c)), NEW others, ChannelDifference(c, p, others, final, timeout)
      PROVE  DInv' /\ Forward /\ Frozen
  <2>1. p \in Nat /\ PtsOf(c) <= p /\ p <= srv[c]
    BY <1>1, ReachableProps
  <2> QED BY <1>3, <1>4, <2>1, ChannelDifferenceDelivers
<1>5. CASE ChannelDifferenceTooLong(c, srv[c], final, timeout)
  BY <1>3, <1>5, ChannelDifferenceTooLongDelivers
<1> QED BY <1>2, <1>4, <1>5

LEMMA ReceiverDelivers ==
    ASSUME Inv, DInv, Inv', Receiver
    PROVE  DInv' /\ Forward /\ Frozen
<1>1. CASE CheckDeadlines \/ TakeReleasedUpdates \/ SetAccountState \/ DiscardAccount
  BY <1>1, CheckDeadlinesDelivers, TakeReleasedUpdatesDelivers, SetAccountStateDelivers,
     DiscardAccountDelivers
<1>2. ASSUME NEW c \in Channels,
             \/ TrySetChannelState(c) \/ RetryChannelWithoutDelay(c)
             \/ EndTemporarily(c) \/ EndBanned(c)
             \/ DeferChannelDifference(c) \/ TryExhaustChannelGrace(c)
             \/ ChannelDifferenceAccessible(c)
      PROVE  DInv' /\ Forward /\ Frozen
  BY <1>2, TrySetChannelStateDelivers, RetryChannelWithoutDelayDelivers, EndTemporarilyDelivers,
     EndBannedDelivers, DeferChannelDifferenceDelivers, TryExhaustDelivers, AccessibleDelivers
<1> QED BY <1>1, <1>2 DEF Receiver

(* Every step of every actor *)
LEMMA NextDelivers ==
    ASSUME Inv, DInv, Inv', Next
    PROVE  DInv' /\ Forward /\ Frozen
<1>1. CASE Continue \/ Socket \/ Receiver
  BY <1>1, ContinueDelivers, SocketDelivers, ReceiverDelivers
<1>2. CASE Telegram \/ Tick
  BY <1>2, NumberContainerDelivers, PublishDelivers, TickDelivers DEF Telegram
<1>3. CASE AccountAnswer \/ \E c \in Channels : ChannelAnswer(c)
  BY <1>3, AccountAnswerDelivers, ChannelAnswerDelivers
<1> QED BY <1>1, <1>2, <1>3 DEF Next

LEMMA StutterDInv ==
    ASSUME DInv, mb' = mb, call' = call, srv' = srv, base' = base, delivered' = delivered
    PROVE  DInv'
<1>1. mb' = mb /\ call' = call /\ srv' = srv /\ base' = base /\ delivered' = delivered
  OBVIOUS
<1>2. \A e : /\ Owed(e)' <=> Owed(e)
             /\ Forced(e)' <=> Forced(e)
             /\ Covered(e)' <=> Covered(e)
  BY <1>1 DEF Owed, Forced, Handing, Covered
<1>3. Accounted' /\ OwedOnce'
  <2>1. Handing' <=> Handing
    BY <1>1 DEF Handing
  <2> QED BY <1>1, <1>2, <2>1 DEF DInv, Accounted, OwedOnce
<1>4. Plain' /\ Based' /\ Behind' /\ Delayed'
  BY <1>1 DEF DInv, Plain, Based, Behind, Delayed, Known
<1> QED BY <1>3, <1>4 DEF DInv

(* Whatever Telegram publishes, repeats, delays or answers, and for any number of
   channels and events: what was handed out, what a call still owes and where the
   positions are fit together *)
THEOREM DeliveryInvariance == Spec => [](Inv /\ DInv)
<1>1. Init => Inv /\ DInv
  BY InitInv, InitDInv
<1>2. (Inv /\ DInv) /\ [Next]_vars => (Inv /\ DInv)'
  <2> SUFFICES ASSUME Inv, DInv, [Next]_vars
               PROVE  Inv' /\ DInv'
    OBVIOUS
  <2>1. Inv'
    BY NextInv
  <2>2. CASE Next
    BY <2>1, <2>2, NextDelivers
  <2>3. CASE UNCHANGED vars
    <3>1. mb' = mb /\ call' = call /\ srv' = srv /\ base' = base /\ delivered' = delivered
      BY <2>3 DEF vars
    <3> QED BY <2>1, <3>1, StutterDInv
  <2> QED BY <2>1, <2>2, <2>3
<1> QED BY <1>1, <1>2, PTL DEF Spec

(* Between two calls every event past the base of its sequence and up to its position
   was handed out exactly once, and no other event ever *)
THEOREM ExactlyOnceCorrect == Spec => []ExactlyOnce
<1>1. Inv /\ DInv => ExactlyOnce
  <2> SUFFICES ASSUME Inv, DInv, call.phase = "idle", NEW e \in Counted
               PROVE  delivered[e] = IF Known(mb, e.key) /\ base[e.key] < e.pts
                                        /\ e.pts <= mb.entries[e.key].pts THEN 1 ELSE 0
    BY DEF ExactlyOnce
  <2>1. ~Owed(e)
    BY DEF Owed, Handing
  <2>2. e.key \in Keys /\ e.pts \in Nat /\ mb \in Box
    BY EventsAssumption DEF Counted, Inv, TypeOK
  <2>3. ~Known(mb, e.key) => Pts(mb, e.key) = -1
    BY <2>2, KnownPts
  <2>4. Covered(e) => Known(mb, e.key)
    BY <2>2, <2>3 DEF Covered
  <2>5. delivered[e] = IF Covered(e) THEN 1 ELSE 0
    BY <2>1 DEF DInv, Accounted
  <2> QED BY <2>4, <2>5 DEF Covered, Pts
<1> QED BY <1>1, DeliveryInvariance, PTL

(* No position runs backwards, and while its recovery is pending only the answer to
   that recovery moves it *)
THEOREM PositionsHoldCorrect == Spec => PositionsHold
<1>1. Inv /\ DInv /\ [Next]_vars /\ Inv' => [Forward /\ Frozen]_vars
  <2> SUFFICES ASSUME Inv, DInv, Inv', [Next]_vars
               PROVE  (Forward /\ Frozen) \/ UNCHANGED vars
    OBVIOUS
  <2>1. CASE Next
    BY <2>1, NextDelivers
  <2> QED BY <2>1
<1> QED BY <1>1, DeliveryInvariance, Invariance, PTL DEF Spec, PositionsHold

(* A recovery in the queue is never still waiting for its retry delay *)
THEOREM RetryPacedCorrect == Spec => []RetryPaced
<1>1. Inv /\ DInv => RetryPaced
  <2> SUFFICES ASSUME Inv, DInv, NEW i \in DOMAIN mb.getting_diff_for
               PROVE  mb.entries[mb.getting_diff_for[i]].notBefore = 0
    BY DEF RetryPaced
  <2>1. QueueIs(mb, Ready(mb)) /\ mb \in Box
    BY InvQueue
  <2>2. PICK q \in Seq(Keys) : q = mb.getting_diff_for
    BY <2>1 DEF Box
  <2>3. i \in 1 .. Len(q) /\ q[i] \in Keys
    BY <2>2, LenProperties, ElementOfSeq
  <2>4. q[i] \in Ready(mb)
    BY <2>1, <2>2, <2>3 DEF QueueIs
  <2>5. Known(mb, q[i]) /\ mb.entries[q[i]].pending /\ ~mb.entries[q[i]].deferred
    BY <2>4 DEF Ready, Getting
  <2> QED BY <2>2, <2>3, <2>5 DEF DInv, Delayed, PacedEntry
<1> QED BY <1>1, DeliveryInvariance, PTL

(* No position of the client is beyond Telegram's, and nothing it holds back is *)
THEOREM BehindCorrect == Spec => []Behind
<1>1. Inv /\ DInv => Behind
  BY DEF DInv
<1> QED BY <1>1, DeliveryInvariance, PTL

=============================================================================
