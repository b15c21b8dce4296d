-------------------------- MODULE MessageBoxProofs --------------------------
EXTENDS MessageBox, SequenceTheorems, FiniteSetTheorems, WellFoundedInduction, TLAPS

(* Least picks the smallest member of a nonempty set of naturals *)
LEMMA LeastNat ==
    ASSUME NEW S \in SUBSET Nat, S # {}
    PROVE  Least(S) \in S /\ \A y \in S : Least(S) <= y
<1> DEFINE R == {ss \in Nat \X Nat : ss[1] < ss[2]}
<1>1. IsWellFoundedOn(R, Nat)
  BY NatLessThanWellFounded DEF OpToRel
<1>2. PICK x \in S : \A y \in S : ~(<<y, x>> \in R)
  <2> HIDE DEF R
  <2> QED BY <1>1, WFMin
<1>3. ASSUME NEW y \in S
      PROVE  x <= y
  <2>1. x \in Nat /\ y \in Nat /\ (y < x => <<y, x>> \in R)
    OBVIOUS
  <2> HIDE DEF R
  <2> QED BY <1>2, <2>1
<1> QED
  BY <1>2, <1>3 DEF Least

(* The bounds of the model are natural numbers *)
LEMMA BoundsNat ==
    /\ GapTimeout \in Nat /\ NoUpdatesTimeout \in Nat /\ RetryDelayLimit \in Nat
    /\ DeferDelay \in Nat /\ MaxHeld \in Nat /\ MaxSeq \in Nat /\ MaxBatch \in Nat
    /\ MaxExtra \in Nat /\ MaxDeferrals \in Nat /\ MaxFailures \in Nat
    /\ Timeouts \subseteq Nat
BY BoundsAssumption

(* Removing an element (VecDeque::remove) keeps the others, in their order *)
LEMMA RemoveIndexProps ==
    ASSUME NEW S, NEW s \in Seq(S), NEW i \in DOMAIN s
    PROVE  /\ RemoveIndex(s, i) \in Seq(S)
           /\ Len(RemoveIndex(s, i)) = Len(s) - 1
           /\ \A j \in 1 .. Len(s) - 1 :
                RemoveIndex(s, i)[j] = IF j < i THEN s[j] ELSE s[j + 1]
<1> DEFINE a == SubSeq(s, 1, i - 1)
           b == SubSeq(s, i + 1, Len(s))
           r == RemoveIndex(s, i)
<1>1. i \in 1 .. Len(s) /\ Len(s) \in Nat /\ \A j \in 1 .. Len(s) : s[j] \in S
  BY LenProperties, ElementOfSeq
<1>2. a \in Seq(S) /\ Len(a) = i - 1 /\ \A j \in 1 .. i - 1 : a[j] = s[j]
  BY <1>1, SubSeqProperties
<1>3. b \in Seq(S) /\ Len(b) = Len(s) - i /\ \A j \in 1 .. Len(s) - i : b[j] = s[i + j]
  BY <1>1, SubSeqProperties
<1>4. /\ r \in Seq(S)
      /\ Len(r) = Len(a) + Len(b)
      /\ \A j \in 1 .. Len(a) + Len(b) : r[j] = IF j <= Len(a) THEN a[j] ELSE b[j - Len(a)]
  <2>1. r = a \o b
    BY DEF RemoveIndex
  <2> HIDE DEF a, b, r
  <2> QED BY <2>1, <1>2, <1>3, ConcatProperties
<1> DEFINE n == Len(s)
<1> HIDE DEF a, b, r
<1>5. i \in Int /\ n \in Int /\ Len(a) = i - 1 /\ Len(r) = n - 1
  BY <1>1, <1>2, <1>3, <1>4
<1> HIDE DEF n
<1>6. ASSUME NEW j \in 1 .. n - 1
      PROVE  r[j] = IF j < i THEN s[j] ELSE s[j + 1]
  <2>1. CASE j < i
    BY <2>1, <1>1, <1>2, <1>3, <1>4, <1>5 DEF n
  <2>2. CASE ~(j < i)
    <3>1. j - Len(a) \in 1 .. n - i /\ i + (j - Len(a)) = j + 1 /\ ~(j <= Len(a))
      BY <2>2, <1>5
    <3>2. r[j] = b[j - Len(a)]
      BY <3>1, <1>4, <1>5, <1>3 DEF n
    <3> QED BY <3>1, <3>2, <2>2, <1>3 DEF n
  <2> QED BY <2>1, <2>2
<1> QED
  BY <1>4, <1>5, <1>6 DEF r, n

-----------------------------------------------------------------------------

Ready(m) == {k \in Keys : Getting(m, k) /\ ~m.entries[k].deferred}
QueueIs(m, R) ==
    LET q == m.getting_diff_for
    IN  /\ \A i, j \in 1 .. Len(q) : q[i] = q[j] => i = j
        /\ \A k \in Keys : (\E i \in 1 .. Len(q) : q[i] = k) <=> k \in R
        /\ m.ready_diff_count = Len(q)

(* A known sequence has an entry of the entries' type *)
LEMMA KnownEntry ==
    ASSUME NEW m \in Box, NEW k \in Keys
    PROVE  /\ Known(m, k) => m.entries[k] \in Entry
           /\ \A e \in Entry : e # NoEntry
BY DEF Box, Known, Entry, NoEntry

(* set_entry and pop_entry keep the struct's type *)
LEMMA SetEntryBox ==
    ASSUME NEW m \in Box, NEW k \in Keys, NEW e \in Entry \cup {NoEntry}
    PROVE  SetEntry(m, k, e) \in Box
BY DEF Box, SetEntry

(* A new queue with a new count keeps the struct's type *)
LEMMA SetQueueBox ==
    ASSUME NEW m \in Box, NEW p \in Seq(Keys), NEW n \in Nat
    PROVE  [m EXCEPT !.getting_diff_for = p, !.ready_diff_count = n] \in Box
BY DEF Box

(* push_back of a sequence that is not queued adds exactly it to the queue *)
LEMMA EnqueueProps ==
    ASSUME NEW m \in Box, NEW k \in Keys
    PROVE  /\ Enqueue(m, k) \in Box
           /\ \A R : k \notin R /\ QueueIs(m, R) => QueueIs(Enqueue(m, k), R \cup {k})
<1> DEFINE q == m.getting_diff_for
           n == Enqueue(m, k)
<1>1. q \in Seq(Keys) /\ m.ready_diff_count \in Nat
  BY DEF Box
<1>2. n.getting_diff_for = Append(q, k) /\ n.ready_diff_count = m.ready_diff_count + 1
  BY DEF Enqueue, Box
<1>3. Append(q, k) \in Seq(Keys) /\ Len(Append(q, k)) = Len(q) + 1 /\ Len(q) \in Nat
      /\ (\A i \in 1 .. Len(q) : Append(q, k)[i] = q[i]) /\ Append(q, k)[Len(q) + 1] = k
  BY <1>1, AppendProperties, LenProperties
<1>4. n \in Box
  <2> HIDE DEF q
  <2>1. n = [m EXCEPT !.getting_diff_for = Append(q, k), !.ready_diff_count = m.ready_diff_count + 1]
    BY DEF Enqueue, q
  <2>2. PICK p : p = Append(q, k)
    OBVIOUS
  <2> HIDE DEF n
  <2>3. p \in Seq(Keys) /\ m.ready_diff_count + 1 \in Nat
    BY <1>1, <1>3, <2>2
  <2>4. n = [m EXCEPT !.getting_diff_for = p, !.ready_diff_count = m.ready_diff_count + 1]
    BY <2>1, <2>2
  <2> QED BY <2>3, <2>4, SetQueueBox
<1>5. ASSUME NEW R, k \notin R, QueueIs(m, R)
      PROVE  QueueIs(n, R \cup {k})
  <2> DEFINE p == n.getting_diff_for
  <2>1. /\ Len(p) = Len(q) + 1 /\ Len(q) \in Nat
        /\ \A i \in 1 .. Len(q) : p[i] = q[i] /\ p[i] # k
        /\ p[Len(q) + 1] = k
    BY <1>2, <1>3, <1>5 DEF QueueIs
  <2>2. \A i, j \in 1 .. Len(q) : q[i] = q[j] => i = j
    BY <1>5 DEF QueueIs
  <2>3. \A j \in Keys : (\E i \in 1 .. Len(q) : q[i] = j) <=> j \in R
    BY <1>5 DEF QueueIs
  <2>4. n.ready_diff_count = Len(p)
    BY <1>2, <1>5, <2>1 DEF QueueIs
  <2> HIDE DEF p, q, n
  <2>5. \A i, j \in 1 .. Len(p) : p[i] = p[j] => i = j
    BY <2>1, <2>2
  <2>6. \A j \in Keys : (\E i \in 1 .. Len(p) : p[i] = j) <=> j \in R \cup {k}
    BY <2>1, <2>3
  <2> QED BY <2>4, <2>5, <2>6 DEF QueueIs, p
<1> QED BY <1>4, <1>5
(* Removing a queued sequence leaves exactly the others in the queue *)
LEMMA DequeueProps ==
    ASSUME NEW m \in Box, NEW k \in Keys, NEW R, k \in R, QueueIs(m, R)
    PROVE  Dequeue(m, k) \in Box /\ QueueIs(Dequeue(m, k), R \ {k})
<1> DEFINE q == m.getting_diff_for
           n == Dequeue(m, k)
           p == n.getting_diff_for
<1>1. q \in Seq(Keys) /\ m.ready_diff_count \in Nat /\ Len(q) \in Nat /\ DOMAIN q = 1 .. Len(q)
  BY LenProperties DEF Box
<1>2. /\ \A i, j \in 1 .. Len(q) : q[i] = q[j] => i = j
      /\ \A j \in Keys : (\E i \in 1 .. Len(q) : q[i] = j) <=> j \in R
      /\ m.ready_diff_count = Len(q)
  BY DEF QueueIs
<1>3. PICK i \in 1 .. Len(q) : q[i] = k
  BY <1>2
<1>4. i = CHOOSE x \in DOMAIN q : q[x] = k /\ \A j \in 1 .. x - 1 : q[j] # k
  BY <1>1, <1>2, <1>3
<1>5. n = [m EXCEPT !.getting_diff_for = RemoveIndex(q, i), !.ready_diff_count = @ - 1]
  BY <1>4 DEF Dequeue
<1>6. /\ RemoveIndex(q, i) \in Seq(Keys)
      /\ Len(RemoveIndex(q, i)) = Len(q) - 1
      /\ \A j \in 1 .. Len(q) - 1 :
           RemoveIndex(q, i)[j] = IF j < i THEN q[j] ELSE q[j + 1]
  BY <1>1, <1>3, RemoveIndexProps
<1> HIDE DEF q
<1>7. n \in Box
  <2>1. m.ready_diff_count - 1 \in Nat
    BY <1>1, <1>2, <1>3
  <2> HIDE DEF n
  <2> QED BY <2>1, <1>5, <1>6, SetQueueBox
<1>8. p = RemoveIndex(q, i) /\ n.ready_diff_count = Len(q) - 1
  BY <1>5, <1>2 DEF Box
<1> HIDE DEF n, p
<1>9. \A x, y \in 1 .. Len(p) : p[x] = p[y] => x = y
  BY <1>1, <1>2, <1>3, <1>6, <1>8, SMTT(30)
<1>10. \A x \in 1 .. Len(p) : p[x] # k
  BY <1>1, <1>2, <1>3, <1>6, <1>8
<1>11. ASSUME NEW x \in 1 .. Len(q), x # i
       PROVE  \E y \in 1 .. Len(p) : p[y] = q[x]
  <2>1. CASE x < i
    BY <2>1, <1>1, <1>3, <1>6, <1>8
  <2>2. CASE x > i
    <3>1. x - 1 \in 1 .. Len(p) /\ p[x - 1] = q[x]
      BY <2>2, <1>1, <1>3, <1>6, <1>8
    <3> QED BY <3>1
  <2> QED BY <2>1, <2>2, <1>11, <1>1, <1>3
<1>12. ASSUME NEW y \in 1 .. Len(p)
       PROVE  \E x \in 1 .. Len(q) : q[x] = p[y]
  BY <1>1, <1>3, <1>6, <1>8
<1>13. ASSUME NEW j \in Keys
       PROVE  (\E x \in 1 .. Len(p) : p[x] = j) <=> j \in R \ {k}
  <2>1. ASSUME NEW x \in 1 .. Len(p), p[x] = j
        PROVE  j \in R \ {k}
    BY <2>1, <1>2, <1>10, <1>12
  <2>2. ASSUME j \in R, j # k
        PROVE  \E x \in 1 .. Len(p) : p[x] = j
    <3>1. PICK x \in 1 .. Len(q) : q[x] = j
      BY <2>2, <1>2
    <3> QED BY <3>1, <2>2, <1>3, <1>11
  <2> QED BY <2>1, <2>2
<1>14. n.ready_diff_count = Len(p)
  BY <1>6, <1>8
<1> QED
  <2>1. QueueIs(n, R \ {k})
    BY <1>9, <1>13, <1>14 DEF QueueIs, p
  <2> QED BY <1>7, <2>1 DEF n

-----------------------------------------------------------------------------

GapOf(m, k) ==
    \A i \in 1 .. Len(m.entries[k].gap) : m.entries[k].gap[i].key = k
Clean(m) ==
    \A k \in Keys : Known(m, k) =>
        /\ m.entries[k].pending => m.entries[k].gap = <<>>
        /\ m.entries[k].deferred => m.entries[k].pending
        /\ GapOf(m, k)
HeldOK(m) ==
    \A i \in 1 .. Len(m.held_updates) :
        /\ m.held_updates[i].key \in Channels
        /\ Getting(m, m.held_updates[i].key) \/ m.held_release_ready
Good(m) == m \in Box /\ QueueIs(m, Ready(m)) /\ Clean(m) /\ HeldOK(m)

(* The parts of the struct these invariants look at *)
SameCore(m, n) ==
    /\ n.getting_diff_for = m.getting_diff_for
    /\ n.ready_diff_count = m.ready_diff_count
    /\ n.held_updates = m.held_updates
    /\ n.held_release_ready = m.held_release_ready
    /\ \A k \in Keys :
         /\ Known(n, k) <=> Known(m, k)
         /\ Known(m, k) => /\ n.entries[k].pending = m.entries[k].pending
                           /\ n.entries[k].deferred = m.entries[k].deferred
                           /\ n.entries[k].gap = m.entries[k].gap

(* Channels and the two account sequences are distinct keys *)
LEMMA ChannelsAreKeys == Channels \subseteq Keys /\ Common \in Keys /\ Secondary \in Keys
                         /\ Common \notin Channels /\ Secondary \notin Channels
                         /\ Common # Secondary
BY KeysAssumption DEF Keys, Common, Secondary

(* Whether a struct is consistent depends on its core fields only *)
LEMMA SameCoreGood ==
    ASSUME NEW m, NEW n \in Box, Good(m), SameCore(m, n)
    PROVE  Good(n)
<1>1. m \in Box
  BY DEF Good
<1>2. \A k \in Keys : Getting(n, k) <=> Getting(m, k)
  BY DEF SameCore, Getting
<1>3. Ready(n) = Ready(m)
  BY <1>2 DEF SameCore, Ready, Getting
<1>4. QueueIs(n, Ready(n))
  BY <1>3 DEF Good, SameCore, QueueIs
<1>5. Clean(n)
  BY DEF Good, Clean, SameCore, GapOf
<1>6. HeldOK(n)
  BY <1>2, ChannelsAreKeys DEF Good, HeldOK, SameCore
<1> QED BY <1>4, <1>5, <1>6 DEF Good

(* How a new entry changes the set of ready recoveries *)
LEMMA ReadySetEntry ==
    ASSUME NEW m \in Box, NEW k \in Keys, NEW e \in Entry \cup {NoEntry}
    PROVE  Ready(SetEntry(m, k, e)) =
             IF e # NoEntry /\ e.pending /\ ~e.deferred THEN Ready(m) \cup {k}
                                                        ELSE Ready(m) \ {k}
<1> DEFINE n == SetEntry(m, k, e)
<1>1. n.entries[k] = e /\ \A j \in Keys : j # k => n.entries[j] = m.entries[j]
  BY DEF SetEntry, Box
<1> QED BY <1>1 DEF Ready, Getting, Known

(* Changing an entry does not touch the queue *)
LEMMA SetEntryQueue ==
    ASSUME NEW m \in Box, NEW k \in Keys, NEW e, NEW R
    PROVE  QueueIs(SetEntry(m, k, e), R) <=> QueueIs(m, R)
BY DEF QueueIs, SetEntry, Box

(* Replacing an entry by one that is queued just when the old one was *)
LEMMA SetEntryGood ==
    ASSUME NEW m, NEW k \in Keys, NEW e \in Entry, Good(m),
           e.pending => e.gap = <<>>,
           e.deferred => e.pending,
           \A i \in 1 .. Len(e.gap) : e.gap[i].key = k,
           (e.pending /\ ~e.deferred) <=> k \in Ready(m),
           Getting(m, k) => e.pending
    PROVE  Good(SetEntry(m, k, e))
<1> DEFINE n == SetEntry(m, k, e)
<1>1. m \in Box /\ n \in Box /\ e # NoEntry
  BY SetEntryBox, KnownEntry DEF Good
<1>2. n.entries[k] = e /\ \A j \in Keys : j # k => n.entries[j] = m.entries[j]
  BY <1>1 DEF SetEntry, Box
<1>3. Ready(n) = Ready(m)
  <2> HIDE DEF n
  <2>1. CASE k \in Ready(m)
    <3>1. Ready(n) = Ready(m) \cup {k}
      BY <1>1, <2>1, ReadySetEntry DEF n
    <3> QED BY <3>1, <2>1
  <2>2. CASE k \notin Ready(m)
    <3>1. Ready(n) = Ready(m) \ {k}
      BY <1>1, <2>2, ReadySetEntry DEF n
    <3> QED BY <3>1, <2>2
  <2> QED BY <2>1, <2>2
<1>4. QueueIs(n, Ready(n))
  BY <1>1, <1>3, SetEntryQueue DEF Good
<1>5. Clean(n)
  <2> HIDE DEF n
  <2>1. ASSUME NEW j \in Keys, Known(n, j), j # k
        PROVE  /\ n.entries[j].pending => n.entries[j].gap = <<>>
               /\ n.entries[j].deferred => n.entries[j].pending
               /\ GapOf(n, j)
    BY <2>1, <1>2 DEF Good, Clean, GapOf, Known
  <2> QED BY <2>1, <1>2 DEF Clean, GapOf
<1>6. n.held_updates = m.held_updates /\ n.held_release_ready = m.held_release_ready
  BY <1>1 DEF SetEntry, Box
<1>7. \A j \in Keys : Getting(m, j) => Getting(n, j)
  BY <1>1, <1>2 DEF Getting, Known
<1>8. HeldOK(n)
  BY <1>6, <1>7, ChannelsAreKeys DEF Good, HeldOK
<1> QED BY <1>1, <1>4, <1>5, <1>8 DEF Good

(* hold_channel_update keeps a bounded suffix: only the oldest are evicted *)
LEMMA HoldUpdatesProps ==
    ASSUME NEW m \in Box, NEW us \in Seq(Events)
    PROVE  LET n == HoldUpdates(m, us)
               h == m.held_updates
           IN  /\ n \in Box
               /\ n.entries = m.entries
               /\ n.getting_diff_for = m.getting_diff_for
               /\ n.ready_diff_count = m.ready_diff_count
               /\ n.held_release_ready = m.held_release_ready
               /\ n.seq = m.seq
               /\ \A i \in 1 .. Len(n.held_updates) :
                    \/ \E j \in 1 .. Len(h) : n.held_updates[i] = h[j]
                    \/ \E j \in 1 .. Len(us) : n.held_updates[i] = us[j]
<1> DEFINE h == m.held_updates
           all == h \o us
           excess == Max2(0, Len(all) - MaxHeld)
           n == HoldUpdates(m, us)
           kept == SubSeq(all, excess + 1, Len(all))
<1>1. h \in Seq(Events) /\ Len(h) \in Nat /\ Len(us) \in Nat
  BY LenProperties DEF Box
<1>2. /\ all \in Seq(Events) /\ Len(all) = Len(h) + Len(us)
      /\ \A i \in 1 .. Len(h) + Len(us) : all[i] = IF i <= Len(h) THEN h[i] ELSE us[i - Len(h)]
  BY <1>1, ConcatProperties
<1> HIDE DEF h, all
<1>3. excess \in Nat /\ Len(all) \in Nat /\ \A i \in 1 .. Len(all) : all[i] \in Events
  BY <1>1, <1>2, ElementOfSeq, BoundsNat DEF Max2
<1> HIDE DEF excess
<1>4. /\ kept \in Seq(Events)
      /\ Len(kept) = IF excess + 1 <= Len(all) THEN Len(all) - excess ELSE 0
      /\ \A i \in 1 .. Len(all) - excess : kept[i] = all[excess + i]
  BY <1>3, SubSeqProperties
<1>5. n = [m EXCEPT !.held_updates = kept, !.held_overflowed = @ \/ excess > 0]
  BY DEF HoldUpdates, kept, all, h, excess
<1> HIDE DEF kept, n
<1>6. n \in Box /\ n.held_updates = kept /\ n.entries = m.entries
      /\ n.getting_diff_for = m.getting_diff_for /\ n.ready_diff_count = m.ready_diff_count
      /\ n.held_release_ready = m.held_release_ready /\ n.seq = m.seq
  BY <1>4, <1>5 DEF Box
<1>7. ASSUME NEW i \in 1 .. Len(kept)
      PROVE  (\E j \in 1 .. Len(h) : kept[i] = h[j]) \/ (\E j \in 1 .. Len(us) : kept[i] = us[j])
  <2>1. i \in 1 .. Len(all) - excess /\ excess + i \in 1 .. Len(h) + Len(us)
    BY <1>1, <1>2, <1>3, <1>4
  <2>2. kept[i] = all[excess + i]
    BY <2>1, <1>4
  <2>3. CASE excess + i <= Len(h)
    BY <2>1, <2>2, <2>3, <1>1, <1>2
  <2>4. CASE ~(excess + i <= Len(h))
    <3>1. (excess + i) - Len(h) \in 1 .. Len(us) /\ kept[i] = us[(excess + i) - Len(h)]
      BY <2>1, <2>2, <2>4, <1>1, <1>2, <1>3
    <3> QED BY <3>1
  <2> QED BY <2>3, <2>4
<1> QED BY <1>6, <1>7 DEF n, h

(* effective_deadline of an entry is an instant *)
LEMMA EffectiveDeadlineNat ==
    ASSUME NEW e \in Entry
    PROVE  EffectiveDeadline(e) \in Nat
BY DEF EffectiveDeadline, Entry, Min2, Max2

(* reset_deadline changes one deadline and the cached one, nothing else *)
LEMMA ResetDeadlineProps ==
    ASSUME NEW m \in Box, NEW k \in Keys, NEW d \in Nat
    PROVE  LET n == ResetDeadline(m, k, d)
           IN  /\ n \in Box
               /\ SameCore(m, n)
               /\ n.seq = m.seq
               /\ \A j \in Keys : Known(m, j) => n.entries[j].pts = m.entries[j].pts
<1> DEFINE n == ResetDeadline(m, k, d)
           es == IF Known(m, k) THEN [m.entries EXCEPT ![k].deadline = d] ELSE m.entries
           all == {d} \cup {EffectiveDeadline(es[j]) : j \in {i \in Keys : es[i] # NoEntry}}
<1>1. es \in [Keys -> Entry \cup {NoEntry}]
  <2>1. CASE Known(m, k)
    <3>1. PICK e : e = [m.entries[k] EXCEPT !.deadline = d]
      OBVIOUS
    <3>2. e \in Entry
      BY <2>1, <3>1, KnownEntry DEF Entry
    <3>3. es = [m.entries EXCEPT ![k] = e]
      BY <2>1, <3>1 DEF Box
    <3> QED BY <3>2, <3>3 DEF Box
  <2>2. CASE ~Known(m, k)
    BY <2>2 DEF Box
  <2> QED BY <2>1, <2>2
<1>2. \A j \in Keys : /\ es[j] # NoEntry <=> Known(m, j)
                      /\ Known(m, j) => /\ es[j].pts = m.entries[j].pts
                                        /\ es[j].pending = m.entries[j].pending
                                        /\ es[j].deferred = m.entries[j].deferred
                                        /\ es[j].gap = m.entries[j].gap
  <2>1. ASSUME NEW j \in Keys, Known(m, k), j = k
        PROVE  /\ es[j] \in Entry /\ es[j].pts = m.entries[j].pts
               /\ es[j].pending = m.entries[j].pending
               /\ es[j].deferred = m.entries[j].deferred
               /\ es[j].gap = m.entries[j].gap
    BY <2>1, KnownEntry, SMTT(30) DEF Box, Entry
  <2>2. ASSUME NEW j \in Keys, j # k \/ ~Known(m, k)
        PROVE  es[j] = m.entries[j]
    BY <2>2 DEF Box
  <2> HIDE DEF es
  <2> QED BY <2>1, <2>2, KnownEntry DEF Known
<1> HIDE DEF es
<1>3. all \in SUBSET Nat /\ all # {}
  BY <1>1, EffectiveDeadlineNat
<1>4. Least(all) \in Nat
  BY <1>3, LeastNat
<1>5. PICK t \in Nat : n = [m EXCEPT !.entries = es, !.next_deadline = t]
  <2> HIDE DEF all
  <2>1. m.next_deadline \in Nat /\ Min2(m.next_deadline, d) \in Nat
    BY DEF Box, Min2
  <2> QED BY <1>4, <2>1 DEF ResetDeadline, es, all
<1> HIDE DEF n
<1>6. n \in Box /\ n.entries = es /\ n.seq = m.seq
      /\ n.getting_diff_for = m.getting_diff_for /\ n.ready_diff_count = m.ready_diff_count
      /\ n.held_updates = m.held_updates /\ n.held_release_ready = m.held_release_ready
  BY <1>1, <1>5 DEF Box
<1>7. SameCore(m, n)
  BY <1>2, <1>6 DEF SameCore, Known
<1> QED BY <1>2, <1>6, <1>7 DEF n

(* The cached deadline is no part of consistency *)
LEMMA SetDeadlineGood ==
    ASSUME NEW m, Good(m), NEW t \in Nat
    PROVE  LET n == [m EXCEPT !.next_deadline = t]
           IN  Good(n) /\ n.entries = m.entries /\ n.held_release_ready = m.held_release_ready
               /\ n.held_updates = m.held_updates
<1> DEFINE n == [m EXCEPT !.next_deadline = t]
<1>1. m \in Box
  BY DEF Good
<1>2. n \in Box /\ SameCore(m, n) /\ n.entries = m.entries
      /\ n.held_release_ready = m.held_release_ready /\ n.held_updates = m.held_updates
  BY <1>1 DEF Box, SameCore, Known
<1> QED BY <1>2, SameCoreGood

(* The seq is no part of consistency *)
LEMMA SetSeqGood ==
    ASSUME NEW m, Good(m), NEW t \in Nat
    PROVE  LET n == [m EXCEPT !.seq = t]
           IN  Good(n) /\ n.entries = m.entries /\ n.held_release_ready = m.held_release_ready
               /\ n.held_updates = m.held_updates
<1> DEFINE n == [m EXCEPT !.seq = t]
<1>1. m \in Box
  BY DEF Good
<1>2. n \in Box /\ SameCore(m, n) /\ n.entries = m.entries
      /\ n.held_release_ready = m.held_release_ready /\ n.held_updates = m.held_updates
  BY <1>1 DEF Box, SameCore, Known
<1> QED BY <1>2, SameCoreGood

(* A recovery begins: the gap is postponed, and the sequence is queued unless
   its recovery is deferred at once *)
LEMMA BeginGood ==
    ASSUME NEW m, Good(m), NEW k \in Keys, Known(m, k), ~Getting(m, k),
           NEW b \in Entry, b.pending, b.gap = <<>>
    PROVE  LET h == IF k \in Channels THEN HoldUpdates(m, m.entries[k].gap) ELSE m
               m1 == SetEntry(h, k, b)
           IN  /\ b.deferred => Good(m1)
               /\ ~b.deferred => Good(Enqueue(m1, k))
               /\ m1.entries = [m.entries EXCEPT ![k] = b]
               /\ m1.held_release_ready = m.held_release_ready
               /\ Enqueue(m1, k).entries = m1.entries
               /\ Enqueue(m1, k).held_release_ready = m.held_release_ready
<1> DEFINE h == IF k \in Channels THEN HoldUpdates(m, m.entries[k].gap) ELSE m
           m1 == SetEntry(h, k, b)
           g == m.entries[k].gap
           R == Ready(m)
<1>1. m \in Box /\ m.entries[k] \in Entry /\ b # NoEntry
  BY KnownEntry DEF Good
<1>2. g \in Seq(Events) /\ \A i \in 1 .. Len(g) : g[i].key = k
  BY <1>1 DEF Entry, Good, Clean, GapOf
<1>3. /\ h \in Box
      /\ h.entries = m.entries
      /\ h.getting_diff_for = m.getting_diff_for
      /\ h.ready_diff_count = m.ready_diff_count
      /\ h.held_release_ready = m.held_release_ready
      /\ \A i \in 1 .. Len(h.held_updates) :
           \/ \E j \in 1 .. Len(m.held_updates) : h.held_updates[i] = m.held_updates[j]
           \/ k \in Channels /\ h.held_updates[i].key = k
  <2> HIDE DEF g
  <2>1. CASE k \in Channels
    <3>1. h = HoldUpdates(m, g)
      BY <2>1 DEF g
    <3> HIDE DEF h
    <3>2. /\ h \in Box
          /\ h.entries = m.entries
          /\ h.getting_diff_for = m.getting_diff_for
          /\ h.ready_diff_count = m.ready_diff_count
          /\ h.held_release_ready = m.held_release_ready
          /\ \A i \in 1 .. Len(h.held_updates) :
               \/ \E j \in 1 .. Len(m.held_updates) : h.held_updates[i] = m.held_updates[j]
               \/ \E j \in 1 .. Len(g) : h.held_updates[i] = g[j]
      BY <3>1, <1>1, <1>2, HoldUpdatesProps
    <3> QED BY <3>2, <1>2, <2>1
  <2>2. CASE k \notin Channels
    <3>1. h = m
      BY <2>2
    <3> QED BY <3>1, <1>1
  <2> QED BY <2>1, <2>2
<1> HIDE DEF h, g
<1>4. /\ m1 \in Box
      /\ m1.entries = [m.entries EXCEPT ![k] = b]
      /\ m1.held_updates = h.held_updates
      /\ m1.held_release_ready = m.held_release_ready
      /\ m1.getting_diff_for = m.getting_diff_for
      /\ m1.ready_diff_count = m.ready_diff_count
  BY <1>1, <1>3, SetEntryBox DEF SetEntry, Box
<1>5. m1.entries[k] = b /\ \A j \in Keys : j # k => m1.entries[j] = m.entries[j]
  BY <1>1, <1>4 DEF Box
<1> HIDE DEF m1
<1>6. QueueIs(m1, R) /\ k \notin R
  BY <1>4 DEF QueueIs, Good, Ready
<1>7. Clean(m1)
  <2>1. ASSUME NEW j \in Keys, j # k, Known(m1, j)
        PROVE  /\ m1.entries[j].pending => m1.entries[j].gap = <<>>
               /\ m1.entries[j].deferred => m1.entries[j].pending
               /\ GapOf(m1, j)
    BY <2>1, <1>5 DEF Good, Clean, GapOf, Known
  <2>2. GapOf(m1, k)
    BY <1>5 DEF GapOf
  <2> QED BY <2>1, <2>2, <1>5 DEF Clean
<1>8. Getting(m1, k) /\ \A j \in Keys : Getting(m, j) => Getting(m1, j)
  BY <1>1, <1>5 DEF Getting, Known
<1>9. HeldOK(m1)
  <2> SUFFICES ASSUME NEW i \in 1 .. Len(m1.held_updates)
               PROVE  /\ m1.held_updates[i].key \in Channels
                      /\ Getting(m1, m1.held_updates[i].key) \/ m1.held_release_ready
    BY DEF HeldOK
  <2>1. CASE \E j \in 1 .. Len(m.held_updates) : m1.held_updates[i] = m.held_updates[j]
    BY <2>1, <1>4, <1>8, ChannelsAreKeys DEF Good, HeldOK
  <2>2. CASE k \in Channels /\ m1.held_updates[i].key = k
    BY <2>2, <1>8
  <2> QED BY <2>1, <2>2, <1>3, <1>4
<1>10. \A j \in Keys : j # k => (j \in Ready(m1) <=> j \in R)
  BY <1>5 DEF Ready, Getting, Known
<1>11. ASSUME b.deferred
       PROVE  Good(m1)
  <2>1. k \notin Ready(m1)
    BY <1>5, <1>11 DEF Ready
  <2>2. Ready(m1) = R
    BY <2>1, <1>6, <1>10 DEF Ready
  <2> QED BY <2>2, <1>4, <1>6, <1>7, <1>9 DEF Good
<1>12. ASSUME ~b.deferred
       PROVE  Good(Enqueue(m1, k))
  <2> DEFINE n == Enqueue(m1, k)
  <2>1. k \in Ready(m1)
    BY <1>5, <1>8, <1>12 DEF Ready
  <2>2. Ready(m1) = R \cup {k}
    BY <2>1, <1>10 DEF Ready
  <2>3. n \in Box /\ QueueIs(n, R \cup {k})
    BY <1>4, <1>6, EnqueueProps
  <2>4. n.entries = m1.entries /\ n.held_updates = m1.held_updates
        /\ n.held_release_ready = m1.held_release_ready
    BY <1>4 DEF Enqueue, Box
  <2> HIDE DEF n
  <2>5. Ready(n) = Ready(m1)
    BY <2>4 DEF Ready, Getting, Known
  <2>6. Clean(n) /\ HeldOK(n)
    BY <2>4, <1>7, <1>9 DEF Clean, GapOf, HeldOK, Getting, Known
  <2> QED BY <2>2, <2>3, <2>5, <2>6 DEF Good, n
<1>13. Enqueue(m1, k).entries = m1.entries
       /\ Enqueue(m1, k).held_release_ready = m1.held_release_ready
  BY <1>4 DEF Enqueue, Box
<1> QED BY <1>4, <1>11, <1>12, <1>13 DEF m1, h

(* try_begin_get_diff keeps the struct consistent: it queues or defers the recovery
   of a known sequence, moves its gap to the held updates, and forgets no other *)
LEMMA TryBeginGood ==
    ASSUME NEW m, Good(m), NEW k \in Keys
    PROVE  LET n == TryBeginGetDiff(m, k)
           IN  /\ Good(n)
               /\ \A j \in Keys : Known(n, j) <=> Known(m, j)
               /\ \A j \in Keys : j # k => n.entries[j] = m.entries[j]
               /\ n.held_release_ready = m.held_release_ready
<1>1. CASE ~(Known(m, k) /\ ~Getting(m, k))
  BY <1>1 DEF TryBeginGetDiff
<1>2. CASE Known(m, k) /\ ~Getting(m, k)
  <2> DEFINE e == m.entries[k]
             wait == e.notBefore > 0
             b == [e EXCEPT !.pending = TRUE, !.deferred = wait, !.deferrals = 0,
                            !.gap = <<>>, !.gapDeadline = 0,
                            !.deadline = IF wait THEN e.notBefore ELSE @]
             h == IF k \in Channels THEN HoldUpdates(m, e.gap) ELSE m
             m1 == SetEntry(h, k, b)
             n == TryBeginGetDiff(m, k)
  <2>1. m \in Box /\ e \in Entry /\ m.entries \in [Keys -> Entry \cup {NoEntry}]
    BY <1>2, KnownEntry DEF Good, Box
  <2>2. b \in Entry /\ b.pending /\ b.gap = <<>> /\ b.deferred = wait /\ b # NoEntry
    <3>1. wait \in BOOLEAN
      OBVIOUS
    <3> HIDE DEF wait
    <3>2. PICK z \in Seq(Events) : z = <<>>
      BY EmptySeq
    <3>3. b = [e EXCEPT !.pending = TRUE, !.deferred = wait, !.deferrals = 0,
                        !.gap = z, !.gapDeadline = 0,
                        !.deadline = IF wait THEN e.notBefore ELSE @]
      BY <3>2
    <3> HIDE DEF b
    <3>4. b \in Entry /\ b.pending /\ b.gap = z /\ b.deferred = wait
      BY <2>1, <3>1, <3>3 DEF Entry
    <3> QED BY <3>2, <3>4, <2>1, KnownEntry
  <2>3. n = IF wait THEN [m1 EXCEPT !.next_deadline = Min2(@, e.notBefore)]
                    ELSE Enqueue(m1, k)
    BY <1>2 DEF TryBeginGetDiff
  <2> HIDE DEF b, n, wait
  <2>4. /\ b.deferred => Good(m1)
        /\ ~b.deferred => Good(Enqueue(m1, k))
        /\ m1.entries = [m.entries EXCEPT ![k] = b]
        /\ m1.held_release_ready = m.held_release_ready
        /\ Enqueue(m1, k).entries = m1.entries
        /\ Enqueue(m1, k).held_release_ready = m.held_release_ready
    BY <1>2, <2>2, BeginGood
  <2> HIDE DEF m1, h
  <2>5. Good(n) /\ n.entries = m1.entries /\ n.held_release_ready = m.held_release_ready
    <3>1. CASE wait
      <4>1. Min2(m1.next_deadline, e.notBefore) \in Nat
        BY <3>1, <2>1, <2>2, <2>4 DEF Good, Box, Entry, Min2
      <4> QED BY <3>1, <4>1, <2>2, <2>3, <2>4, SetDeadlineGood
    <3>2. CASE ~wait
      BY <3>2, <2>2, <2>3, <2>4
    <3> QED BY <3>1, <3>2
  <2> QED BY <1>2, <2>1, <2>2, <2>4, <2>5 DEF Known, n
<1> QED BY <1>1, <1>2

(* One iteration of check_deadlines keeps the struct consistent *)
LEMMA CheckDeadlineGood ==
    ASSUME NEW m, Good(m), NEW k \in Keys
    PROVE  LET n == CheckDeadline(m, k)
           IN  /\ Good(n)
               /\ \A j \in Keys : Known(n, j) <=> Known(m, j)
               /\ n.held_release_ready = m.held_release_ready
<1> DEFINE e == m.entries[k]
           due == Known(m, k) /\ e.deferred /\ e.deadline = 0
           start == Known(m, k) /\ ~e.pending /\ EffectiveDeadline(e) = 0
           n == CheckDeadline(m, k)
<1>0. m \in Box /\ (Known(m, k) => e \in Entry)
  BY KnownEntry DEF Good
<1>1. CASE due
  <2> DEFINE d == [e EXCEPT !.deferred = FALSE]
             m1 == SetEntry(m, k, d)
  <2>1. n = Enqueue(m1, k)
    BY <1>1 DEF CheckDeadline
  <2>2. d \in Entry /\ d # NoEntry /\ d.pending /\ ~d.deferred /\ d.gap = e.gap /\ e.pending
    BY <1>0, <1>1, KnownEntry DEF Entry, Good, Clean
  <2> HIDE DEF d
  <2>3. /\ m1 \in Box
        /\ m1.entries = [m.entries EXCEPT ![k] = d]
        /\ m1.held_updates = m.held_updates
        /\ m1.held_release_ready = m.held_release_ready
        /\ QueueIs(m1, Ready(m)) /\ k \notin Ready(m)
    BY <1>0, <1>1, <2>2, SetEntryBox, SetEntryQueue DEF SetEntry, Box, Good, Ready
  <2>4. m1.entries[k] = d /\ \A j \in Keys : j # k => m1.entries[j] = m.entries[j]
    BY <1>0, <2>3 DEF Box
  <2> HIDE DEF m1
  <2>5. n \in Box /\ QueueIs(n, Ready(m) \cup {k})
    BY <2>1, <2>3, EnqueueProps
  <2>6. n.entries = m1.entries /\ n.held_updates = m.held_updates
        /\ n.held_release_ready = m.held_release_ready
    BY <2>1, <2>3 DEF Enqueue, Box
  <2> HIDE DEF n
  <2>7. \A j \in Keys : /\ Known(n, j) <=> Known(m, j)
                        /\ Getting(n, j) <=> Getting(m, j)
    BY <1>1, <2>2, <2>4, <2>6 DEF Known, Getting
  <2>8. Ready(n) = Ready(m) \cup {k}
    <3>1. \A j \in Keys : j # k => n.entries[j] = m.entries[j]
      BY <2>4, <2>6
    <3>2. k \in Ready(n)
      BY <1>1, <2>2, <2>4, <2>6, <2>7 DEF Ready, Getting
    <3>3. \A j \in Keys : j # k => (j \in Ready(n) <=> j \in Ready(m))
      BY <3>1, <2>7 DEF Ready
    <3> QED BY <3>2, <3>3 DEF Ready
  <2>9. Clean(n)
    <3>1. ASSUME NEW j \in Keys, Known(n, j)
          PROVE  /\ n.entries[j].pending => n.entries[j].gap = <<>>
                 /\ n.entries[j].deferred => n.entries[j].pending
                 /\ n.entries[j].gap = m.entries[j].gap
      BY <1>1, <2>2, <2>4, <2>6, <2>7, <3>1 DEF Good, Clean
    <3> QED BY <3>1, <2>7 DEF Good, Clean, GapOf
  <2>10. HeldOK(n)
    BY <2>6, <2>7, ChannelsAreKeys DEF Good, HeldOK
  <2> QED BY <2>5, <2>6, <2>7, <2>8, <2>9, <2>10 DEF Good, n
<1>2. CASE ~due /\ start
  <2> DEFINE b == [e EXCEPT !.gap = <<>>, !.gapDeadline = 0, !.deferred = FALSE,
                            !.pending = TRUE, !.deferrals = 0]
             h == IF k \in Channels THEN HoldUpdates(m, e.gap) ELSE m
             m1 == SetEntry(h, k, b)
  <2>1. n = Enqueue(m1, k)
    BY <1>2 DEF CheckDeadline
  <2>2. b \in Entry /\ b.pending /\ b.gap = <<>> /\ ~b.deferred /\ b # NoEntry
    <3>1. PICK z \in Seq(Events) : z = <<>>
      BY EmptySeq
    <3>2. b = [e EXCEPT !.gap = z, !.gapDeadline = 0, !.deferred = FALSE,
                        !.pending = TRUE, !.deferrals = 0]
      BY <3>1
    <3> HIDE DEF b
    <3>3. b \in Entry /\ b.pending /\ b.gap = z /\ ~b.deferred
      BY <1>0, <1>2, <3>2 DEF Entry
    <3> QED BY <3>1, <3>3, <1>0, KnownEntry
  <2> HIDE DEF b, n
  <2>3. /\ Good(Enqueue(m1, k))
        /\ m1.entries = [m.entries EXCEPT ![k] = b]
        /\ Enqueue(m1, k).entries = m1.entries
        /\ Enqueue(m1, k).held_release_ready = m.held_release_ready
    BY <1>2, <2>2, BeginGood DEF Getting
  <2> HIDE DEF m1, h
  <2> QED BY <1>0, <1>2, <2>1, <2>2, <2>3 DEF Known, n, Box
<1>3. CASE ~due /\ ~start
  BY <1>3 DEF CheckDeadline
<1> QED BY <1>1, <1>2, <1>3

(* try_end_get_diff keeps the struct consistent: no recovery of the sequence is left,
   and a channel's held updates can be released *)
LEMMA TryEndGood ==
    ASSUME NEW m, Good(m), NEW k \in Keys
    PROVE  LET n == TryEndGetDiff(m, k)
           IN  /\ Good(n)
               /\ \A j \in Keys : Known(n, j) <=> Known(m, j)
               /\ ~Getting(n, k)
               /\ \A j \in Keys : j # k => (Getting(n, j) <=> Getting(m, j))
               /\ m.held_release_ready => n.held_release_ready
               /\ Getting(m, k) /\ k \in Channels => n.held_release_ready
               /\ n.held_updates = m.held_updates
               /\ \A j \in Keys : Known(m, j) =>
                    n.entries[j].gap = m.entries[j].gap
<1>1. CASE ~Getting(m, k)
  BY <1>1 DEF TryEndGetDiff
<1>2. CASE Getting(m, k)
  <2> DEFINE e == m.entries[k]
             e2 == [e EXCEPT !.pending = FALSE, !.deferred = FALSE, !.deferrals = 0]
             m1 == IF e.deferred THEN m ELSE Dequeue(m, k)
             m2 == SetEntry(m1, k, e2)
             m3 == ResetDeadline(m2, k, NoUpdatesTimeout)
             n == TryEndGetDiff(m, k)
  <2>1. m \in Box /\ e \in Entry /\ e.pending /\ Known(m, k)
    BY <1>2, KnownEntry DEF Good, Getting
  <2>2. e2 \in Entry /\ e2 # NoEntry /\ ~e2.pending /\ ~e2.deferred /\ e2.gap = e.gap
    BY <2>1, KnownEntry DEF Entry
  <2>3. n = [m3 EXCEPT !.held_release_ready = @ \/ k \in Channels]
    BY <1>2 DEF TryEndGetDiff
  <2> HIDE DEF e2, n
  <2>4. m1 \in Box /\ QueueIs(m1, Ready(m) \ {k})
    <3>1. CASE e.deferred
      <4>1. m1 = m /\ k \notin Ready(m)
        BY <3>1 DEF Ready
      <4>2. Ready(m) \ {k} = Ready(m)
        BY <4>1
      <4> QED BY <4>1, <4>2 DEF Good
    <3>2. CASE ~e.deferred
      <4>1. m1 = Dequeue(m, k) /\ k \in Ready(m)
        BY <3>2, <1>2 DEF Ready
      <4> HIDE DEF m1
      <4> QED BY <4>1, <2>1, DequeueProps DEF Good
    <3> QED BY <3>1, <3>2
  <2>5. m1.entries = m.entries /\ m1.held_updates = m.held_updates
        /\ m1.held_release_ready = m.held_release_ready
    BY <2>1 DEF Dequeue, Box
  <2> HIDE DEF m1
  <2>6. /\ m2 \in Box
        /\ m2.entries = [m.entries EXCEPT ![k] = e2]
        /\ m2.held_updates = m.held_updates
        /\ m2.held_release_ready = m.held_release_ready
        /\ QueueIs(m2, Ready(m) \ {k})
    BY <2>2, <2>4, <2>5, SetEntryBox, SetEntryQueue DEF SetEntry, Box
  <2>7. m2.entries[k] = e2 /\ \A j \in Keys : j # k => m2.entries[j] = m.entries[j]
    BY <2>1, <2>6 DEF Box
  <2> HIDE DEF m2
  <2>8. m3 \in Box /\ SameCore(m2, m3)
    BY <2>6, ResetDeadlineProps, BoundsNat
  <2> HIDE DEF m3
  <2>9. /\ n \in Box /\ n.entries = m3.entries /\ n.held_updates = m.held_updates
        /\ n.getting_diff_for = m2.getting_diff_for /\ n.ready_diff_count = m2.ready_diff_count
        /\ n.held_release_ready = (m.held_release_ready \/ k \in Channels)
    BY <2>3, <2>6, <2>8 DEF Box, SameCore
  <2>10. ~Getting(n, k) /\ Known(n, k)
    BY <2>2, <2>7, <2>8, <2>9 DEF SameCore, Known, Getting
  <2>11. \A j \in Keys : j # k =>
           /\ Known(n, j) <=> Known(m, j)
           /\ Getting(n, j) <=> Getting(m, j)
           /\ Known(n, j) => /\ n.entries[j].pending = m.entries[j].pending
                             /\ n.entries[j].deferred = m.entries[j].deferred
                             /\ n.entries[j].gap = m.entries[j].gap
    BY <2>7, <2>8, <2>9 DEF SameCore, Known, Getting
  <2>12. n.entries[k].gap = e.gap /\ ~n.entries[k].deferred /\ ~n.entries[k].pending
    BY <2>2, <2>7, <2>8, <2>9 DEF SameCore, Known
  <2>13. Ready(n) = Ready(m) \ {k}
    BY <2>10, <2>11 DEF Ready, Getting
  <2>14. QueueIs(n, Ready(n))
    BY <2>6, <2>9, <2>13 DEF QueueIs
  <2>15. Clean(n)
    <3>1. \A j \in Keys : Known(n, j) => GapOf(n, j)
      BY <2>1, <2>11, <2>12 DEF Good, Clean, GapOf
    <3> QED BY <3>1, <2>11, <2>12 DEF Good, Clean
  <2>16. HeldOK(n)
    BY <2>9, <2>11, ChannelsAreKeys DEF Good, HeldOK
  <2> QED BY <2>1, <2>9, <2>10, <2>11, <2>12, <2>14, <2>15, <2>16 DEF Good, n
<1> QED BY <1>1, <1>2

(* A new entry is quiet: no recovery and no gap *)
LEMMA NewEntryProps ==
    ASSUME NEW p \in Nat
    PROVE  /\ NewEntry(p) \in Entry /\ ~NewEntry(p).pending /\ ~NewEntry(p).deferred
           /\ NewEntry(p).gap = <<>> /\ NewEntry(p).pts = p
<1>1. PICK z \in Seq(Events) : z = <<>>
  BY EmptySeq
<1>2. NoUpdatesTimeout \in Nat
  BY BoundsNat
<1>3. NewEntry(p) = [pts |-> p, deadline |-> NoUpdatesTimeout, deferred |-> FALSE,
          pending |-> FALSE, deferrals |-> 0, failures |-> 0, notBefore |-> 0,
          gapDeadline |-> 0, gap |-> z]
  BY <1>1 DEF NewEntry
<1> QED BY <1>1, <1>2, <1>3 DEF Entry

(* A fresh entry for a sequence that is not being recovered *)
LEMMA SetNewGood ==
    ASSUME NEW m, Good(m), NEW k \in Keys, ~Getting(m, k), NEW p \in Nat
    PROVE  Good(SetEntry(m, k, NewEntry(p)))
<1>1. k \notin Ready(m)
  BY DEF Ready
<1>2. \A i \in 1 .. Len(NewEntry(p).gap) : NewEntry(p).gap[i].key = k
  BY NewEntryProps, EmptySeq
<1> HIDE DEF NewEntry
<1> QED BY <1>1, <1>2, NewEntryProps, SetEntryGood

(* An entry whose recovery flags and gap stay as they are *)
LEMMA TouchEntryGood ==
    ASSUME NEW m, Good(m), NEW k \in Keys, Known(m, k), NEW e \in Entry,
           e.pending = m.entries[k].pending, e.deferred = m.entries[k].deferred,
           e.gap = m.entries[k].gap
    PROVE  Good(SetEntry(m, k, e))
<1>1. /\ e.pending => e.gap = <<>>
      /\ e.deferred => e.pending
      /\ \A i \in 1 .. Len(e.gap) : e.gap[i].key = k
      /\ (e.pending /\ ~e.deferred) <=> k \in Ready(m)
      /\ Getting(m, k) => e.pending
  BY DEF Good, Clean, GapOf, Ready, Getting
<1> QED BY <1>1, SetEntryGood

(* set_entry changes the entry of one sequence *)
LEMMA SetEntryEntries ==
    ASSUME NEW m \in Box, NEW k \in Keys, NEW e
    PROVE  LET n == SetEntry(m, k, e)
           IN  /\ n.entries[k] = e /\ \A j \in Keys : j # k => n.entries[j] = m.entries[j]
               /\ n.held_release_ready = m.held_release_ready
               /\ n.held_updates = m.held_updates
               /\ n.next_deadline = m.next_deadline
BY DEF SetEntry, Box

(* set_pts keeps the struct consistent *)
LEMMA SetPtsGood ==
    ASSUME NEW m, Good(m), NEW k \in Keys, NEW p \in Nat
    PROVE  LET n == SetPts(m, k, p)
           IN  /\ Good(n)
               /\ Known(n, k)
               /\ \A j \in Keys : j # k => n.entries[j] = m.entries[j]
               /\ \A j \in Keys : Getting(n, j) <=> Getting(m, j)
               /\ Ready(n) = Ready(m)
               /\ n.held_release_ready = m.held_release_ready
               /\ n.held_updates = m.held_updates
<1>0. m \in Box
  BY DEF Good
<1>1. CASE Known(m, k)
  <2>1. PICK e : e = [m.entries[k] EXCEPT !.pts = p]
    OBVIOUS
  <2>2. /\ e \in Entry /\ e.pending = m.entries[k].pending
        /\ e.deferred = m.entries[k].deferred /\ e.gap = m.entries[k].gap
    BY <1>0, <1>1, <2>1, KnownEntry DEF Entry
  <2>3. SetPts(m, k, p) = SetEntry(m, k, e) /\ e # NoEntry
    BY <1>0, <1>1, <2>1, <2>2, KnownEntry DEF SetPts
  <2>4. Good(SetPts(m, k, p))
    BY <1>1, <2>2, <2>3, TouchEntryGood
  <2> QED BY <1>0, <1>1, <2>2, <2>3, <2>4, SetEntryEntries DEF Known, Getting, Ready
<1>2. CASE ~Known(m, k)
  <2>1. PICK e \in Entry : e = NewEntry(p) /\ ~e.pending /\ ~e.deferred
    BY NewEntryProps
  <2>2. SetPts(m, k, p) = SetEntry(m, k, e) /\ e # NoEntry
    BY <1>0, <1>2, <2>1, KnownEntry DEF SetPts
  <2>3. Good(SetPts(m, k, p))
    BY <1>2, <2>1, <2>2, SetNewGood DEF Getting
  <2> QED BY <1>0, <1>2, <2>1, <2>2, <2>3, SetEntryEntries DEF Known, Getting, Ready
<1> QED BY <1>1, <1>2

(* pop_entry keeps the struct consistent when no recovery of the sequence is pending *)
LEMMA PopGood ==
    ASSUME NEW m, Good(m), NEW k \in Keys, ~Getting(m, k)
    PROVE  LET n == PopEntry(m, k)
           IN  /\ Good(n)
               /\ ~Known(n, k)
               /\ \A j \in Keys : j # k => n.entries[j] = m.entries[j]
               /\ n.held_release_ready = m.held_release_ready
<1> DEFINE n == PopEntry(m, k)
<1>1. m \in Box /\ n \in Box
  BY SetEntryBox DEF PopEntry, Good
<1>2. n.entries[k] = NoEntry /\ (\A j \in Keys : j # k => n.entries[j] = m.entries[j])
      /\ n.held_release_ready = m.held_release_ready /\ n.held_updates = m.held_updates
  BY <1>1, SetEntryEntries DEF PopEntry
<1>3. QueueIs(n, Ready(m))
  BY <1>1, SetEntryQueue DEF PopEntry, Good
<1> HIDE DEF n
<1>4. \A j \in Keys : Getting(n, j) <=> Getting(m, j)
  BY <1>2 DEF Getting, Known
<1>5. Ready(n) = Ready(m)
  BY <1>2, <1>4 DEF Ready, Getting, Known
<1>6. Clean(n)
  BY <1>2 DEF Good, Clean, GapOf, Known
<1>7. HeldOK(n)
  BY <1>2, <1>4, ChannelsAreKeys DEF Good, HeldOK
<1> QED BY <1>1, <1>2, <1>3, <1>5, <1>6, <1>7 DEF Good, Known, n

(* channel_retry_delay is a length of time *)
LEMMA RetryDelayNat ==
    ASSUME NEW f \in Nat
    PROVE  RetryDelay(f) \in Nat
<1>1. Min2(Max2(f - 1, 0), 6) + 1 \in 1 .. 7
  BY DEF Min2, Max2
<1>2. \A i \in 1 .. 7 : <<1, 2, 4, 8, 16, 32, 64>>[i] \in Nat
  OBVIOUS
<1> QED BY <1>1, <1>2, BoundsNat DEF RetryDelay, Min2

(* schedule_channel_retry keeps the struct consistent *)
LEMMA ScheduleGood ==
    ASSUME NEW m, Good(m), NEW c \in Keys, Known(m, c), ~Getting(m, c), NEW f \in Nat,
           NEW beyond \in Seq(Events), \A i \in 1 .. Len(beyond) : beyond[i].key = c
    PROVE  LET n == ScheduleChannelRetry(m, c, f, beyond)
           IN  Good(n) /\ \A j \in Keys : Known(n, j) <=> Known(m, j)
<1> DEFINE n == ScheduleChannelRetry(m, c, f, beyond)
           at == RetryDelay(f)
           e == [m.entries[c] EXCEPT !.failures = f, !.notBefore = at]
           g == [e EXCEPT !.gap = beyond, !.gapDeadline = at]
<1>1. m \in Box /\ at \in Nat /\ m.entries[c] \in Entry
  BY RetryDelayNat, KnownEntry DEF Good
<1> HIDE DEF at
<1>2. /\ e \in Entry /\ e.gap = m.entries[c].gap /\ e.pending = m.entries[c].pending
      /\ e.deferred = m.entries[c].deferred
  BY <1>1 DEF Entry
<1>3. ~m.entries[c].pending /\ ~m.entries[c].deferred /\ c \notin Ready(m)
  BY DEF Good, Clean, Getting, Ready
<1> HIDE DEF e
<1>4. g \in Entry /\ g.gap = beyond /\ g.pending = e.pending /\ g.deferred = e.deferred
  BY <1>1, <1>2 DEF Entry
<1> HIDE DEF g
<1>5. CASE beyond = <<>>
  <2>1. n = SetEntry(m, c, e)
    BY <1>5 DEF ScheduleChannelRetry, e, at
  <2>2. Good(n)
    BY <1>2, <2>1, TouchEntryGood
  <2> QED BY <1>1, <1>2, <2>1, <2>2, SetEntryEntries, KnownEntry DEF Known
<1>6. CASE beyond # <<>>
  <2> DEFINE m1 == SetEntry(m, c, g)
  <2>1. n = [m1 EXCEPT !.next_deadline = Min2(@, at)]
    BY <1>6 DEF ScheduleChannelRetry, g, e, at
  <2>2. Good(m1)
    BY <1>2, <1>3, <1>4, SetEntryGood DEF Getting
  <2>3. \A j \in Keys : Known(m1, j) <=> Known(m, j)
    BY <1>1, <1>4, SetEntryEntries, KnownEntry DEF Known
  <2> HIDE DEF m1
  <2>4. Min2(m1.next_deadline, at) \in Nat
    BY <1>1, <2>2 DEF Good, Box, Min2
  <2>5. Good(n) /\ n.entries = m1.entries
    BY <2>1, <2>2, <2>4, SetDeadlineGood
  <2> QED BY <2>3, <2>5 DEF Known
<1> QED BY <1>5, <1>6

-----------------------------------------------------------------------------

KeysAre(s, k) == \A i \in 1 .. Len(s) : s[i].key = k

SortingOK ==
    call.phase \in {"sort", "drain"} =>
        /\ Known(mb, call.key) /\ ~Getting(mb, call.key)
        /\ call.after \in {"socket", "account"}
        /\ KeysAre(call.built, call.key)
        /\ call.phase = "sort" => mb.entries[call.key].gap # <<>> \/ call.built # <<>>
        /\ call.phase = "drain" => mb.entries[call.key].gap # <<>>
LoopOK ==
    call.phase = "loop" =>
        /\ call.after \in {"socket", "account", "channel"}
        /\ call.after = "channel" =>
             /\ call.chan \in Channels /\ Known(mb, call.chan)
             /\ call.todo \in Seq(Events) /\ KeysAre(call.todo, call.chan)
             /\ call.force = {call.chan} /\ call.built = <<>>
             /\ call.final => ~Getting(mb, call.chan) /\ mb.held_release_ready
             /\ ~call.final => call.chan \in Ready(mb)
SiftOK ==
    call.phase \in {"extract", "sift"} =>
        /\ call.chan \in Channels /\ Known(mb, call.chan) /\ ~Getting(mb, call.chan)
        /\ mb.held_release_ready
        /\ call.todo \in Seq(Events) /\ KeysAre(call.todo, call.chan)
        /\ KeysAre(call.built, call.chan)
        /\ call.phase = "extract" => call.left <= Len(mb.held_updates)
ReleaseOK ==
    call.phase = "release" =>
        /\ call.after = "socket"
        /\ call.todo \in Seq(Events) /\ call.left <= Len(mb.held_updates)
        /\ \A i \in 1 .. Len(mb.held_updates) :
             Getting(mb, mb.held_updates[i].key) \/ i <= call.left
CallOK == SortingOK /\ LoopOK /\ SiftOK /\ ReleaseOK

(* While take_released_updates runs, what it still has to look at counts as
   ready to be released *)
BoxOK ==
    IF call.phase = "release" THEN Good([mb EXCEPT !.held_release_ready = TRUE])
                              ELSE Good(mb)

Inv == TypeOK /\ BoxOK /\ QtsNeedsPrimary /\ CallOK

(* No call in progress is a call state *)
LEMMA IdleType == Idle \in Call /\ Idle.phase = "idle"
<1>1. PICK z \in Seq(Updates) : z = <<>>
  BY EmptySeq
<1>2. PICK y \in Seq(Events) : y = <<>>
  BY EmptySeq
<1>3. Idle = [phase |-> "idle", todo |-> z, built |-> y, left |-> 0,
         force |-> {}, got |-> FALSE, gaps |-> FALSE, seq |-> 0, key |-> Common,
         after |-> "socket", chan |-> Common, final |-> FALSE, timeout |-> 0,
         failures |-> 0, msgs |-> {}, at |-> 0, keys |-> {}]
  BY <1>1, <1>2 DEF Idle
<1> QED BY <1>3, ChannelsAreKeys DEF Call, Phases

(* Handing out nothing keeps the types of the history variables *)
LEMMA NothingType ==
    ASSUME TypeOK, Nothing
    PROVE  base' \in [Keys -> Nat] /\ delivered' \in [Counted -> Nat]
BY DEF TypeOK, Nothing

(* Handing out updates keeps the types of the history variables *)
LEMMA HandedType ==
    ASSUME TypeOK, NEW S, Handed(S)
    PROVE  base' \in [Keys -> Nat] /\ delivered' \in [Counted -> Nat]
BY DEF TypeOK, Handed, Deliver

(* Establishing positions keeps the types of the history variables *)
LEMMA EstablishType ==
    ASSUME TypeOK, NEW K \in SUBSET Keys, NEW p, \A k \in K : p[k] \in Nat, Establish(K, p)
    PROVE  base' \in [Keys -> Nat] /\ delivered' \in [Counted -> Nat]
BY DEF TypeOK, Establish

(* The conclusion of a step that starts and ends between calls *)
LEMMA IdleStep ==
    ASSUME Inv, call.phase = "idle", call' = call, Good(mb'), QtsNeedsPrimary',
           srv' \in [Keys -> Nat], srvSeq' \in Nat,
           base' \in [Keys -> Nat], delivered' \in [Counted -> Nat]
    PROVE  Inv'
<1>1. mb' \in Box /\ TypeOK'
  BY DEF Inv, TypeOK, Good
<1>2. BoxOK'
  BY DEF BoxOK
<1>3. CallOK'
  BY DEF CallOK, SortingOK, LoopOK, SiftOK, ReleaseOK
<1> QED BY <1>1, <1>2, <1>3 DEF Inv

(* The invariant gives a consistent struct outside take_released_updates *)
LEMMA IdleGood ==
    ASSUME Inv, call.phase # "release"
    PROVE  Good(mb) /\ mb \in Box
BY DEF Inv, BoxOK, Good

(* A step that makes no sequence known or unknown keeps QtsNeedsPrimary *)
LEMMA SameKnown ==
    ASSUME QtsNeedsPrimary, \A j \in Keys : Known(mb', j) <=> Known(mb, j)
    PROVE  QtsNeedsPrimary'
BY ChannelsAreKeys DEF QtsNeedsPrimary

(* A gap reported by the transport starts at most the account's recovery *)
LEMMA ProcessGapStep == Inv /\ ProcessGap => Inv'
<1> SUFFICES ASSUME Inv, ProcessGap
             PROVE  Inv'
  OBVIOUS
<1>1. call.phase = "idle" /\ call' = call /\ srv' = srv /\ srvSeq' = srvSeq
      /\ mb' = TryBeginGetDiff(mb, Common)
  BY DEF ProcessGap
<1>2. Good(mb') /\ \A j \in Keys : Known(mb', j) <=> Known(mb, j)
  BY <1>1, IdleGood, TryBeginGood, ChannelsAreKeys
<1>3. base' \in [Keys -> Nat] /\ delivered' \in [Counted -> Nat]
  BY NothingType DEF ProcessGap, Inv
<1> QED BY <1>1, <1>2, <1>3, SameKnown, IdleStep DEF Inv, TypeOK

(* Ending both account recoveries *)
LEMMA EndAccountGood ==
    ASSUME NEW m, Good(m)
    PROVE  LET n == TryEndGetDiff(TryEndGetDiff(m, Common), Secondary)
           IN  Good(n) /\ \A j \in Keys : Known(n, j) <=> Known(m, j)
<1> DEFINE m1 == TryEndGetDiff(m, Common)
           n == TryEndGetDiff(m1, Secondary)
<1>1. Good(m1) /\ \A j \in Keys : Known(m1, j) <=> Known(m, j)
  BY TryEndGood, ChannelsAreKeys
<1> HIDE DEF m1
<1>2. Good(n) /\ \A j \in Keys : Known(n, j) <=> Known(m1, j)
  BY <1>1, TryEndGood, ChannelsAreKeys
<1> QED BY <1>1, <1>2 DEF m1

(* An empty account difference ends both account recoveries *)
LEMMA EmptyDifferenceStep == Inv /\ EmptyDifference => Inv'
<1> SUFFICES ASSUME Inv, EmptyDifference
             PROVE  Inv'
  OBVIOUS
<1> DEFINE m1 == [mb EXCEPT !.seq = srvSeq]
<1>1. call.phase = "idle" /\ call' = call /\ srv' = srv /\ srvSeq' = srvSeq
      /\ mb' = TryEndGetDiff(TryEndGetDiff(m1, Common), Secondary)
  BY DEF EmptyDifference, AccountDiffWanted
<1>2. Good(m1) /\ m1.entries = mb.entries
  BY <1>1, IdleGood, SetSeqGood DEF Inv, TypeOK
<1> HIDE DEF m1
<1>3. Good(mb') /\ \A j \in Keys : Known(mb', j) <=> Known(m1, j)
  BY <1>1, <1>2, EndAccountGood
<1>4. \A j \in Keys : Known(mb', j) <=> Known(mb, j)
  BY <1>2, <1>3 DEF Known
<1>5. base' \in [Keys -> Nat] /\ delivered' \in [Counted -> Nat]
  BY NothingType DEF EmptyDifference, Inv
<1> QED BY <1>1, <1>3, <1>4, <1>5, SameKnown, IdleStep DEF Inv, TypeOK

(* A too long account difference moves the pts and ends both account recoveries *)
LEMMA DifferenceTooLongStep ==
    ASSUME NEW p \in Nat, Inv, DifferenceTooLong(p)
    PROVE  Inv'
<1> DEFINE m1 == SetPts(mb, Common, p)
<1>1. call.phase = "idle" /\ call' = call /\ srv' = srv /\ srvSeq' = srvSeq
      /\ mb' = TryEndGetDiff(TryEndGetDiff(m1, Common), Secondary)
  BY DEF DifferenceTooLong, AccountDiffWanted
<1>2. Good(m1) /\ Known(m1, Common)
  BY <1>1, IdleGood, SetPtsGood, ChannelsAreKeys
<1> HIDE DEF m1
<1>3. Good(mb') /\ \A j \in Keys : Known(mb', j) <=> Known(m1, j)
  BY <1>1, <1>2, EndAccountGood
<1>4. QtsNeedsPrimary'
  BY <1>2, <1>3, ChannelsAreKeys DEF QtsNeedsPrimary
<1>5. base' \in [Keys -> Nat] /\ delivered' \in [Counted -> Nat]
  BY EstablishType, ChannelsAreKeys DEF DifferenceTooLong, Inv
<1> QED BY <1>1, <1>3, <1>4, <1>5, IdleStep DEF Inv, TypeOK

(* set_state makes pts and qts known together *)
LEMMA SetAccountStateStep == Inv /\ SetAccountState => Inv'
<1> SUFFICES ASSUME Inv, SetAccountState
             PROVE  Inv'
  OBVIOUS
<1> DEFINE a == SetEntry(mb, Common, NewEntry(srv[Common]))
           b == SetEntry(a, Secondary, NewEntry(srv[Secondary]))
           s == [b EXCEPT !.seq = srvSeq]
           t == Min2(s.next_deadline, NoUpdatesTimeout)
<1>1. /\ call.phase = "idle" /\ call' = call /\ srv' = srv /\ srvSeq' = srvSeq
      /\ ~Known(mb, Common)
      /\ mb' = [b EXCEPT !.seq = srvSeq, !.next_deadline = Min2(@, NoUpdatesTimeout)]
  BY DEF SetAccountState, SetState
<1>2. /\ Good(mb) /\ mb \in Box /\ ~Known(mb, Secondary)
      /\ srv[Common] \in Nat /\ srv[Secondary] \in Nat /\ srvSeq \in Nat
  BY <1>1, IdleGood, ChannelsAreKeys DEF Inv, TypeOK, QtsNeedsPrimary
<1>3. Good(a)
  BY <1>1, <1>2, SetNewGood, ChannelsAreKeys DEF Getting
<1>4. ~Getting(a, Secondary)
  BY <1>2, SetEntryEntries, ChannelsAreKeys DEF Getting, Known
<1> HIDE DEF a
<1>5. Good(b)
  BY <1>2, <1>3, <1>4, SetNewGood, ChannelsAreKeys
<1>6. Known(b, Common)
  <2>1. a.entries[Common] = NewEntry(srv[Common])
    BY <1>2, SetEntryEntries, ChannelsAreKeys DEF a
  <2>2. b.entries[Common] = a.entries[Common]
    BY <1>3, SetEntryEntries, ChannelsAreKeys DEF Good
  <2> QED BY <1>2, <2>1, <2>2, NewEntryProps, KnownEntry, ChannelsAreKeys DEF Known
<1> HIDE DEF b
<1>7. Good(s) /\ s.entries = b.entries
  BY <1>2, <1>5, SetSeqGood
<1>8. t \in Nat /\ mb' = [s EXCEPT !.next_deadline = t]
  <2>1. s.next_deadline = b.next_deadline /\ s.next_deadline \in Nat
    BY <1>5, <1>7 DEF Good, Box
  <2>2. t \in Nat
    BY <2>1, BoundsNat DEF Min2
  <2>3. mb' = [s EXCEPT !.next_deadline = t]
    BY <1>1, <1>5, <2>1 DEF Good, Box
  <2> QED BY <2>2, <2>3
<1> HIDE DEF s, t
<1>9. Good(mb') /\ mb'.entries = s.entries
  BY <1>7, <1>8, SetDeadlineGood
<1>10. QtsNeedsPrimary'
  BY <1>6, <1>7, <1>9 DEF QtsNeedsPrimary, Known
<1>11. base' \in [Keys -> Nat] /\ delivered' \in [Counted -> Nat]
  BY <1>2, EstablishType, ChannelsAreKeys DEF SetAccountState, Inv
<1> QED BY <1>1, <1>9, <1>10, <1>11, IdleStep DEF Inv, TypeOK

(* Giving up the account's positions *)
LEMMA DropGood ==
    ASSUME NEW m, Good(m), NEW k \in Keys
    PROVE  LET n == PopEntry(TryEndGetDiff(m, k), k)
           IN  /\ Good(n)
               /\ ~Known(n, k)
               /\ \A j \in Keys : j # k => (Known(n, j) <=> Known(m, j))
<1> DEFINE m1 == TryEndGetDiff(m, k)
           n == PopEntry(m1, k)
<1>1. Good(m1) /\ ~Getting(m1, k) /\ \A j \in Keys : Known(m1, j) <=> Known(m, j)
  BY TryEndGood
<1> HIDE DEF m1
<1>2. Good(n) /\ ~Known(n, k) /\ \A j \in Keys : j # k => n.entries[j] = m1.entries[j]
  BY <1>1, PopGood
<1>3. \A j \in Keys : j # k => (Known(n, j) <=> Known(m1, j))
  BY <1>2 DEF Known
<1> QED BY <1>1, <1>2, <1>3 DEF m1

(* discard_account_state forgets pts and qts together and leaves no queued recovery *)
LEMMA DiscardAccountStep == Inv /\ DiscardAccount => Inv'
<1> SUFFICES ASSUME Inv, DiscardAccount
             PROVE  Inv'
  OBVIOUS
<1> DEFINE m1 == PopEntry(TryEndGetDiff(mb, Common), Common)
<1>1. call.phase = "idle" /\ call' = call /\ srv' = srv /\ srvSeq' = srvSeq
      /\ mb' = PopEntry(TryEndGetDiff(m1, Secondary), Secondary)
  BY DEF DiscardAccount, DiscardAccountState
<1>2. Good(m1)
  BY <1>1, IdleGood, DropGood, ChannelsAreKeys
<1> HIDE DEF m1
<1>3. Good(mb') /\ ~Known(mb', Secondary)
  BY <1>1, <1>2, DropGood, ChannelsAreKeys
<1>4. QtsNeedsPrimary'
  BY <1>3 DEF QtsNeedsPrimary
<1>5. base' \in [Keys -> Nat] /\ delivered' \in [Counted -> Nat]
  BY EstablishType, ChannelsAreKeys DEF DiscardAccount, Inv
<1> QED BY <1>1, <1>3, <1>4, <1>5, IdleStep DEF Inv, TypeOK

(* Channels never decide whether the account's positions are known *)
LEMMA SameAccountKnown ==
    ASSUME QtsNeedsPrimary, NEW c \in Channels,
           \A j \in Keys : j # c => (Known(mb', j) <=> Known(mb, j))
    PROVE  QtsNeedsPrimary'
BY ChannelsAreKeys DEF QtsNeedsPrimary

(* try_set_channel_state adds a quiet entry *)
LEMMA TrySetChannelStateStep ==
    ASSUME NEW c \in Channels, Inv, TrySetChannelState(c)
    PROVE  Inv'
<1>1. /\ call.phase = "idle" /\ call' = call /\ srv' = srv /\ srvSeq' = srvSeq
      /\ ~Known(mb, c) /\ mb' = SetEntry(mb, c, NewEntry(srv[c]))
  BY DEF TrySetChannelState
<1>2. c \in Keys /\ srv[c] \in Nat /\ Good(mb) /\ mb \in Box
  BY <1>1, ChannelsAreKeys, IdleGood DEF Inv, TypeOK
<1>3. Good(mb')
  BY <1>1, <1>2, SetNewGood DEF Getting
<1>4. \A j \in Keys : j # c => mb'.entries[j] = mb.entries[j]
  BY <1>1, <1>2, SetEntryEntries
<1>5. QtsNeedsPrimary'
  BY <1>4, SameAccountKnown DEF Inv, Known
<1>6. base' \in [Keys -> Nat] /\ delivered' \in [Counted -> Nat]
  BY <1>2, EstablishType DEF TrySetChannelState, Inv
<1> QED BY <1>1, <1>3, <1>5, <1>6, IdleStep DEF Inv, TypeOK

(* The channel a difference is fetched for is a ready one *)
LEMMA ChannelReadyProps ==
    ASSUME NEW m, Good(m), NEW c \in Channels, IsChannelInDiff(m, c)
    PROVE  /\ c \in Keys /\ c \in Ready(m) /\ Getting(m, c) /\ Known(m, c)
           /\ m \in Box /\ m.entries[c] \in Entry
           /\ m.entries[c].pending /\ ~m.entries[c].deferred /\ m.entries[c].gap = <<>>
<1>1. m \in Box /\ c \in Keys /\ DOMAIN m.getting_diff_for = 1 .. Len(m.getting_diff_for)
  BY ChannelsAreKeys, LenProperties DEF Good, Box
<1>2. c \in Ready(m)
  BY <1>1 DEF IsChannelInDiff, Good, QueueIs
<1> QED BY <1>1, <1>2, KnownEntry DEF Ready, Getting, Good, Clean

(* Clearing the gap a pending recovery has not got changes nothing *)
ClearGap(m, c) == SetEntry(m, c, [m.entries[c] EXCEPT !.gap = <<>>, !.gapDeadline = 0])

(* Clearing the gap of a channel in recovery keeps the struct consistent *)
LEMMA ClearGapGood ==
    ASSUME NEW m, Good(m), NEW c \in Channels, IsChannelInDiff(m, c)
    PROVE  LET n == ClearGap(m, c)
           IN  /\ Good(n) /\ Getting(n, c)
               /\ \A j \in Keys : Known(n, j) <=> Known(m, j)
               /\ n.held_updates = m.held_updates
<1>1. /\ c \in Keys /\ Getting(m, c) /\ Known(m, c) /\ m \in Box /\ m.entries[c] \in Entry
      /\ m.entries[c].pending /\ m.entries[c].gap = <<>>
  BY ChannelReadyProps
<1>2. PICK e : e = [m.entries[c] EXCEPT !.gap = <<>>, !.gapDeadline = 0]
  OBVIOUS
<1>3. PICK z \in Seq(Events) : z = <<>>
  BY EmptySeq
<1>4. e = [m.entries[c] EXCEPT !.gap = z, !.gapDeadline = 0]
  BY <1>2, <1>3
<1>5. /\ e \in Entry /\ e.pending = m.entries[c].pending
      /\ e.deferred = m.entries[c].deferred /\ e.gap = m.entries[c].gap
  BY <1>1, <1>3, <1>4 DEF Entry
<1>6. PICK n : n = ClearGap(m, c)
  OBVIOUS
<1>7. n = SetEntry(m, c, e)
  BY <1>2, <1>6 DEF ClearGap
<1>8. Good(n)
  BY <1>1, <1>5, <1>7, TouchEntryGood
<1>9. n.entries[c] = e /\ (\A j \in Keys : j # c => n.entries[j] = m.entries[j])
      /\ n.held_updates = m.held_updates /\ e # NoEntry
  BY <1>1, <1>5, <1>7, SetEntryEntries, KnownEntry
<1>10. Getting(n, c) /\ \A j \in Keys : Known(n, j) <=> Known(m, j)
  BY <1>1, <1>5, <1>9 DEF Known, Getting
<1> QED BY <1>6, <1>8, <1>9, <1>10

(* A banned channel's recovery ends before its entry goes *)
LEMMA EndBannedStep ==
    ASSUME NEW c \in Channels, Inv, EndBanned(c)
    PROVE  Inv'
<1> DEFINE m1 == ClearGap(mb, c)
<1>1. /\ call.phase = "idle" /\ call' = call /\ srv' = srv /\ srvSeq' = srvSeq
      /\ IsChannelInDiff(mb, c) /\ mb' = PopEntry(TryEndGetDiff(m1, c), c)
  BY DEF EndBanned, ChannelReady, ClearGap
<1>2. Good(mb) /\ c \in Keys
  BY <1>1, IdleGood, ChannelsAreKeys
<1>3. Good(m1) /\ \A j \in Keys : Known(m1, j) <=> Known(mb, j)
  BY <1>1, <1>2, ClearGapGood
<1> HIDE DEF m1
<1>4. Good(mb') /\ \A j \in Keys : j # c => (Known(mb', j) <=> Known(m1, j))
  BY <1>1, <1>2, <1>3, DropGood
<1>5. QtsNeedsPrimary'
  BY <1>3, <1>4, SameAccountKnown DEF Inv
<1>6. base' \in [Keys -> Nat] /\ delivered' \in [Counted -> Nat]
  BY <1>2, EstablishType DEF EndBanned, Inv
<1> QED BY <1>1, <1>4, <1>5, <1>6, IdleStep DEF Inv, TypeOK

(* retry_channel_without_delay changes times and counters only *)
LEMMA RetryChannelWithoutDelayStep ==
    ASSUME NEW c \in Channels, Inv, RetryChannelWithoutDelay(c)
    PROVE  Inv'
<1> DEFINE f == Max2(mb.entries[c].failures - 1, 0)
           e1 == [mb.entries[c] EXCEPT !.failures = f, !.notBefore = 0, !.gapDeadline = 0]
           m1 == SetEntry(mb, c, e1)
           t == IF mb.entries[c].gap = <<>> THEN m1.next_deadline ELSE 0
<1>1. /\ call.phase = "idle" /\ call' = call /\ srv' = srv /\ srvSeq' = srvSeq
      /\ Known(mb, c) /\ mb' = [m1 EXCEPT !.next_deadline = t]
  BY DEF RetryChannelWithoutDelay
<1>2. c \in Keys /\ Good(mb) /\ mb \in Box /\ mb.entries[c] \in Entry
  BY <1>1, ChannelsAreKeys, IdleGood, KnownEntry
<1>a. f \in Nat
  BY <1>2 DEF Entry, Max2
<1> HIDE DEF f
<1>3. /\ e1 \in Entry /\ e1.pending = mb.entries[c].pending
      /\ e1.deferred = mb.entries[c].deferred /\ e1.gap = mb.entries[c].gap
  BY <1>2, <1>a DEF Entry
<1> HIDE DEF e1
<1>4. Good(m1) /\ m1 \in Box
  BY <1>1, <1>2, <1>3, TouchEntryGood DEF Good
<1>5. \A j \in Keys : j # c => m1.entries[j] = mb.entries[j]
  BY <1>2, SetEntryEntries
<1> HIDE DEF m1
<1>6. t \in Nat
  BY <1>4 DEF Box
<1> HIDE DEF t
<1>7. Good(mb') /\ mb'.entries = m1.entries
  BY <1>1, <1>4, <1>6, SetDeadlineGood
<1>8. QtsNeedsPrimary'
  BY <1>5, <1>7, SameAccountKnown DEF Inv, Known
<1>9. base' \in [Keys -> Nat] /\ delivered' \in [Counted -> Nat]
  BY NothingType DEF RetryChannelWithoutDelay, Inv
<1> QED BY <1>1, <1>7, <1>8, <1>9, IdleStep DEF Inv, TypeOK

(* exhausted_channels is no part of consistency *)
LEMMA SetExhaustedGood ==
    ASSUME NEW m, Good(m), NEW X \in SUBSET Channels
    PROVE  LET n == [m EXCEPT !.exhausted_channels = X]
           IN  /\ Good(n) /\ n.entries = m.entries
               /\ n.getting_diff_for = m.getting_diff_for
               /\ n.held_release_ready = m.held_release_ready
               /\ n.held_updates = m.held_updates
<1> DEFINE n == [m EXCEPT !.exhausted_channels = X]
<1>1. m \in Box
  BY DEF Good
<1>2. /\ n \in Box /\ SameCore(m, n) /\ n.entries = m.entries
      /\ n.getting_diff_for = m.getting_diff_for
      /\ n.held_release_ready = m.held_release_ready /\ n.held_updates = m.held_updates
  BY <1>1 DEF Box, SameCore, Known
<1> QED BY <1>2, SameCoreGood

(* Taking a ready recovery out of the queue and deferring it *)
LEMMA DeferGood ==
    ASSUME NEW m, Good(m), NEW k \in Keys, k \in Ready(m),
           NEW d \in Entry, d.pending, d.deferred, d.gap = <<>>
    PROVE  LET n == SetEntry(Dequeue(m, k), k, d)
           IN  Good(n) /\ \A j \in Keys : Known(n, j) <=> Known(m, j)
<1> DEFINE m1 == Dequeue(m, k)
           n == SetEntry(m1, k, d)
<1>1. m \in Box /\ QueueIs(m, Ready(m)) /\ Known(m, k) /\ Getting(m, k)
  BY DEF Good, Ready, Getting
<1>2. m1 \in Box /\ QueueIs(m1, Ready(m) \ {k})
  BY <1>1, DequeueProps
<1>3. m1.entries = m.entries /\ m1.held_updates = m.held_updates
      /\ m1.held_release_ready = m.held_release_ready
  BY <1>1 DEF Dequeue, Box
<1> HIDE DEF m1
<1>4. /\ n \in Box /\ n.entries[k] = d /\ (\A j \in Keys : j # k => n.entries[j] = m.entries[j])
      /\ n.held_release_ready = m.held_release_ready /\ n.held_updates = m.held_updates
      /\ d # NoEntry
  BY <1>1, <1>2, <1>3, SetEntryBox, SetEntryEntries, KnownEntry
<1>5. QueueIs(n, Ready(m) \ {k})
  BY <1>2, SetEntryQueue
<1> HIDE DEF n
<1>6. Ready(n) = Ready(m) \ {k}
  BY <1>4 DEF Ready, Getting, Known
<1>7. \A j \in Keys : (Getting(n, j) <=> Getting(m, j)) /\ (Known(n, j) <=> Known(m, j))
  BY <1>1, <1>4 DEF Getting, Known
<1>8. Clean(n)
  <2>1. \A i \in 1 .. Len(d.gap) : d.gap[i].key = k
    BY EmptySeq
  <2> QED BY <2>1, <1>4 DEF Good, Clean, GapOf, Known
<1>9. HeldOK(n)
  BY <1>4, <1>7, ChannelsAreKeys DEF Good, HeldOK
<1> QED BY <1>4, <1>5, <1>6, <1>7, <1>8, <1>9 DEF Good, n, m1

(* defer_channel_difference takes the channel out of the queue, deferred or forgotten *)
LEMMA DeferChannelDifferenceStep ==
    ASSUME NEW c \in Channels, Inv, DeferChannelDifference(c)
    PROVE  Inv'
<1> DEFINE x == [mb EXCEPT !.exhausted_channels = @ \cup {c}]
           f == mb.entries[c].deferrals + 1
           d == [mb.entries[c] EXCEPT !.deferred = TRUE, !.deferrals = f,
                                      !.deadline = DeferDelay]
           m1 == SetEntry(Dequeue(mb, c), c, d)
<1>1. /\ call.phase = "idle" /\ call' = call /\ srv' = srv /\ srvSeq' = srvSeq
      /\ IsChannelInDiff(mb, c)
  BY DEF DeferChannelDifference, ChannelReady
<1>2. Good(mb) /\ mb \in Box /\ c \in Keys /\ c \in Ready(mb) /\ mb.entries[c] \in Entry
      /\ mb.entries[c].pending /\ mb.entries[c].gap = <<>>
  BY <1>1, IdleGood, ChannelReadyProps
<1>3. CASE GraceSpent(c)
  <2>1. mb' = PopEntry(TryEndGetDiff(x, c), c) /\ Establish({c}, [k \in Keys |-> 0])
    BY <1>3 DEF DeferChannelDifference
  <2>2. mb.exhausted_channels \cup {c} \in SUBSET Channels
    BY <1>2 DEF Box
  <2>3. Good(x) /\ x.entries = mb.entries
    BY <1>2, <2>2, SetExhaustedGood
  <2> HIDE DEF x
  <2>4. Good(mb') /\ \A j \in Keys : j # c => (Known(mb', j) <=> Known(x, j))
    BY <1>2, <2>1, <2>3, DropGood
  <2>5. QtsNeedsPrimary'
    BY <2>3, <2>4, SameAccountKnown DEF Inv, Known
  <2>6. base' \in [Keys -> Nat] /\ delivered' \in [Counted -> Nat]
    <3>1. TypeOK /\ {c} \in SUBSET Keys /\ \A k \in {c} : [j \in Keys |-> 0][k] \in Nat
      BY <1>2 DEF Inv
    <3> QED BY <2>1, <3>1, EstablishType
  <2> QED BY <1>1, <2>4, <2>5, <2>6, IdleStep DEF Inv, TypeOK
<1>4. CASE ~GraceSpent(c)
  <2>1. mb' = [m1 EXCEPT !.next_deadline = Min2(@, DeferDelay)] /\ Nothing
    BY <1>4 DEF DeferChannelDifference
  <2>a. f \in Nat /\ DeferDelay \in Nat
    BY <1>2, BoundsNat DEF Entry
  <2> HIDE DEF f
  <2>2. d \in Entry /\ d.pending /\ d.deferred /\ d.gap = <<>>
    BY <1>2, <2>a DEF Entry
  <2> HIDE DEF d
  <2>3. Good(m1) /\ \A j \in Keys : Known(m1, j) <=> Known(mb, j)
    BY <1>2, <2>2, DeferGood
  <2> HIDE DEF m1
  <2>4. Min2(m1.next_deadline, DeferDelay) \in Nat
    BY <2>3, <2>a DEF Good, Box, Min2
  <2>5. Good(mb') /\ mb'.entries = m1.entries
    BY <2>1, <2>3, <2>4, SetDeadlineGood
  <2>6. QtsNeedsPrimary'
    BY <2>3, <2>5, SameKnown DEF Inv, Known
  <2>7. base' \in [Keys -> Nat] /\ delivered' \in [Counted -> Nat]
    BY <2>1, NothingType DEF Inv
  <2> QED BY <1>1, <2>5, <2>6, <2>7, IdleStep DEF Inv, TypeOK
<1> QED BY <1>3, <1>4

(* try_exhaust_channel_grace only marks the channel *)
LEMMA TryExhaustChannelGraceStep ==
    ASSUME NEW c \in Channels, Inv, TryExhaustChannelGrace(c)
    PROVE  Inv'
<1>1. /\ call.phase = "idle" /\ call' = call /\ srv' = srv /\ srvSeq' = srvSeq
      /\ mb' = [mb EXCEPT !.exhausted_channels = @ \cup {c}] /\ Nothing
  BY DEF TryExhaustChannelGrace, ChannelReady
<1>2. Good(mb) /\ mb.exhausted_channels \cup {c} \in SUBSET Channels
  BY <1>1, IdleGood DEF Box
<1>3. Good(mb') /\ mb'.entries = mb.entries
  BY <1>1, <1>2, SetExhaustedGood
<1>4. QtsNeedsPrimary' /\ base' \in [Keys -> Nat] /\ delivered' \in [Counted -> Nat]
  BY <1>1, <1>3, SameKnown, NothingType DEF Inv, Known
<1> QED BY <1>1, <1>3, <1>4, IdleStep DEF Inv, TypeOK

(* channel_difference_accessible only clears the channel's grace *)
LEMMA ChannelDifferenceAccessibleStep ==
    ASSUME NEW c \in Channels, Inv, ChannelDifferenceAccessible(c)
    PROVE  Inv'
<1> DEFINE x == [mb EXCEPT !.exhausted_channels = @ \ {c}]
           e == [mb.entries[c] EXCEPT !.deferrals = 0]
<1>1. /\ call.phase = "idle" /\ call' = call /\ srv' = srv /\ srvSeq' = srvSeq
      /\ IsChannelInDiff(mb, c) /\ Nothing
      /\ mb' = [mb EXCEPT !.exhausted_channels = @ \ {c}, !.entries[c].deferrals = 0]
  BY DEF ChannelDifferenceAccessible, ChannelReady
<1>2. Good(mb) /\ mb \in Box /\ c \in Keys /\ Known(mb, c) /\ mb.entries[c] \in Entry
  BY <1>1, IdleGood, ChannelReadyProps
<1>3. Good(x) /\ x.entries = mb.entries
  <2>1. mb.exhausted_channels \ {c} \in SUBSET Channels
    BY <1>2 DEF Box
  <2> QED BY <1>2, <2>1, SetExhaustedGood
<1>4. mb' = SetEntry(x, c, e)
  BY <1>1, <1>2, <1>3 DEF SetEntry, Box
<1>5. /\ e \in Entry /\ e.pending = mb.entries[c].pending
      /\ e.deferred = mb.entries[c].deferred /\ e.gap = mb.entries[c].gap
  BY <1>2 DEF Entry
<1> HIDE DEF x, e
<1>6. Good(mb')
  BY <1>2, <1>3, <1>4, <1>5, TouchEntryGood DEF Known
<1>7. \A j \in Keys : j # c => mb'.entries[j] = mb.entries[j]
  BY <1>2, <1>3, <1>4, SetEntryEntries DEF Good
<1>8. QtsNeedsPrimary' /\ base' \in [Keys -> Nat] /\ delivered' \in [Counted -> Nat]
  BY <1>1, <1>7, SameAccountKnown, NothingType DEF Inv, Known
<1> QED BY <1>1, <1>6, <1>8, IdleStep DEF Inv, TypeOK

(* Telegram's position is no part of consistency *)
LEMMA PublishStep ==
    ASSUME NEW e \in Events, Inv, Publish(e)
    PROVE  Inv'
<1>1. /\ call.phase = "idle" /\ call' = call /\ srvSeq' = srvSeq /\ mb' = mb
      /\ base' = base /\ delivered' = delivered /\ srv' = [srv EXCEPT ![e.key] = e.pts]
  BY DEF Publish
<1>2. Good(mb') /\ QtsNeedsPrimary'
  BY <1>1, IdleGood DEF Inv, QtsNeedsPrimary
<1>3. srv' \in [Keys -> Nat]
  BY <1>1, EventsAssumption DEF Inv, TypeOK
<1> QED BY <1>1, <1>2, <1>3, IdleStep DEF Inv, TypeOK

(* Telegram's seq is no part of consistency *)
LEMMA NumberContainerStep == Inv /\ NumberContainer => Inv'
<1> SUFFICES ASSUME Inv, NumberContainer
             PROVE  Inv'
  OBVIOUS
<1>1. /\ call.phase = "idle" /\ call' = call /\ mb' = mb /\ srv' = srv
      /\ base' = base /\ delivered' = delivered /\ srvSeq' \in Nat
  BY DEF NumberContainer, Inv, TypeOK
<1>2. Good(mb') /\ QtsNeedsPrimary'
  BY <1>1, IdleGood DEF Inv, QtsNeedsPrimary
<1> QED BY <1>1, <1>2, IdleStep DEF Inv, TypeOK

(* The passing of time changes times only *)
LEMMA TickStep == Inv /\ Tick => Inv'
<1> SUFFICES ASSUME Inv, Tick
             PROVE  Inv'
  OBVIOUS
<1> DEFINE dec(t) == Max2(t - 1, 0)
           older(e) == [e EXCEPT !.deadline = dec(@), !.notBefore = dec(@),
                                 !.gapDeadline = dec(@)]
           es == [k \in Keys |-> IF Known(mb, k) THEN older(mb.entries[k]) ELSE NoEntry]
<1>1. /\ call.phase = "idle" /\ call' = call /\ srv' = srv /\ srvSeq' = srvSeq /\ Nothing
      /\ mb' = [mb EXCEPT !.next_deadline = dec(mb.next_deadline), !.entries = es]
  BY DEF Tick
<1>2. Good(mb) /\ mb \in Box
  BY <1>1, IdleGood
<1>3. \A t \in Nat : dec(t) \in Nat
  BY DEF Max2
<1> HIDE DEF dec
<1>4. ASSUME NEW e \in Entry
      PROVE  /\ older(e) \in Entry /\ older(e).pending = e.pending
             /\ older(e).deferred = e.deferred /\ older(e).gap = e.gap
  <2>1. dec(e.deadline) \in Nat /\ dec(e.notBefore) \in Nat /\ dec(e.gapDeadline) \in Nat
    BY <1>3 DEF Entry
  <2>2. older(e) = [e EXCEPT !.deadline = dec(e.deadline), !.notBefore = dec(e.notBefore),
                             !.gapDeadline = dec(e.gapDeadline)]
    BY DEF Entry
  <2> QED BY <2>1, <2>2 DEF Entry
<1> HIDE DEF older
<1>5. es \in [Keys -> Entry \cup {NoEntry}]
  BY <1>2, <1>4, KnownEntry
<1>6. mb' \in Box /\ mb'.entries = es
      /\ mb'.getting_diff_for = mb.getting_diff_for
      /\ mb'.ready_diff_count = mb.ready_diff_count
      /\ mb'.held_updates = mb.held_updates /\ mb'.held_release_ready = mb.held_release_ready
  <2>1. dec(mb.next_deadline) \in Nat
    BY <1>2, <1>3 DEF Box
  <2> HIDE DEF es
  <2> QED BY <1>1, <1>2, <1>5, <2>1 DEF Box
<1>7. \A j \in Keys : Known(mb', j) <=> Known(mb, j)
  <2>1. ASSUME NEW j \in Keys, Known(mb, j)
        PROVE  mb'.entries[j] = older(mb.entries[j]) /\ older(mb.entries[j]) \in Entry
    BY <2>1, <1>2, <1>4, <1>6, KnownEntry
  <2>2. ASSUME NEW j \in Keys, ~Known(mb, j)
        PROVE  mb'.entries[j] = NoEntry
    BY <2>2, <1>6
  <2>3. \A e \in Entry : e # NoEntry
    BY <1>2, KnownEntry, ChannelsAreKeys
  <2> QED BY <2>1, <2>2, <2>3 DEF Known
<1>8. SameCore(mb, mb')
  BY <1>2, <1>4, <1>6, <1>7, KnownEntry DEF SameCore
<1>9. Good(mb')
  BY <1>2, <1>6, <1>8, SameCoreGood
<1>10. QtsNeedsPrimary'
  BY <1>7, SameKnown DEF Inv
<1>11. base' \in [Keys -> Nat] /\ delivered' \in [Counted -> Nat]
  BY <1>1, NothingType DEF Inv
<1>12. srv' \in [Keys -> Nat] /\ srvSeq' \in Nat
  BY <1>1 DEF Inv, TypeOK
<1> HIDE DEF es
<1> QED BY <1>1, <1>9, <1>10, <1>11, <1>12, IdleStep

-----------------------------------------------------------------------------

(* The conclusion of a step that begins or continues a call *)
LEMMA CallStep ==
    ASSUME call' \in Call, call'.phase # "release", Good(mb'), QtsNeedsPrimary', CallOK',
           srv' \in [Keys -> Nat], srvSeq' \in Nat,
           base' \in [Keys -> Nat], delivered' \in [Counted -> Nat]
    PROVE  Inv'
<1>1. TypeOK'
  BY DEF TypeOK, Good
<1>2. BoxOK'
  BY DEF BoxOK
<1> QED BY <1>1, <1>2 DEF Inv

(* Nothing is demanded of a call that is over or that checks deadlines *)
LEMMA IdleCallOK ==
    ASSUME call'.phase \in {"idle", "deadlines"}
    PROVE  CallOK'
BY DEF CallOK, SortingOK, LoopOK, SiftOK, ReleaseOK

(* Nothing is demanded of the loop for socket updates and account differences *)
LEMMA PlainLoopOK ==
    ASSUME call'.phase = "loop", call'.after \in {"socket", "account"}
    PROVE  CallOK'
BY DEF CallOK, SortingOK, LoopOK, SiftOK, ReleaseOK

(* The call state a loop starts in has its type *)
LEMMA BeginLoopType ==
    ASSUME NEW us \in Seq(Updates), NEW K \in SUBSET Keys, NEW q \in Nat
    PROVE  LET n == BeginLoop(us, K, q)
           IN  /\ n \in Call /\ n.phase = "loop" /\ n.after = "socket"
               /\ n.todo = us /\ n.built = <<>> /\ n.force = K
BY IdleType DEF BeginLoop, Call, Phases, Idle

(* Published updates may be processed *)
LEMMA EventsAreUpdates == Seq(Events) \subseteq Seq(Updates)
<1>1. Events \subseteq Updates
  BY DEF Updates
<1> QED BY <1>1

(* The checks of a container start a recovery or the loop *)
LEMMA ProcessUpdatesStep ==
    ASSUME NEW us \in Seq(Updates), NEW seqStart \in Nat, NEW seq \in Nat,
           NEW valid \in BOOLEAN, Inv, ProcessUpdates(us, seqStart, seq, valid)
    PROVE  Inv'
<1> DEFINE accountPending == Getting(mb, Common) \/ Getting(mb, Secondary)
           newSeq == IF seq = 0 \/ accountPending THEN mb.seq ELSE seq
<1>1. /\ call.phase = "idle" /\ srv' = srv /\ srvSeq' = srvSeq /\ Nothing
      /\ mb' = TryBeginGetDiff(mb, Common) \/ mb' = mb
      /\ call' = Idle \/ call' = BeginLoop(us, {}, newSeq)
  BY DEF ProcessUpdates
<1>2. Good(mb) /\ mb \in Box
  BY <1>1, IdleGood
<1>3. newSeq \in Nat
  BY <1>2 DEF Box
<1> HIDE DEF newSeq, accountPending
<1>4. Good(mb') /\ \A j \in Keys : Known(mb', j) <=> Known(mb, j)
  BY <1>1, <1>2, TryBeginGood, ChannelsAreKeys
<1>5. call' \in Call /\ call'.phase # "release" /\ CallOK'
  BY <1>1, <1>3, IdleType, IdleCallOK, BeginLoopType, PlainLoopOK
<1>6. base' \in [Keys -> Nat] /\ delivered' \in [Counted -> Nat]
      /\ srv' \in [Keys -> Nat] /\ srvSeq' \in Nat
  BY <1>1, NothingType DEF Inv, TypeOK
<1>7. QtsNeedsPrimary'
  BY <1>4, SameKnown DEF Inv
<1> QED BY <1>4, <1>5, <1>6, <1>7, CallStep

(* check_deadlines starts its loop *)
LEMMA CheckDeadlinesStep == Inv /\ CheckDeadlines => Inv'
<1> SUFFICES ASSUME Inv, CheckDeadlines
             PROVE  Inv'
  OBVIOUS
<1>1. /\ call.phase = "idle" /\ srv' = srv /\ srvSeq' = srvSeq /\ Nothing /\ mb' = mb
      /\ call' = [Idle EXCEPT !.phase = "deadlines", !.keys = Keys]
  BY DEF CheckDeadlines
<1>2. Good(mb') /\ QtsNeedsPrimary'
  BY <1>1, IdleGood DEF Inv, QtsNeedsPrimary
<1>3. call' \in Call /\ call'.phase = "deadlines"
  BY <1>1, IdleType DEF Call, Phases
<1>4. base' \in [Keys -> Nat] /\ delivered' \in [Counted -> Nat]
      /\ srv' \in [Keys -> Nat] /\ srvSeq' \in Nat
  BY <1>1, NothingType DEF Inv, TypeOK
<1> QED BY <1>2, <1>3, <1>4, IdleCallOK, CallStep

(* take_released_updates clears the flag and is to look at all held updates *)
LEMMA TakeReleasedUpdatesStep == Inv /\ TakeReleasedUpdates => Inv'
<1> SUFFICES ASSUME Inv, TakeReleasedUpdates
             PROVE  Inv'
  OBVIOUS
<1> DEFINE b == BeginLoop(<<>>, {}, mb.seq)
           n == [mb' EXCEPT !.held_release_ready = TRUE]
<1>1. /\ call.phase = "idle" /\ srv' = srv /\ srvSeq' = srvSeq /\ Nothing
      /\ mb.held_release_ready
      /\ mb' = [mb EXCEPT !.held_release_ready = FALSE, !.held_overflowed = FALSE]
      /\ call' = [b EXCEPT !.phase = "release", !.left = Len(mb.held_updates)]
  BY DEF TakeReleasedUpdates
<1>2. Good(mb) /\ mb \in Box
  BY <1>1, IdleGood
<1>3. /\ b \in Call /\ b.after = "socket" /\ b.todo = <<>> /\ <<>> \in Seq(Updates)
      /\ <<>> \in Seq(Events)
  <2>1. PICK z \in Seq(Updates) : z = <<>>
    BY EmptySeq
  <2>2. mb.seq \in Nat /\ {} \in SUBSET Keys /\ b = BeginLoop(z, {}, mb.seq)
    BY <1>2, <2>1 DEF Box
  <2> HIDE DEF b
  <2>3. b \in Call /\ b.after = "socket" /\ b.todo = z
    BY <2>2, BeginLoopType
  <2> QED BY <2>1, <2>3, EmptySeq
<1> HIDE DEF b
<1>4. Len(mb.held_updates) \in Nat
  BY <1>2, LenProperties DEF Box
<1>5. /\ call' \in Call /\ call'.phase = "release" /\ call'.after = "socket"
      /\ call'.todo = <<>> /\ call'.left = Len(mb.held_updates)
  BY <1>1, <1>3, <1>4 DEF Call, Phases
<1>6. mb' \in Box /\ mb'.entries = mb.entries /\ mb'.held_updates = mb.held_updates
  BY <1>1, <1>2 DEF Box
<1>7. n \in Box /\ SameCore(mb, n)
  BY <1>1, <1>2 DEF Box, SameCore, Known
<1> HIDE DEF n
<1>8. BoxOK'
  BY <1>2, <1>5, <1>7, SameCoreGood DEF BoxOK, n
<1>9. QtsNeedsPrimary'
  BY <1>6 DEF Inv, QtsNeedsPrimary, Known
<1>10. CallOK'
  BY <1>3, <1>4, <1>5, <1>6 DEF CallOK, SortingOK, LoopOK, SiftOK, ReleaseOK
<1>11. TypeOK'
  BY <1>1, <1>5, <1>6, NothingType DEF Inv, TypeOK
<1> QED BY <1>8, <1>9, <1>10, <1>11 DEF Inv

(* An ordering of a set of events is a sequence of them *)
LEMMA OrderingsProps ==
    ASSUME NEW S \in SUBSET Events, NEW o \in Orderings(S)
    PROVE  o \in Seq(Events) /\ \A i \in 1 .. Len(o) : o[i] \in S
<1>1. IsFiniteSet(S)
  BY EventsAssumption, FS_Subset
<1>2. Cardinality(S) \in Nat
  BY <1>1, FS_CardinalityType
<1>3. o \in [1 .. Cardinality(S) -> S]
  BY DEF Orderings
<1>4. o \in Seq(S)
  BY <1>2, <1>3
<1> QED BY <1>4, ElementOfSeq, LenProperties

(* recovery_failures stays a counter when it saturates *)
LEMMA FailuresNat ==
    ASSUME NEW e \in Entry
    PROVE  Min2(e.failures + 1, MaxFailures) \in Nat /\ e.pts \in Nat
<1>1. MaxFailures \in Nat
  BY BoundsNat
<1>2. e.failures + 1 \in Nat /\ e.pts \in Nat
  BY DEF Entry
<1> QED BY <1>1, <1>2 DEF Min2

(* Positions a difference starts from or ends at are positions *)
LEMMA PositionsNat ==
    ASSUME TypeOK, NEW k \in Keys
    PROVE  /\ PtsOf(k) \in Nat /\ srv[k] \in Nat /\ Start \in Nat
           /\ \A p \in Reachable(k, PtsOf(k)) : p \in Nat
<1>1. PtsOf(k) \in Nat /\ srv[k] \in Nat /\ Start \in Nat
  BY KnownEntry, EventsAssumption DEF TypeOK, PtsOf, Entry
<1>2. \A e \in Counted : e.pts \in Nat
  BY EventsAssumption DEF Counted
<1> QED BY <1>1, <1>2 DEF Reachable

(* An account difference moves pts and qts and starts the loop *)
LEMMA DifferenceStep ==
    ASSUME NEW pts \in Nat, NEW qts \in Nat, NEW others, NEW extra \in Seq(Updates),
           NEW final \in BOOLEAN, Inv, Difference(pts, qts, others, extra, final)
    PROVE  Inv'
<1> DEFINE gained == Between(Common, PtsOf(Common), pts)
                     \cup Between(Secondary, PtsOf(Secondary), qts)
           m1 == SetPts(mb, Common, pts)
           m2 == SetPts(m1, Secondary, qts)
           todo == others \o extra
           msgs == {e \in gained : e.msg}
           b == BeginLoop(todo, {Common, Secondary}, srvSeq)
<1>1. /\ call.phase = "idle" /\ srv' = srv /\ srvSeq' = srvSeq
      /\ others \in Orderings({e \in gained : ~e.msg})
      /\ mb' = [m2 EXCEPT !.seq = srvSeq]
      /\ call' = [b EXCEPT !.after = "account", !.final = final, !.msgs = msgs]
  BY DEF Difference, AccountDiffWanted
<1>2. Good(m1) /\ Known(m1, Common)
  BY <1>1, IdleGood, SetPtsGood, ChannelsAreKeys
<1> HIDE DEF m1
<1>3. Good(m2) /\ Known(m2, Common)
  <2>1. Good(m2) /\ m2.entries[Common] = m1.entries[Common]
    BY <1>2, SetPtsGood, ChannelsAreKeys
  <2> QED BY <1>2, <2>1 DEF Known
<1> HIDE DEF m2
<1>4. Good(mb') /\ mb'.entries = m2.entries
  BY <1>1, <1>3, SetSeqGood DEF Inv, TypeOK
<1>5. QtsNeedsPrimary'
  BY <1>3, <1>4 DEF QtsNeedsPrimary, Known
<1>6. gained \in SUBSET Events /\ {e \in gained : ~e.msg} \in SUBSET Events
      /\ msgs \in SUBSET Events
  BY DEF Between, Counted
<1> HIDE DEF gained, msgs
<1>7. others \in Seq(Updates)
  BY <1>1, <1>6, OrderingsProps, EventsAreUpdates
<1>8. todo \in Seq(Updates)
  BY <1>7, ConcatProperties
<1> HIDE DEF todo
<1>9. b \in Call /\ b.phase = "loop"
  <2>1. {Common, Secondary} \in SUBSET Keys /\ srvSeq \in Nat
    BY ChannelsAreKeys DEF Inv, TypeOK
  <2> QED BY <1>8, <2>1, BeginLoopType
<1> HIDE DEF b
<1>10. call' \in Call /\ call'.phase = "loop" /\ call'.after = "account"
  BY <1>1, <1>6, <1>9 DEF Call
<1>11. base' \in [Keys -> Nat] /\ delivered' \in [Counted -> Nat]
  <2>1. CASE Known(mb, Secondary)
    BY <2>1, NothingType DEF Difference, Inv
  <2>2. CASE ~Known(mb, Secondary)
    <3>1. Establish({Secondary}, [k \in {Secondary} |-> Start])
      BY <2>2 DEF Difference
    <3>2. TypeOK /\ {Secondary} \in SUBSET Keys
          /\ \A k \in {Secondary} : [j \in {Secondary} |-> Start][k] \in Nat
      BY EventsAssumption, ChannelsAreKeys DEF Inv
    <3> QED BY <3>1, <3>2, EstablishType
  <2> QED BY <2>1, <2>2
<1>12. srv' \in [Keys -> Nat] /\ srvSeq' \in Nat
  BY <1>1 DEF Inv, TypeOK
<1>13. CallOK'
  BY <1>10, PlainLoopOK
<1> QED BY <1>4, <1>5, <1>10, <1>11, <1>12, <1>13, CallStep

(* Answering the first ready channel, up to the loop over its updates *)
LEMMA ApplyChannelStep ==
    ASSUME NEW c \in Channels, NEW p \in Nat, NEW others \in Seq(Events), KeysAre(others, c),
           NEW msgs \in SUBSET Events, NEW final \in BOOLEAN, NEW timeout \in Nat,
           Inv, ApplyChannel(c, p, others, msgs, final, timeout),
           base' \in [Keys -> Nat], delivered' \in [Counted -> Nat]
    PROVE  Inv'
<1> DEFINE x == [mb EXCEPT !.exhausted_channels = @ \ {c}]
           e == mb.entries[c]
           cleared == [e EXCEPT !.gap = <<>>, !.gapDeadline = 0, !.deferred = FALSE,
                                !.deferrals = 0, !.failures = 0, !.notBefore = 0]
           m1 == SetEntry(x, c, cleared)
           m2 == IF final THEN TryEndGetDiff(m1, c) ELSE m1
           f == Min2(e.failures + 1, MaxFailures)
           b == BeginLoop(others, {c}, mb.seq)
<1>1. /\ call.phase = "idle" /\ srv' = srv /\ srvSeq' = srvSeq /\ IsChannelInDiff(mb, c)
      /\ mb' = SetPts(m2, c, p)
      /\ call' = [b EXCEPT !.after = "channel", !.chan = c, !.final = final,
                           !.timeout = timeout, !.msgs = msgs, !.at = p, !.failures = f]
  BY DEF ApplyChannel, ChannelReady
<1>2. /\ Good(mb) /\ mb \in Box /\ c \in Keys /\ Known(mb, c) /\ e \in Entry
      /\ c \in Ready(mb) /\ Getting(mb, c)
      /\ e.pending /\ ~e.deferred /\ e.gap = <<>>
  BY <1>1, IdleGood, ChannelReadyProps
<1>3. f \in Nat
  BY <1>2, FailuresNat
<1>4. Good(x) /\ x.entries = mb.entries
  <2>1. mb.exhausted_channels \ {c} \in SUBSET Channels
    BY <1>2 DEF Box
  <2> QED BY <1>2, <2>1, SetExhaustedGood
<1> HIDE DEF x
<1>5. cleared \in Entry /\ cleared.pending = e.pending /\ ~cleared.deferred
      /\ cleared.gap = <<>>
  <2>1. PICK z \in Seq(Events) : z = <<>>
    BY EmptySeq
  <2>2. cleared = [e EXCEPT !.gap = z, !.gapDeadline = 0, !.deferred = FALSE,
                            !.deferrals = 0, !.failures = 0, !.notBefore = 0]
    BY <2>1
  <2> HIDE DEF cleared, e
  <2> QED BY <1>2, <2>1, <2>2 DEF Entry
<1> HIDE DEF cleared, f
<1>6. Good(m1)
  <2>1. cleared.deferred = e.deferred /\ cleared.gap = e.gap
    BY <1>2, <1>5 DEF Entry
  <2>2. Known(x, c) /\ x.entries[c] = e
    BY <1>2, <1>4 DEF Known
  <2> QED BY <1>2, <1>4, <1>5, <2>1, <2>2, TouchEntryGood
<1>7. /\ m1.entries[c] = cleared /\ cleared # NoEntry
      /\ \A j \in Keys : j # c => m1.entries[j] = mb.entries[j]
  BY <1>2, <1>4, <1>5, SetEntryEntries, KnownEntry DEF Good
<1>8. Getting(m1, c) /\ c \in Ready(m1)
  BY <1>2, <1>5, <1>7 DEF Getting, Known, Ready
<1>9. \A j \in Keys : Known(m1, j) <=> Known(mb, j)
  BY <1>2, <1>7 DEF Known
<1> HIDE DEF m1, e
<1>10. /\ Good(m2) /\ (\A j \in Keys : Known(m2, j) <=> Known(mb, j))
       /\ final => ~Getting(m2, c) /\ m2.held_release_ready
       /\ ~final => c \in Ready(m2)
  BY <1>2, <1>6, <1>8, <1>9, TryEndGood
<1> HIDE DEF m2
<1>11. /\ Good(mb') /\ Known(mb', c)
       /\ final => ~Getting(mb', c) /\ mb'.held_release_ready
       /\ ~final => c \in Ready(mb')
       /\ \A j \in Keys : j # c => mb'.entries[j] = m2.entries[j]
  <2>1. /\ Good(mb') /\ Known(mb', c)
        /\ \A j \in Keys : j # c => mb'.entries[j] = m2.entries[j]
        /\ \A j \in Keys : Getting(mb', j) <=> Getting(m2, j)
        /\ Ready(mb') = Ready(m2) /\ mb'.held_release_ready = m2.held_release_ready
    <3> DEFINE n == SetPts(m2, c, p)
    <3>1. /\ Good(n) /\ Known(n, c)
          /\ \A j \in Keys : j # c => n.entries[j] = m2.entries[j]
          /\ \A j \in Keys : Getting(n, j) <=> Getting(m2, j)
          /\ Ready(n) = Ready(m2) /\ n.held_release_ready = m2.held_release_ready
      BY <1>2, <1>10, SetPtsGood
    <3> HIDE DEF n
    <3>2. mb' = n
      BY <1>1 DEF n
    <3> QED BY <3>1, <3>2
  <2> QED BY <1>2, <1>10, <2>1
<1>12. \A j \in Keys : Known(mb', j) <=> Known(mb, j)
  BY <1>2, <1>10, <1>11 DEF Known
<1>13. QtsNeedsPrimary'
  BY <1>12, SameKnown DEF Inv
<1>14. b \in Call /\ b.phase = "loop" /\ b.todo = others /\ b.force = {c} /\ b.built = <<>>
  <2>1. others \in Seq(Updates) /\ {c} \in SUBSET Keys /\ mb.seq \in Nat
    BY <1>2, EventsAreUpdates DEF Box
  <2> QED BY <2>1, BeginLoopType
<1> HIDE DEF b
<1>15. /\ call' \in Call /\ call'.phase = "loop" /\ call'.after = "channel"
       /\ call'.todo = others /\ call'.force = {c} /\ call'.built = <<>>
       /\ call'.chan = c /\ call'.final = final
  BY <1>1, <1>2, <1>3, <1>14 DEF Call
<1>16. CallOK'
  BY <1>11, <1>15 DEF CallOK, SortingOK, LoopOK, SiftOK, ReleaseOK, KeysAre
<1>17. srv' \in [Keys -> Nat] /\ srvSeq' \in Nat
  BY <1>1 DEF Inv, TypeOK
<1> QED BY <1>11, <1>13, <1>15, <1>16, <1>17, CallStep

(* A channel difference moves the pts and starts the loop, its recovery ended if final *)
LEMMA ChannelDifferenceStep ==
    ASSUME NEW c \in Channels, NEW p \in Nat, NEW others, NEW final \in BOOLEAN,
           NEW timeout \in Nat, Inv, ChannelDifference(c, p, others, final, timeout)
    PROVE  Inv'
<1> DEFINE gained == Between(c, PtsOf(c), p)
<1>1. /\ others \in Orderings({e \in gained : ~e.msg})
      /\ ApplyChannel(c, p, others, {e \in gained : e.msg}, final, timeout) /\ Nothing
  BY DEF ChannelDifference
<1>2. /\ {e \in gained : e.msg} \in SUBSET Events
      /\ {e \in gained : ~e.msg} \in SUBSET Events
      /\ \A e \in gained : e.key = c
  BY DEF Between, Counted
<1> HIDE DEF gained
<1>3. others \in Seq(Events) /\ KeysAre(others, c)
  BY <1>1, <1>2, OrderingsProps DEF KeysAre
<1>4. base' \in [Keys -> Nat] /\ delivered' \in [Counted -> Nat]
  BY <1>1, NothingType DEF Inv
<1> QED BY <1>1, <1>2, <1>3, <1>4, ApplyChannelStep

(* So does a too long channel difference *)
LEMMA ChannelDifferenceTooLongStep ==
    ASSUME NEW c \in Channels, NEW p \in Nat, NEW final \in BOOLEAN,
           NEW timeout \in Nat, Inv, ChannelDifferenceTooLong(c, p, final, timeout)
    PROVE  Inv'
<1>1. ApplyChannel(c, p, <<>>, {}, final, timeout) /\ Establish({c}, [k \in Keys |-> p])
  BY DEF ChannelDifferenceTooLong
<1>2. <<>> \in Seq(Events) /\ KeysAre(<<>>, c)
  BY EmptySeq DEF KeysAre
<1>3. TypeOK /\ {c} \in SUBSET Keys /\ \A k \in {c} : [j \in Keys |-> p][k] \in Nat
  BY ChannelsAreKeys DEF Inv
<1>4. base' \in [Keys -> Nat] /\ delivered' \in [Counted -> Nat]
  BY <1>1, <1>3, EstablishType
<1> QED BY <1>1, <1>2, <1>4, ApplyChannelStep

(* A temporary failure ends the recovery and is to sort out the held updates *)
LEMMA EndTemporarilyStep ==
    ASSUME NEW c \in Channels, Inv, EndTemporarily(c)
    PROVE  Inv'
<1> DEFINE m1 == ClearGap(mb, c)
           f == Min2(mb.entries[c].failures + 1, MaxFailures)
           at == mb.entries[c].pts
           l == Len(mb.held_updates)
<1>1. /\ call.phase = "idle" /\ srv' = srv /\ srvSeq' = srvSeq /\ IsChannelInDiff(mb, c)
      /\ Nothing
      /\ mb' = TryEndGetDiff(m1, c)
      /\ call' = [Idle EXCEPT !.phase = "extract", !.left = l, !.chan = c,
                              !.after = "temporary", !.at = at, !.failures = f]
  BY DEF EndTemporarily, ChannelReady, ClearGap
<1>2. Good(mb) /\ mb \in Box /\ c \in Keys /\ mb.entries[c] \in Entry /\ Known(mb, c)
  BY <1>1, IdleGood, ChannelReadyProps
<1>3. f \in Nat /\ at \in Nat /\ l \in Nat
  <2>1. l \in Nat
    BY <1>2, LenProperties DEF Box
  <2> QED BY <2>1, <1>2, FailuresNat
<1>4. Good(m1) /\ Getting(m1, c) /\ (\A j \in Keys : Known(m1, j) <=> Known(mb, j))
      /\ m1.held_updates = mb.held_updates
  BY <1>1, <1>2, ClearGapGood
<1> HIDE DEF m1
<1>5. /\ Good(mb') /\ (\A j \in Keys : Known(mb', j) <=> Known(mb, j))
      /\ ~Getting(mb', c) /\ mb'.held_release_ready
      /\ Len(mb'.held_updates) = l
  BY <1>1, <1>2, <1>4, TryEndGood
<1>6. QtsNeedsPrimary'
  BY <1>5, SameKnown DEF Inv
<1> HIDE DEF f, at, l
<1>7. Idle.todo = <<>> /\ Idle.built = <<>>
  BY DEF Idle
<1>8. /\ call' \in Call /\ call'.phase = "extract" /\ call'.left = l /\ call'.chan = c
      /\ call'.todo = <<>> /\ call'.built = <<>>
  BY <1>1, <1>2, <1>3, <1>7, IdleType DEF Call, Phases
<1>9. CallOK'
  <2>1. <<>> \in Seq(Events) /\ KeysAre(<<>>, c)
    BY EmptySeq DEF KeysAre
  <2> QED BY <1>2, <1>3, <1>5, <1>8, <2>1
          DEF CallOK, SortingOK, LoopOK, SiftOK, ReleaseOK, KeysAre
<1>10. /\ srv' \in [Keys -> Nat] /\ srvSeq' \in Nat
       /\ base' \in [Keys -> Nat] /\ delivered' \in [Counted -> Nat]
  BY <1>1, NothingType DEF Inv, TypeOK
<1> QED BY <1>5, <1>6, <1>8, <1>9, <1>10, CallStep

-----------------------------------------------------------------------------

(* What the loop has left after one update *)
LEMMA RestProps ==
    ASSUME call \in Call, NEW i \in DOMAIN call.todo
    PROVE  /\ Rest(i) \in Seq(Updates) /\ call.todo[i] \in Updates
           /\ call.todo \in Seq(Events) =>
                /\ Rest(i) \in Seq(Events)
                /\ call.todo[i] \in Events
                /\ \A c : KeysAre(call.todo, c) => call.todo[i].key = c /\ KeysAre(Rest(i), c)
<1> DEFINE s == call.todo
           r == RemoveIndex(s, i)
<1>1. s \in Seq(Updates) /\ Len(s) \in Nat /\ i \in 1 .. Len(s)
  BY LenProperties DEF Call
<1>2. r \in Seq(Updates) /\ s[i] \in Updates
  BY <1>1, RemoveIndexProps, ElementOfSeq
<1>3. /\ Len(r) = Len(s) - 1
      /\ \A j \in 1 .. Len(s) - 1 : r[j] = IF j < i THEN s[j] ELSE s[j + 1]
  BY <1>1, RemoveIndexProps
<1>4. ASSUME s \in Seq(Events)
      PROVE  r \in Seq(Events) /\ s[i] \in Events
  BY <1>1, <1>4, RemoveIndexProps, ElementOfSeq
<1> HIDE DEF s, r
<1>5. ASSUME NEW c, KeysAre(s, c)
      PROVE  s[i].key = c /\ KeysAre(r, c)
  <2>1. \A j \in 1 .. Len(s) : s[j].key = c
    BY <1>5 DEF KeysAre
  <2>2. ASSUME NEW j \in 1 .. Len(r)
        PROVE  r[j].key = c
    <3>1. CASE j < i
      BY <3>1, <1>1, <1>3, <2>1
    <3>2. CASE ~(j < i)
      BY <3>2, <1>1, <1>3, <2>1
    <3> QED BY <3>1, <3>2
  <2> QED BY <1>1, <2>1, <2>2 DEF KeysAre
<1> QED BY <1>2, <1>4, <1>5 DEF Rest, s, r

(* Every update in the loop of a channel difference belongs to that channel *)
LEMMA ChannelLoop ==
    ASSUME Inv, call.phase = "loop", NEW i \in DOMAIN call.todo
    PROVE  /\ call.after = "channel" =>
                call.todo[i].kind = "pts" /\ call.todo[i].key \in call.force
           /\ call.after # "channel" => call.after \in {"socket", "account"}
           /\ call.todo[i].kind = "pts" => call.todo[i] \in Events
           /\ call.todo[i].kind = "tooLong" =>
                call.todo[i].key \in Channels /\ call.todo[i].pts \in Nat
<1>1. call \in Call /\ LoopOK
  BY DEF Inv, TypeOK, CallOK
<1>2. call.todo[i] \in Updates /\ i \in 1 .. Len(call.todo)
  BY <1>1, RestProps, LenProperties DEF Call
<1>3. \A e \in Events : e.kind = "pts"
  BY EventsAssumption
<1>4. ASSUME call.after = "channel"
      PROVE  call.todo[i].kind = "pts" /\ call.todo[i].key \in call.force
  <2>1. call.todo \in Seq(Events) /\ KeysAre(call.todo, call.chan) /\ call.force = {call.chan}
    BY <1>1, <1>4 DEF LoopOK
  <2>2. call.todo[i] \in Events /\ call.todo[i].key = call.chan
    BY <1>1, <2>1, RestProps
  <2> QED BY <1>3, <2>1, <2>2
<1>5. /\ call.todo[i].kind = "pts" => call.todo[i] \in Events
      /\ call.todo[i].kind = "tooLong" =>
           call.todo[i].key \in Channels /\ call.todo[i].pts \in Nat
  <2> DEFINE T == [kind : {"tooLong"}, key : Channels, pts : Nat, count : {0}, msg : {FALSE}]
  <2>1. FreeUpdate.kind = "free"
    BY DEF FreeUpdate, Update
  <2>2. \A t \in T : t.kind = "tooLong" /\ t.key \in Channels /\ t.pts \in Nat
    OBVIOUS
  <2>3. call.todo[i] \in Events \/ call.todo[i] = FreeUpdate \/ call.todo[i] \in T
    BY <1>2 DEF Updates
  <2> HIDE DEF T
  <2> QED BY <1>3, <2>1, <2>2, <2>3
<1> QED BY <1>1, <1>4, <1>5 DEF LoopOK

(* The fields of a published update *)
LEMMA EventProps ==
    ASSUME NEW u \in Events
    PROVE  u.key \in Keys /\ u.pts \in Nat /\ u.count \in Nat /\ SortKey(u) \in Nat
BY EventsAssumption DEF SortKey

(* updateChannelTooLong starts the recovery of a known channel *)
LEMMA LoopTooLongStep ==
    ASSUME NEW i \in DOMAIN call.todo, Inv, LoopTooLong(i)
    PROVE  Inv'
<1> DEFINE u == call.todo[i]
           fresh == u.pts > 0 /\ ~Known(mb, u.key)
           m1 == IF fresh THEN SetEntry(mb, u.key, NewEntry(u.pts)) ELSE mb
<1>1. /\ call.phase = "loop" /\ srv' = srv /\ srvSeq' = srvSeq /\ u.kind = "tooLong"
      /\ mb' = TryBeginGetDiff(m1, u.key)
      /\ call' = [call EXCEPT !.todo = Rest(i)]
      /\ IF fresh THEN Establish({u.key}, [k \in {u.key} |-> u.pts]) ELSE Nothing
  BY DEF LoopTooLong, AtUpdate
<1>2. u.key \in Channels /\ u.key \in Keys /\ u.pts \in Nat /\ call.after \in {"socket", "account"}
  BY <1>1, ChannelLoop, ChannelsAreKeys
<1>3. Good(mb) /\ mb \in Box /\ call \in Call
  BY <1>1, IdleGood DEF Inv, TypeOK
<1>4. call' \in Call /\ call'.phase = "loop" /\ call'.after \in {"socket", "account"}
  BY <1>1, <1>2, <1>3, RestProps DEF Call
<1>5. base' \in [Keys -> Nat] /\ delivered' \in [Counted -> Nat]
  <2>1. CASE fresh
    <3>1. TypeOK /\ {u.key} \in SUBSET Keys
          /\ \A k \in {u.key} : [j \in {u.key} |-> u.pts][k] \in Nat
      BY <1>2 DEF Inv
    <3>2. Establish({u.key}, [k \in {u.key} |-> u.pts])
      BY <1>1, <2>1
    <3> HIDE DEF u
    <3> QED BY <3>1, <3>2, EstablishType
  <2>2. CASE ~fresh
    BY <1>1, <2>2, NothingType DEF Inv
  <2> QED BY <2>1, <2>2
<1> HIDE DEF u
<1>6. Good(m1) /\ \A j \in Keys : j # u.key => m1.entries[j] = mb.entries[j]
  BY <1>2, <1>3, SetNewGood, SetEntryEntries DEF Getting
<1> HIDE DEF m1, fresh
<1>7. Good(mb') /\ \A j \in Keys : Known(mb', j) <=> Known(m1, j)
  BY <1>1, <1>2, <1>6, TryBeginGood
<1>8. QtsNeedsPrimary'
  <2>1. \A j \in Keys : j # u.key => (Known(mb', j) <=> Known(mb, j))
    BY <1>6, <1>7 DEF Known
  <2> QED BY <1>2, <2>1, SameAccountKnown DEF Inv
<1>9. srv' \in [Keys -> Nat] /\ srvSeq' \in Nat
  BY <1>1 DEF Inv, TypeOK
<1> QED BY <1>4, <1>5, <1>7, <1>8, <1>9, PlainLoopOK, CallStep

(* An update without a position changes nothing *)
LEMMA LoopUnorderedStep ==
    ASSUME NEW i \in DOMAIN call.todo, Inv, LoopUnordered(i)
    PROVE  Inv'
<1>1. /\ call.phase = "loop" /\ srv' = srv /\ srvSeq' = srvSeq /\ mb' = mb /\ Nothing
      /\ call' = [call EXCEPT !.todo = Rest(i), !.got = TRUE]
      /\ call.todo[i].kind = "free" \/ call.todo[i].key \notin call.force
  BY DEF LoopUnordered, AtUpdate
<1>2. call.after \in {"socket", "account"}
  BY <1>1, ChannelLoop
<1>3. Good(mb) /\ mb \in Box /\ call \in Call
  BY <1>1, IdleGood DEF Inv, TypeOK
<1>4. call' \in Call /\ call'.phase = "loop" /\ call'.after \in {"socket", "account"}
  BY <1>1, <1>2, <1>3, RestProps DEF Call
<1>5. /\ srv' \in [Keys -> Nat] /\ srvSeq' \in Nat
      /\ base' \in [Keys -> Nat] /\ delivered' \in [Counted -> Nat]
  BY <1>1, NothingType DEF Inv, TypeOK
<1>6. QtsNeedsPrimary' /\ Good(mb')
  BY <1>1, <1>3 DEF Inv, QtsNeedsPrimary
<1> QED BY <1>4, <1>5, <1>6, PlainLoopOK, CallStep

(* An update of the difference itself resets a deadline *)
LEMMA LoopForcedStep ==
    ASSUME NEW i \in DOMAIN call.todo, Inv, LoopForced(i)
    PROVE  Inv'
<1> DEFINE u == call.todo[i]
<1>1. /\ call.phase = "loop" /\ srv' = srv /\ srvSeq' = srvSeq /\ u.kind = "pts"
      /\ mb' = ResetDeadline(mb, u.key, NoUpdatesTimeout)
      /\ call' = [call EXCEPT !.todo = Rest(i), !.got = TRUE] /\ Handed({u})
  BY DEF LoopForced, AtUpdate
<1>2. Good(mb) /\ mb \in Box /\ call \in Call /\ LoopOK
  BY <1>1, IdleGood DEF Inv, TypeOK, CallOK
<1>3. u.key \in Keys /\ NoUpdatesTimeout \in Nat
  BY <1>1, ChannelLoop, EventProps, BoundsNat
<1>4. mb' \in Box /\ SameCore(mb, mb')
  BY <1>1, <1>2, <1>3, ResetDeadlineProps
<1>5. Good(mb')
  BY <1>2, <1>4, SameCoreGood
<1>6. /\ call' \in Call /\ call'.phase = "loop" /\ call'.after = call.after
      /\ call'.todo = Rest(i) /\ call'.chan = call.chan /\ call'.force = call.force
      /\ call'.final = call.final /\ call'.built = call.built
  BY <1>1, <1>2, RestProps DEF Call
<1>7. /\ srv' \in [Keys -> Nat] /\ srvSeq' \in Nat
      /\ base' \in [Keys -> Nat] /\ delivered' \in [Counted -> Nat]
  BY <1>1, HandedType DEF Inv, TypeOK
<1>8. QtsNeedsPrimary'
  BY <1>4, SameKnown DEF Inv, SameCore
<1>9. CallOK'
  <2>1. CASE call.after = "channel"
    <3>1. /\ call.chan \in Channels /\ call.chan \in Keys /\ Known(mb, call.chan)
          /\ call.todo \in Seq(Events) /\ KeysAre(call.todo, call.chan)
          /\ call.force = {call.chan} /\ call.built = <<>>
          /\ call.final => ~Getting(mb, call.chan) /\ mb.held_release_ready
          /\ ~call.final => call.chan \in Ready(mb)
      BY <1>1, <1>2, <2>1, ChannelsAreKeys DEF LoopOK
    <3>2. Rest(i) \in Seq(Events) /\ KeysAre(Rest(i), call.chan)
      BY <1>2, <3>1, RestProps
    <3>3. /\ Known(mb', call.chan)
          /\ call.final => ~Getting(mb', call.chan) /\ mb'.held_release_ready
          /\ ~call.final => call.chan \in Ready(mb')
      BY <1>4, <3>1 DEF SameCore, Getting, Ready
    <3>4. LoopOK'
      BY <1>6, <2>1, <3>1, <3>2, <3>3 DEF LoopOK, KeysAre
    <3> QED BY <1>6, <3>4 DEF CallOK, SortingOK, SiftOK, ReleaseOK
  <2>2. CASE call.after # "channel"
    BY <1>1, <1>6, <2>2, ChannelLoop, PlainLoopOK
  <2> QED BY <2>1, <2>2
<1> QED BY <1>5, <1>6, <1>7, <1>8, <1>9, CallStep

(* Postponing updates of channels that are being recovered *)
LEMMA HoldGood ==
    ASSUME NEW m, Good(m), NEW us \in Seq(Events),
           \A i \in 1 .. Len(us) : us[i].key \in Channels /\ Getting(m, us[i].key)
    PROVE  LET n == HoldUpdates(m, us) IN Good(n) /\ n.entries = m.entries
<1> DEFINE n == HoldUpdates(m, us)
           h == m.held_updates
<1>1. m \in Box
  BY DEF Good
<1>2. /\ n \in Box /\ n.entries = m.entries
      /\ n.getting_diff_for = m.getting_diff_for
      /\ n.ready_diff_count = m.ready_diff_count
      /\ n.held_release_ready = m.held_release_ready
      /\ \A i \in 1 .. Len(n.held_updates) :
           \/ \E j \in 1 .. Len(h) : n.held_updates[i] = h[j]
           \/ \E j \in 1 .. Len(us) : n.held_updates[i] = us[j]
  BY <1>1, HoldUpdatesProps
<1> HIDE DEF n
<1>3. \A k : Getting(n, k) <=> Getting(m, k)
  BY <1>2 DEF Getting, Known
<1>4. Ready(n) = Ready(m)
  BY <1>2, <1>3 DEF Ready
<1>5. QueueIs(n, Ready(n))
  BY <1>2, <1>4 DEF Good, QueueIs
<1>6. Clean(n)
  BY <1>2 DEF Good, Clean, GapOf, Known
<1>7. HeldOK(n)
  BY <1>2, <1>3 DEF Good, HeldOK
<1> QED BY <1>2, <1>5, <1>6, <1>7 DEF Good, n

(* An update of a pending sequence is held: its channel is being recovered *)
LEMMA LoopHeldStep ==
    ASSUME NEW i \in DOMAIN call.todo, Inv, LoopHeld(i)
    PROVE  Inv'
<1> DEFINE u == call.todo[i]
<1>1. /\ call.phase = "loop" /\ srv' = srv /\ srvSeq' = srvSeq /\ u.kind = "pts"
      /\ u.key \notin call.force /\ Getting(mb, u.key) /\ Nothing
      /\ mb' = IF u.key \in Channels THEN HoldUpdates(mb, <<u>>) ELSE mb
      /\ call' = [call EXCEPT !.todo = Rest(i), !.gaps = TRUE]
  BY DEF LoopHeld, AtUpdate
<1>2. Good(mb) /\ mb \in Box /\ call \in Call /\ u \in Events
      /\ call.after \in {"socket", "account"}
  BY <1>1, IdleGood, ChannelLoop DEF Inv, TypeOK
<1>3. call' \in Call /\ call'.phase = "loop" /\ call'.after \in {"socket", "account"}
  BY <1>1, <1>2, RestProps DEF Call
<1> HIDE DEF u
<1>4. Good(mb') /\ mb'.entries = mb.entries
  <2>1. CASE u.key \in Channels
    <3>1. /\ <<u>> \in Seq(Events)
          /\ \A j \in 1 .. Len(<<u>>) : <<u>>[j].key \in Channels /\ Getting(mb, <<u>>[j].key)
      BY <1>1, <1>2, <2>1
    <3>2. PICK us : us = <<u>>
      OBVIOUS
    <3>3. mb' = HoldUpdates(mb, us)
      BY <1>1, <2>1, <3>2
    <3> QED BY <1>2, <3>1, <3>2, <3>3, HoldGood
  <2>2. CASE u.key \notin Channels
    BY <1>1, <1>2, <2>2
  <2> QED BY <2>1, <2>2
<1>5. /\ srv' \in [Keys -> Nat] /\ srvSeq' \in Nat
      /\ base' \in [Keys -> Nat] /\ delivered' \in [Counted -> Nat]
  BY <1>1, NothingType DEF Inv, TypeOK
<1>6. QtsNeedsPrimary'
  BY <1>4 DEF Inv, QtsNeedsPrimary, Known
<1> QED BY <1>3, <1>4, <1>5, <1>6, PlainLoopOK, CallStep

(* Giving a sequence that is not being recovered another entry *)
LEMMA QuietEntryGood ==
    ASSUME NEW m, Good(m), NEW k \in Keys, ~Getting(m, k),
           NEW e \in Entry, ~e.pending, ~e.deferred, KeysAre(e.gap, k)
    PROVE  LET n == SetEntry(m, k, e)
           IN  /\ Good(n) /\ Known(n, k) /\ ~Getting(n, k) /\ n.entries[k] = e
               /\ \A j \in Keys : j # k => n.entries[j] = m.entries[j]
<1>1. m \in Box /\ e # NoEntry
  BY KnownEntry DEF Good
<1>2. Good(SetEntry(m, k, e))
  BY SetEntryGood DEF KeysAre, Ready
<1> QED BY <1>1, <1>2, SetEntryEntries DEF Known, Getting

(* An entry without a pending recovery is not deferred either *)
LEMMA QuietEntry ==
    ASSUME NEW m, Good(m), NEW k \in Keys, Known(m, k), ~Getting(m, k)
    PROVE  LET e == m.entries[k]
           IN  e \in Entry /\ ~e.pending /\ ~e.deferred /\ KeysAre(e.gap, k)
BY KnownEntry DEF Good, Clean, GapOf, KeysAre, Getting

(* A gap that gains an update of its sequence holds only updates of the sequence *)
LEMMA AppendKeys ==
    ASSUME NEW s \in Seq(Events), NEW k, KeysAre(s, k), NEW u \in Events, u.key = k
    PROVE  Append(s, u) \in Seq(Events) /\ KeysAre(Append(s, u), k) /\ Append(s, u) # <<>>
<1>1. /\ Append(s, u) \in Seq(Events) /\ Len(Append(s, u)) = Len(s) + 1 /\ Len(s) \in Nat
      /\ \A i \in 1 .. Len(s) : Append(s, u)[i] = s[i]
      /\ Append(s, u)[Len(s) + 1] = u
  BY AppendProperties, LenProperties
<1> DEFINE t == Append(s, u)
<1> HIDE DEF t
<1>3. \A i \in 1 .. Len(t) : t[i].key = k
  BY <1>1 DEF KeysAre, t
<1>4. t # <<>>
  BY <1>1, EmptySeq DEF t
<1> QED BY <1>1, <1>3, <1>4 DEF KeysAre, t

(* The entry an update is compared with has no pending recovery *)
LEMMA EntryForProps ==
    ASSUME Good(mb), NEW u \in Events, ~Getting(mb, u.key)
    PROVE  LET e == EntryFor(u)
           IN  e \in Entry /\ ~e.pending /\ ~e.deferred /\ KeysAre(e.gap, u.key)
<1>1. u.key \in Keys /\ SortKey(u) \in Nat
  BY EventProps
<1>2. CASE Known(mb, u.key)
  <2>1. EntryFor(u) = mb.entries[u.key]
    BY <1>2 DEF EntryFor
  <2> QED BY <1>1, <1>2, <2>1, QuietEntry
<1>3. CASE ~Known(mb, u.key)
  <2>1. EntryFor(u) = NewEntry(SortKey(u))
    BY <1>3 DEF EntryFor
  <2>2. \A k : KeysAre(<<>>, k)
    BY EmptySeq DEF KeysAre
  <2> QED BY <1>1, <2>1, <2>2, NewEntryProps
<1> QED BY <1>2, <1>3

(* The comparison of pts and count keeps an entry's type and its quiet state *)
LEMMA AfterUpdateProps ==
    ASSUME NEW u \in Events, NEW e \in Entry, ~e.pending, ~e.deferred, KeysAre(e.gap, u.key)
    PROVE  LET n == AfterUpdate(e, u)
           IN  n \in Entry /\ ~n.pending /\ ~n.deferred /\ KeysAre(n.gap, u.key)
<1> DEFINE n == AfterUpdate(e, u)
           gd == IF e.gap = <<>> THEN GapTimeout ELSE e.gapDeadline
           g == IF Len(e.gap) < MaxHeld THEN Append(e.gap, u) ELSE e.gap
<1>1. NoUpdatesTimeout \in Nat /\ GapTimeout \in Nat
  BY BoundsNat
<1>2. u.pts \in Nat /\ e.gap \in Seq(Events) /\ e.gapDeadline \in Nat
  BY EventProps DEF Entry
<1>3. g \in Seq(Events) /\ KeysAre(g, u.key) /\ gd \in Nat
  BY <1>1, <1>2, AppendKeys
<1>4. CASE Applies(e, u)
  <2>1. n = [e EXCEPT !.pts = u.pts, !.deadline = NoUpdatesTimeout]
    <3>1. ~LeavesGap(e, u)
      <4>1. e.pts + u.count \in Int /\ u.pts \in Int
        BY EventProps DEF Entry
      <4> QED BY <1>4, <4>1 DEF Applies, LeavesGap
    <3> QED BY <1>4, <3>1 DEF AfterUpdate
  <2> HIDE DEF n
  <2>2. n \in Entry /\ n.pending = e.pending /\ n.deferred = e.deferred /\ n.gap = e.gap
    BY <1>1, <1>2, <2>1 DEF Entry
  <2> QED BY <2>2 DEF n
<1>5. CASE ~Applies(e, u) /\ LeavesGap(e, u)
  <2>1. n = [e EXCEPT !.gapDeadline = gd, !.gap = g]
    BY <1>5 DEF AfterUpdate
  <2> HIDE DEF n, gd, g
  <2>2. n \in Entry /\ n.pending = e.pending /\ n.deferred = e.deferred /\ n.gap = g
    BY <1>3, <2>1 DEF Entry
  <2> QED BY <1>3, <2>2 DEF n
<1>6. CASE ~Applies(e, u) /\ ~LeavesGap(e, u)
  <2>1. n = e
    BY <1>6 DEF AfterUpdate
  <2> QED BY <2>1
<1> QED BY <1>4, <1>5, <1>6

(* An update of a quiet sequence is applied, ignored, or extends the gap of that
   sequence, which has no pending recovery *)
LEMMA LoopOrderedStep ==
    ASSUME NEW i \in DOMAIN call.todo, Inv, LoopOrdered(i)
    PROVE  Inv'
<1> DEFINE u == call.todo[i]
           k == u.key
           applies == Applies(EntryFor(u), u)
           got == call.got \/ applies
           e1 == AfterUpdate(EntryFor(u), u)
           m1 == SetEntry(mb, k, e1)
           t == Min2(m1.next_deadline, NoUpdatesTimeout)
<1>1. /\ call.phase = "loop" /\ u.kind = "pts" /\ k \notin call.force /\ ~Getting(mb, k)
      /\ k = Secondary => Known(mb, Common)
      /\ Deliver(IF applies THEN {u} ELSE {})
      /\ base' = IF Known(mb, k) THEN base ELSE [base EXCEPT ![k] = SortKey(u)]
      /\ srv' = srv /\ srvSeq' = srvSeq
  BY DEF LoopOrdered, AtUpdate
<1>2. e1.gap = <<>> => /\ mb' = [m1 EXCEPT !.next_deadline = t]
                       /\ call' = [call EXCEPT !.todo = Rest(i), !.got = got]
  BY DEF LoopOrdered
<1>3. e1.gap # <<>> => /\ mb' = m1
                       /\ call' = [call EXCEPT !.todo = Rest(i), !.got = got,
                                    !.phase = "sort", !.built = <<>>, !.key = k]
  BY DEF LoopOrdered
<1>4. Good(mb) /\ mb \in Box /\ call \in Call /\ u \in Events
      /\ call.after \in {"socket", "account"} /\ Rest(i) \in Seq(Updates)
  BY <1>1, IdleGood, ChannelLoop, RestProps DEF Inv, TypeOK
<1>5. got \in BOOLEAN
  BY <1>4 DEF Applies, Call
<1> HIDE DEF u, got
<1>6. k \in Keys /\ SortKey(u) \in Nat /\ NoUpdatesTimeout \in Nat
  BY <1>4, EventProps, BoundsNat
<1>7. e1 \in Entry /\ ~e1.pending /\ ~e1.deferred /\ KeysAre(e1.gap, k)
  BY <1>1, <1>4, EntryForProps, AfterUpdateProps
<1> HIDE DEF k, e1
<1>8. /\ Good(m1) /\ Known(m1, k) /\ ~Getting(m1, k) /\ m1.entries[k] = e1
      /\ \A j \in Keys : j # k => m1.entries[j] = mb.entries[j]
  BY <1>1, <1>4, <1>6, <1>7, QuietEntryGood
<1> HIDE DEF m1
<1>9. t \in Nat
  BY <1>6, <1>8 DEF Good, Box, Min2
<1> HIDE DEF t
<1>10. Good(mb') /\ mb'.entries = m1.entries
  <2>1. CASE e1.gap = <<>>
    <3>1. mb' = [m1 EXCEPT !.next_deadline = t]
      BY <1>2, <2>1
    <3> QED BY <3>1, <1>8, <1>9, SetDeadlineGood
  <2>2. CASE e1.gap # <<>>
    BY <1>3, <1>8, <2>2
  <2> QED BY <2>1, <2>2
<1>11. QtsNeedsPrimary'
  BY <1>1, <1>6, <1>8, <1>10, ChannelsAreKeys DEF Inv, QtsNeedsPrimary, Known
<1>12. base' \in [Keys -> Nat] /\ delivered' \in [Counted -> Nat]
  <2>1. base' \in [Keys -> Nat]
    BY <1>1, <1>6 DEF Inv, TypeOK
  <2>2. delivered' \in [Counted -> Nat]
    BY <1>1 DEF Inv, TypeOK, Deliver
  <2> QED BY <2>1, <2>2
<1>13. srv' \in [Keys -> Nat] /\ srvSeq' \in Nat
  BY <1>1 DEF Inv, TypeOK
<1>14. call' \in Call /\ call'.phase # "release" /\ CallOK'
  <2>1. CASE e1.gap = <<>>
    <3>1. call' \in Call /\ call'.phase = "loop" /\ call'.after \in {"socket", "account"}
      BY <1>1, <1>2, <1>4, <1>5, <2>1 DEF Call
    <3> QED BY <3>1, PlainLoopOK
  <2>2. CASE e1.gap # <<>>
    <3>1. PICK z \in Seq(Events) : z = <<>>
      BY EmptySeq
    <3>2. call' = [call EXCEPT !.todo = Rest(i), !.got = got,
                               !.phase = "sort", !.built = z, !.key = k]
      BY <1>3, <2>2, <3>1
    <3>3. /\ call' \in Call /\ call'.phase = "sort" /\ call'.after \in {"socket", "account"}
          /\ call'.built = z /\ call'.key = k
      BY <1>4, <1>5, <1>6, <3>2 DEF Call, Phases
    <3>4. Known(mb', k) /\ ~Getting(mb', k) /\ mb'.entries[k].gap # <<>>
      BY <1>8, <1>10, <2>2 DEF Known, Getting
    <3>5. KeysAre(z, k)
      BY <3>1, EmptySeq DEF KeysAre
    <3>6. SortingOK'
      BY <3>3, <3>4, <3>5 DEF SortingOK, KeysAre
    <3> QED BY <3>3, <3>6 DEF CallOK, LoopOK, SiftOK, ReleaseOK
  <2> QED BY <2>1, <2>2
<1> QED BY <1>10, <1>11, <1>12, <1>13, <1>14, CallStep

(* What the steps on a possible gap start from *)
LEMMA SortingProps ==
    ASSUME Inv, call.phase \in {"sort", "drain"}
    PROVE  /\ Good(mb) /\ mb \in Box /\ call \in Call /\ call.key \in Keys
           /\ Known(mb, call.key) /\ ~Getting(mb, call.key)
           /\ mb.entries[call.key] \in Entry
           /\ ~mb.entries[call.key].pending /\ ~mb.entries[call.key].deferred
           /\ mb.entries[call.key].gap \in Seq(Events)
           /\ KeysAre(mb.entries[call.key].gap, call.key)
           /\ call.built \in Seq(Events) /\ KeysAre(call.built, call.key)
           /\ call.after \in {"socket", "account"}
           /\ call.phase = "sort" => mb.entries[call.key].gap # <<>> \/ call.built # <<>>
           /\ call.phase = "drain" => mb.entries[call.key].gap # <<>>
<1>1. Good(mb) /\ mb \in Box /\ call \in Call /\ call.key \in Keys /\ call.built \in Seq(Events)
  BY IdleGood DEF Inv, TypeOK, Call
<1>2. SortingOK
  BY DEF Inv, CallOK
<1>3. Known(mb, call.key) /\ ~Getting(mb, call.key)
  BY <1>2 DEF SortingOK
<1>4. mb.entries[call.key] \in Entry
      /\ ~mb.entries[call.key].pending /\ ~mb.entries[call.key].deferred
      /\ KeysAre(mb.entries[call.key].gap, call.key)
  BY <1>1, <1>3, QuietEntry
<1>5. mb.entries[call.key].gap \in Seq(Events)
  BY <1>4 DEF Entry
<1> QED BY <1>1, <1>2, <1>3, <1>4, <1>5 DEF SortingOK

(* Replacing the gap that is being sorted or drained keeps the struct consistent *)
LEMMA SetGapGood ==
    ASSUME Inv, call.phase \in {"sort", "drain"},
           NEW g \in Seq(Events), KeysAre(g, call.key)
    PROVE  LET n == [mb EXCEPT !.entries[call.key].gap = g]
           IN  /\ Good(n) /\ Known(n, call.key) /\ ~Getting(n, call.key)
               /\ n.entries[call.key].gap = g
               /\ \A j \in Keys : Known(n, j) <=> Known(mb, j)
<1> DEFINE n == [mb EXCEPT !.entries[call.key].gap = g]
           k == call.key
           e == [mb.entries[k] EXCEPT !.gap = g]
<1>1. /\ Good(mb) /\ mb \in Box /\ k \in Keys /\ Known(mb, k) /\ ~Getting(mb, k)
      /\ mb.entries[k] \in Entry /\ ~mb.entries[k].pending /\ ~mb.entries[k].deferred
  BY SortingProps
<1>2. n = SetEntry(mb, k, e)
  BY <1>1 DEF SetEntry, Box
<1>3. e \in Entry /\ ~e.pending /\ ~e.deferred /\ e.gap = g
  BY <1>1 DEF Entry
<1> HIDE DEF n, e
<1>4. /\ Good(n) /\ Known(n, k) /\ ~Getting(n, k) /\ n.entries[k] = e
      /\ \A j \in Keys : j # k => n.entries[j] = mb.entries[j]
  BY <1>1, <1>2, <1>3, QuietEntryGood
<1>5. \A j \in Keys : Known(n, j) <=> Known(mb, j)
  BY <1>1, <1>4 DEF Known
<1> QED BY <1>3, <1>4, <1>5 DEF n

(* A gap that loses an update holds only updates of its sequence *)
LEMMA RemoveKeys ==
    ASSUME NEW s \in Seq(Events), NEW k, KeysAre(s, k), NEW i \in DOMAIN s
    PROVE  RemoveIndex(s, i) \in Seq(Events) /\ KeysAre(RemoveIndex(s, i), k)
           /\ s[i] \in Events /\ s[i].key = k
<1> DEFINE r == RemoveIndex(s, i)
<1>1. Len(s) \in Nat /\ i \in 1 .. Len(s) /\ s[i] \in Events
  BY LenProperties, ElementOfSeq
<1>2. /\ r \in Seq(Events) /\ Len(r) = Len(s) - 1
      /\ \A j \in 1 .. Len(s) - 1 : r[j] = IF j < i THEN s[j] ELSE s[j + 1]
  BY RemoveIndexProps
<1> HIDE DEF r
<1>3. ASSUME NEW j \in 1 .. Len(r)
      PROVE  r[j].key = k
  <2>1. CASE j < i
    BY <2>1, <1>1, <1>2 DEF KeysAre
  <2>2. CASE ~(j < i)
    BY <2>2, <1>1, <1>2 DEF KeysAre
  <2> QED BY <2>1, <2>2
<1> QED BY <1>1, <1>2, <1>3 DEF KeysAre, r

(* One element of the gap's sort moves, its sequence still quiet *)
LEMMA SortNextStep ==
    ASSUME NEW i, Inv, SortNext(i)
    PROVE  Inv'
<1> DEFINE k == call.key
           g == mb.entries[k].gap
           r == RemoveIndex(g, i)
           b == Append(call.built, g[i])
<1>1. /\ call.phase = "sort" /\ i \in DOMAIN g /\ srv' = srv /\ srvSeq' = srvSeq /\ Nothing
      /\ mb' = [mb EXCEPT !.entries[k].gap = r]
      /\ call' = [call EXCEPT !.built = b]
  BY DEF SortNext
<1>2. /\ call \in Call /\ k \in Keys /\ g \in Seq(Events) /\ KeysAre(g, k)
      /\ call.built \in Seq(Events) /\ KeysAre(call.built, k)
      /\ call.after \in {"socket", "account"}
  BY <1>1, SortingProps
<1> HIDE DEF g
<1>3. r \in Seq(Events) /\ KeysAre(r, k) /\ g[i] \in Events /\ g[i].key = k
  BY <1>1, <1>2, RemoveKeys
<1>4. b \in Seq(Events) /\ KeysAre(b, k) /\ b # <<>>
  BY <1>2, <1>3, AppendKeys
<1> HIDE DEF r, b
<1>5. /\ Good(mb') /\ Known(mb', k) /\ ~Getting(mb', k)
      /\ \A j \in Keys : Known(mb', j) <=> Known(mb, j)
  BY <1>1, <1>3, SetGapGood
<1>6. /\ call' \in Call /\ call'.phase = "sort" /\ call'.key = k /\ call'.built = b
      /\ call'.after \in {"socket", "account"}
  BY <1>1, <1>2, <1>4 DEF Call
<1>7. SortingOK'
  BY <1>4, <1>5, <1>6 DEF SortingOK, KeysAre
<1>8. CallOK'
  BY <1>6, <1>7 DEF CallOK, LoopOK, SiftOK, ReleaseOK
<1>9. /\ srv' \in [Keys -> Nat] /\ srvSeq' \in Nat
      /\ base' \in [Keys -> Nat] /\ delivered' \in [Counted -> Nat]
  BY <1>1, NothingType DEF Inv, TypeOK
<1>10. QtsNeedsPrimary'
  BY <1>5, SameKnown DEF Inv
<1> QED BY <1>5, <1>6, <1>8, <1>9, <1>10, CallStep

(* The sorted gap is put back into its quiet entry *)
LEMMA EndSortStep == Inv /\ EndSort => Inv'
<1> SUFFICES ASSUME Inv, EndSort
             PROVE  Inv'
  OBVIOUS
<1> DEFINE k == call.key
           b == call.built
<1>1. /\ call.phase = "sort" /\ mb.entries[k].gap = <<>>
      /\ srv' = srv /\ srvSeq' = srvSeq /\ Nothing
      /\ mb' = [mb EXCEPT !.entries[k].gap = b]
      /\ call' = [call EXCEPT !.phase = "drain", !.built = <<>>]
  BY DEF EndSort
<1>2. /\ call \in Call /\ k \in Keys /\ b \in Seq(Events) /\ KeysAre(b, k) /\ b # <<>>
      /\ call.after \in {"socket", "account"}
  BY <1>1, SortingProps
<1> HIDE DEF b
<1>3. /\ Good(mb') /\ Known(mb', k) /\ ~Getting(mb', k) /\ mb'.entries[k].gap = b
      /\ \A j \in Keys : Known(mb', j) <=> Known(mb, j)
  BY <1>1, <1>2, SetGapGood
<1>4. PICK z \in Seq(Events) : z = <<>>
  BY EmptySeq
<1>5. call' = [call EXCEPT !.phase = "drain", !.built = z]
  BY <1>1, <1>4
<1>6. /\ call' \in Call /\ call'.phase = "drain" /\ call'.key = k /\ call'.built = z
      /\ call'.after \in {"socket", "account"}
  BY <1>2, <1>5 DEF Call, Phases
<1>7. KeysAre(z, k)
  BY <1>4, EmptySeq DEF KeysAre
<1>8. SortingOK'
  BY <1>2, <1>3, <1>6, <1>7 DEF SortingOK, KeysAre
<1>9. CallOK'
  BY <1>6, <1>8 DEF CallOK, LoopOK, SiftOK, ReleaseOK
<1>10. /\ srv' \in [Keys -> Nat] /\ srvSeq' \in Nat
       /\ base' \in [Keys -> Nat] /\ delivered' \in [Counted -> Nat]
  BY <1>1, NothingType DEF Inv, TypeOK
<1>11. QtsNeedsPrimary'
  BY <1>3, SameKnown DEF Inv
<1> QED BY <1>3, <1>6, <1>9, <1>10, <1>11, CallStep

(* Popping a gap update keeps an entry's type and its quiet state *)
LEMMA AfterPopProps ==
    ASSUME NEW e \in Entry, ~e.pending, ~e.deferred, NEW k, KeysAre(e.gap, k),
           e.gap # <<>>, NEW u, u = e.gap[Len(e.gap)]
    PROVE  LET n == AfterPop(e, u)
           IN  /\ n \in Entry /\ ~n.pending /\ ~n.deferred /\ KeysAre(n.gap, k)
               /\ u \in Events
<1> DEFINE s == e.gap
           l == Len(s)
           left == SubSeq(s, 1, l - 1)
           p == IF Applies(e, u) THEN u.pts ELSE e.pts
           gd == IF left = <<>> THEN 0 ELSE e.gapDeadline
           n == AfterPop(e, u)
<1>1. n = [e EXCEPT !.pts = p, !.gap = left, !.gapDeadline = gd]
  BY DEF AfterPop
<1>2. s \in Seq(Events) /\ e.pts \in Nat /\ e.gapDeadline \in Nat
  BY DEF Entry
<1>3. \A j \in 1 .. l : s[j].key = k
  BY DEF KeysAre
<1>4. s # <<>> /\ u = s[l]
  OBVIOUS
<1> HIDE DEF s
<1>5. l \in Nat /\ l # 0 /\ (\A j \in 1 .. l : s[j] \in Events)
  BY <1>2, <1>4, LenProperties, EmptySeq, ElementOfSeq
<1>6. u \in Events
  BY <1>4, <1>5
<1> HIDE DEF l
<1>7. left \in Seq(Events) /\ Len(left) = l - 1 /\ \A j \in 1 .. l - 1 : left[j] = s[j]
  <2>1. 1 \in 1 .. Len(s) + 1 /\ l - 1 \in 0 .. Len(s)
        /\ \A j \in 1 .. l - 1 : s[1 + j - 1] = s[j]
    BY <1>5 DEF l
  <2> QED BY <1>2, <1>5, <2>1, SubSeqProperties
<1> HIDE DEF left
<1>8. KeysAre(left, k)
  BY <1>3, <1>5, <1>7 DEF KeysAre
<1>9. p \in Nat /\ gd \in Nat
  BY <1>2, <1>6, EventProps
<1> HIDE DEF p, gd, n
<1>10. n \in Entry /\ n.pending = e.pending /\ n.deferred = e.deferred /\ n.gap = left
  BY <1>1, <1>7, <1>9 DEF Entry
<1> QED BY <1>6, <1>8, <1>10 DEF n

(* One iteration of the drain keeps the entry quiet *)
LEMMA LoopDrainStep == Inv /\ LoopDrain => Inv'
<1> SUFFICES ASSUME Inv, LoopDrain
             PROVE  Inv'
  OBVIOUS
<1> DEFINE k == call.key
           e == mb.entries[k]
           u == e.gap[Len(e.gap)]
           e1 == AfterPop(e, u)
           left == e1.gap
           m1 == SetEntry(mb, k, e1)
           t == IF left = <<>> THEN Min2(m1.next_deadline, NoUpdatesTimeout)
                               ELSE m1.next_deadline
           got == call.got \/ Applies(e, u)
           ph == IF left = <<>> THEN "loop" ELSE "drain"
<1>1. /\ call.phase = "drain" /\ srv' = srv /\ srvSeq' = srvSeq
      /\ Handed(IF Applies(e, u) THEN {u} ELSE {})
  BY DEF LoopDrain
<1>2. LeavesGap(e, u) => /\ mb' = [mb EXCEPT !.next_deadline = Min2(@, e.gapDeadline)]
                         /\ call' = [call EXCEPT !.phase = "loop", !.gaps = TRUE]
  BY DEF LoopDrain
<1>3. ~LeavesGap(e, u) => /\ mb' = [m1 EXCEPT !.next_deadline = t]
                          /\ call' = [call EXCEPT !.phase = ph, !.got = got]
  BY DEF LoopDrain
<1>4. /\ Good(mb) /\ mb \in Box /\ call \in Call /\ k \in Keys /\ Known(mb, k)
      /\ ~Getting(mb, k) /\ e \in Entry /\ ~e.pending /\ ~e.deferred
      /\ KeysAre(e.gap, k) /\ e.gap # <<>>
      /\ KeysAre(call.built, k) /\ call.after \in {"socket", "account"}
  BY <1>1, SortingProps
<1>5. got \in BOOLEAN /\ e.gapDeadline \in Nat /\ mb.next_deadline \in Nat
  <2>1. e.gapDeadline \in Nat /\ mb.next_deadline \in Nat
    BY <1>4 DEF Entry, Box
  <2>2. call.got \in BOOLEAN
    BY <1>4 DEF Call
  <2>3. got \in BOOLEAN
    BY <2>2 DEF Applies
  <2> QED BY <2>1, <2>3
<1>8. e1 \in Entry /\ ~e1.pending /\ ~e1.deferred /\ KeysAre(e1.gap, k)
  BY <1>4, AfterPopProps
<1> HIDE DEF e, u, e1, got
<1>9. /\ Good(m1) /\ Known(m1, k) /\ ~Getting(m1, k) /\ m1.entries[k] = e1
      /\ \A j \in Keys : j # k => m1.entries[j] = mb.entries[j]
  BY <1>4, <1>8, QuietEntryGood
<1> HIDE DEF m1
<1>10. t \in Nat
  <2>1. m1.next_deadline \in Nat /\ NoUpdatesTimeout \in Nat
    BY <1>9, BoundsNat DEF Good, Box
  <2> QED BY <2>1 DEF Min2
<1> HIDE DEF t
<1>11. /\ srv' \in [Keys -> Nat] /\ srvSeq' \in Nat
       /\ base' \in [Keys -> Nat] /\ delivered' \in [Counted -> Nat]
  BY <1>1, HandedType DEF Inv, TypeOK
<1>12. CASE LeavesGap(e, u)
  <2>1. Min2(mb.next_deadline, e.gapDeadline) \in Nat
    BY <1>5 DEF Min2
  <2>2. Good(mb') /\ mb'.entries = mb.entries
    <3> DEFINE d == Min2(mb.next_deadline, e.gapDeadline)
    <3>1. mb' = [mb EXCEPT !.next_deadline = d]
      BY <1>2, <1>12
    <3> HIDE DEF d
    <3> QED BY <1>4, <2>1, <3>1, SetDeadlineGood DEF d
  <2>3. call' \in Call /\ call'.phase = "loop" /\ call'.after \in {"socket", "account"}
    BY <1>2, <1>4, <1>12 DEF Call, Phases
  <2>4. QtsNeedsPrimary'
    BY <2>2 DEF Inv, QtsNeedsPrimary, Known
  <2> QED BY <1>11, <2>2, <2>3, <2>4, PlainLoopOK, CallStep
<1>13. CASE ~LeavesGap(e, u)
  <2>1. Good(mb') /\ mb'.entries = m1.entries
    <3>1. mb' = [m1 EXCEPT !.next_deadline = t]
      BY <1>3, <1>13
    <3> QED BY <1>9, <1>10, <3>1, SetDeadlineGood
  <2>2. QtsNeedsPrimary'
    <3>1. \A j \in Keys : Known(mb', j) <=> Known(mb, j)
      BY <1>4, <1>9, <2>1 DEF Known
    <3> QED BY <3>1, SameKnown DEF Inv
  <2>3. /\ call' \in Call /\ call'.phase = ph /\ call'.after = call.after
        /\ call'.key = k /\ call'.built = call.built
    <3>1. ph \in Phases
      BY DEF Phases
    <3>2. call' = [call EXCEPT !.phase = ph, !.got = got]
      BY <1>3, <1>13
    <3> HIDE DEF ph
    <3> QED BY <1>4, <1>5, <3>1, <3>2 DEF Call
  <2>4. CASE left = <<>>
    BY <1>4, <1>11, <2>1, <2>2, <2>3, <2>4, PlainLoopOK, CallStep
  <2>5. CASE left # <<>>
    <3>1. Known(mb', k) /\ ~Getting(mb', k) /\ mb'.entries[k].gap # <<>>
      BY <1>8, <1>9, <2>1, <2>5 DEF Known, Getting
    <3>2. call'.phase = "drain"
      BY <2>3, <2>5
    <3>3. SortingOK'
      BY <1>4, <2>3, <3>1, <3>2 DEF SortingOK, KeysAre
    <3>4. CallOK'
      BY <3>2, <3>3 DEF CallOK, LoopOK, SiftOK, ReleaseOK
    <3> QED BY <1>11, <2>1, <2>2, <2>3, <3>2, <3>4, CallStep
  <2> QED BY <2>4, <2>5
<1> QED BY <1>12, <1>13

(* The end of the loop changes at most the seq *)
LEMMA AppliedGood ==
    ASSUME Inv, call.phase = "loop"
    PROVE  /\ Good(Applied) /\ Applied.entries = mb.entries
           /\ Applied.held_updates = mb.held_updates
           /\ Applied.held_release_ready = mb.held_release_ready
<1>1. Good(mb) /\ call.seq \in Nat
  BY IdleGood DEF Inv, TypeOK, Call
<1> QED BY <1>1, SetSeqGood DEF Applied

(* The end of process_updates changes at most the seq *)
LEMMA EndSocketStep == Inv /\ EndSocket => Inv'
<1> SUFFICES ASSUME Inv, EndSocket
             PROVE  Inv'
  OBVIOUS
<1>1. call.phase = "loop" /\ mb' = Applied /\ call' = Idle /\ srv' = srv /\ srvSeq' = srvSeq
      /\ Nothing
  BY DEF EndSocket, LoopEnds
<1>2. Good(mb') /\ QtsNeedsPrimary'
  BY <1>1, AppliedGood DEF Inv, QtsNeedsPrimary, Known
<1>3. /\ srv' \in [Keys -> Nat] /\ srvSeq' \in Nat
      /\ base' \in [Keys -> Nat] /\ delivered' \in [Counted -> Nat]
  BY <1>1, NothingType DEF Inv, TypeOK
<1> QED BY <1>1, <1>2, <1>3, IdleType, IdleCallOK, CallStep

(* The end of a final account difference ends both account recoveries *)
LEMMA EndAccountStep == Inv /\ EndAccount => Inv'
<1> SUFFICES ASSUME Inv, EndAccount
             PROVE  Inv'
  OBVIOUS
<1> DEFINE n == TryEndGetDiff(TryEndGetDiff(Applied, Common), Secondary)
<1>1. /\ call.phase = "loop" /\ call' = Idle /\ srv' = srv /\ srvSeq' = srvSeq
      /\ mb' = n \/ mb' = Applied
      /\ Handed(call.msgs)
  BY DEF EndAccount, LoopEnds
<1>2. Good(Applied) /\ Applied.entries = mb.entries
  BY <1>1, AppliedGood
<1>3. Good(n) /\ \A j \in Keys : Known(n, j) <=> Known(Applied, j)
  BY <1>2, EndAccountGood
<1> HIDE DEF n
<1>4. Good(mb') /\ \A j \in Keys : Known(mb', j) <=> Known(mb, j)
  BY <1>1, <1>2, <1>3 DEF Known
<1>5. QtsNeedsPrimary'
  BY <1>4, SameKnown DEF Inv
<1>6. /\ srv' \in [Keys -> Nat] /\ srvSeq' \in Nat
      /\ base' \in [Keys -> Nat] /\ delivered' \in [Counted -> Nat]
  BY <1>1, HandedType DEF Inv, TypeOK
<1> QED BY <1>1, <1>4, <1>5, <1>6, IdleType, IdleCallOK, CallStep

(* Moving a ready recovery to the end of the queue *)
LEMMA RotateGood ==
    ASSUME NEW m, Good(m), NEW k \in Keys, k \in Ready(m)
    PROVE  Good(RotateToBack(m, k)) /\ RotateToBack(m, k).entries = m.entries
<1> DEFINE d == Dequeue(m, k)
           n == Enqueue(d, k)
<1>1. m \in Box /\ QueueIs(m, Ready(m))
  BY DEF Good
<1>2. d \in Box /\ QueueIs(d, Ready(m) \ {k})
  BY <1>1, DequeueProps
<1>3. d.entries = m.entries /\ d.held_updates = m.held_updates
      /\ d.held_release_ready = m.held_release_ready
  BY <1>1 DEF Dequeue, Box
<1>4. RotateToBack(m, k) = n
  BY DEF RotateToBack, Enqueue
<1> HIDE DEF d
<1>5. n.entries = m.entries /\ n.held_updates = m.held_updates
      /\ n.held_release_ready = m.held_release_ready
  BY <1>2, <1>3 DEF Enqueue, Box
<1>6. n \in Box /\ QueueIs(n, (Ready(m) \ {k}) \cup {k})
  BY <1>2, EnqueueProps
<1> HIDE DEF n
<1>7. (Ready(m) \ {k}) \cup {k} = Ready(m)
  OBVIOUS
<1>8. \A j : (Getting(n, j) <=> Getting(m, j))
  BY <1>5 DEF Getting, Known
<1>9. Ready(n) = Ready(m)
  BY <1>5, <1>8 DEF Ready
<1>10. Clean(n)
  BY <1>5 DEF Good, Clean, GapOf, Known
<1>11. HeldOK(n)
  BY <1>5, <1>8 DEF Good, HeldOK
<1> QED BY <1>4, <1>5, <1>6, <1>7, <1>9, <1>10, <1>11 DEF Good

(* The end of a channel difference rotates the queue or is to sort out the held updates *)
LEMMA EndChannelStep == Inv /\ EndChannel => Inv'
<1> SUFFICES ASSUME Inv, EndChannel
             PROVE  Inv'
  OBVIOUS
<1> DEFINE c == call.chan
           m1 == ResetDeadline(Applied, c, call.timeout)
           l == Len(mb.held_updates)
<1>1. /\ call.phase = "loop" /\ call.todo = <<>> /\ call.after = "channel"
      /\ srv' = srv /\ srvSeq' = srvSeq /\ Handed(call.msgs)
      /\ mb' = IF call.final THEN m1 ELSE RotateToBack(m1, c)
      /\ call' = IF call.final THEN [call EXCEPT !.phase = "extract", !.left = l] ELSE Idle
  BY DEF EndChannel, LoopEnds
<1>2. /\ Good(Applied) /\ Applied.entries = mb.entries
      /\ Applied.held_updates = mb.held_updates
      /\ Applied.held_release_ready = mb.held_release_ready
  BY <1>1, AppliedGood
<1>3. call \in Call /\ call.timeout \in Nat /\ LoopOK
  BY DEF Inv, TypeOK, Call, CallOK
<1>4. /\ c \in Channels /\ c \in Keys /\ Known(mb, c) /\ call.built = <<>>
      /\ call.todo \in Seq(Events) /\ KeysAre(call.todo, c)
      /\ call.final => ~Getting(mb, c) /\ mb.held_release_ready
      /\ ~call.final => c \in Ready(mb)
  BY <1>1, <1>3, ChannelsAreKeys DEF LoopOK
<1>5. m1 \in Box /\ SameCore(Applied, m1)
  BY <1>2, <1>3, <1>4, ResetDeadlineProps DEF Good
<1>6. Good(m1)
  BY <1>2, <1>5, SameCoreGood
<1> HIDE DEF m1
<1>7. /\ \A j \in Keys : Known(m1, j) <=> Known(mb, j)
      /\ call.final => ~Getting(m1, c) /\ m1.held_release_ready
      /\ ~call.final => c \in Ready(m1)
      /\ m1.held_updates = mb.held_updates
  BY <1>2, <1>4, <1>5 DEF SameCore, Known, Getting, Ready
<1>8. /\ srv' \in [Keys -> Nat] /\ srvSeq' \in Nat
      /\ base' \in [Keys -> Nat] /\ delivered' \in [Counted -> Nat]
  BY <1>1, HandedType DEF Inv, TypeOK
<1>9. CASE call.final
  <2>1. mb' = m1 /\ call' = [call EXCEPT !.phase = "extract", !.left = l]
    BY <1>1, <1>9
  <2>2. l \in Nat
    BY IdleGood, <1>1, LenProperties DEF Box
  <2>3. /\ call' \in Call /\ call'.phase = "extract" /\ call'.left = l /\ call'.chan = c
        /\ call'.todo = call.todo /\ call'.built = <<>>
    BY <1>3, <1>4, <2>1, <2>2 DEF Call, Phases
  <2>4. KeysAre(<<>>, c)
    BY EmptySeq DEF KeysAre
  <2>5. SiftOK'
    BY <1>4, <1>7, <1>9, <2>1, <2>2, <2>3, <2>4 DEF SiftOK, KeysAre
  <2>6. CallOK'
    BY <2>3, <2>5 DEF CallOK, SortingOK, LoopOK, ReleaseOK
  <2>7. QtsNeedsPrimary'
    BY <1>7, <2>1, SameKnown DEF Inv
  <2> QED BY <1>6, <1>8, <2>1, <2>3, <2>6, <2>7, CallStep
<1>10. CASE ~call.final
  <2>1. mb' = RotateToBack(m1, c) /\ call' = Idle
    BY <1>1, <1>10
  <2>2. Good(mb') /\ mb'.entries = m1.entries
    BY <1>4, <1>6, <1>7, <1>10, <2>1, RotateGood
  <2>3. QtsNeedsPrimary'
    BY <1>7, <2>2, SameKnown DEF Inv, Known
  <2> QED BY <1>8, <2>1, <2>2, <2>3, IdleType, IdleCallOK, CallStep
<1> QED BY <1>9, <1>10

(* Replacing the held updates while they are about to be released *)
LEMMA SetHeldGood ==
    ASSUME NEW m, Good(m), m.held_release_ready, NEW h \in Seq(Events),
           \A i \in 1 .. Len(h) : h[i].key \in Channels
    PROVE  LET n == [m EXCEPT !.held_updates = h]
           IN  /\ Good(n) /\ n.entries = m.entries
               /\ n.held_release_ready /\ n.held_updates = h
<1> DEFINE n == [m EXCEPT !.held_updates = h]
<1>1. m \in Box
  BY DEF Good
<1>2. /\ n \in Box /\ n.entries = m.entries /\ n.held_release_ready /\ n.held_updates = h
      /\ n.getting_diff_for = m.getting_diff_for /\ n.ready_diff_count = m.ready_diff_count
  BY <1>1 DEF Box
<1> HIDE DEF n
<1>3. \A k : Getting(n, k) <=> Getting(m, k)
  BY <1>2 DEF Getting, Known
<1>4. Ready(n) = Ready(m)
  BY <1>2, <1>3 DEF Ready
<1>5. QueueIs(n, Ready(n))
  BY <1>2, <1>4 DEF Good, QueueIs
<1>6. Clean(n)
  BY <1>2 DEF Good, Clean, GapOf, Known
<1>7. HeldOK(n)
  BY <1>2 DEF HeldOK
<1> QED BY <1>2, <1>5, <1>6, <1>7 DEF Good, n

(* Moving the first element of a sequence to its end, or taking it away *)
LEMMA TurnProps ==
    ASSUME NEW s \in Seq(Events), Len(s) > 0
    PROVE  /\ Head(s) = s[1] /\ s[1] \in Events /\ Len(s) \in Nat
           /\ Tail(s) \in Seq(Events) /\ Len(Tail(s)) = Len(s) - 1
           /\ \A i \in 1 .. Len(s) - 1 : Tail(s)[i] = s[i + 1]
           /\ Append(Tail(s), Head(s)) \in Seq(Events)
           /\ Len(Append(Tail(s), Head(s))) = Len(s)
           /\ \A i \in 1 .. Len(s) - 1 : Append(Tail(s), Head(s))[i] = s[i + 1]
           /\ Append(Tail(s), Head(s))[Len(s)] = s[1]
<1>1. s # <<>> /\ Len(s) \in Nat
  BY EmptySeq, LenProperties
<1>2. Head(s) = s[1] /\ s[1] \in Events
  BY <1>1, ElementOfSeq
<1>3. /\ Tail(s) \in Seq(Events) /\ Len(Tail(s)) = Len(s) - 1
      /\ \A i \in 1 .. Len(s) - 1 : Tail(s)[i] = s[i + 1]
  BY <1>1, HeadTailProperties
<1> DEFINE t == Tail(s)
           u == Head(s)
<1> HIDE DEF t, u
<1>4. /\ Append(t, u) \in Seq(Events) /\ Len(Append(t, u)) = Len(t) + 1
      /\ \A i \in 1 .. Len(t) : Append(t, u)[i] = t[i]
      /\ Append(t, u)[Len(t) + 1] = u
  BY <1>2, <1>3, AppendProperties DEF t, u
<1> QED BY <1>1, <1>2, <1>3, <1>4 DEF t, u

(* A held update is kept only while its channel is being recovered *)
LEMMA ReleaseNextStep == Inv /\ ReleaseNext => Inv'
<1> SUFFICES ASSUME Inv, ReleaseNext
             PROVE  Inv'
  OBVIOUS
<1> DEFINE s == mb.held_updates
           u == Head(s)
           keep == Getting(mb, u.key)
           covered == Known(mb, u.key) /\ mb.entries[u.key].pts + u.count > u.pts
           h == IF keep THEN Append(Tail(s), u) ELSE Tail(s)
           td == IF keep \/ covered THEN call.todo ELSE Append(call.todo, u)
           ready(m) == [m EXCEPT !.held_release_ready = TRUE]
<1>1. /\ call.phase = "release" /\ call.left > 0
      /\ srv' = srv /\ srvSeq' = srvSeq /\ Nothing
      /\ mb' = [mb EXCEPT !.held_updates = h]
      /\ call' = [call EXCEPT !.left = @ - 1, !.todo = td]
  BY DEF ReleaseNext
<1>2. /\ mb \in Box /\ call \in Call /\ call.left \in Nat /\ ReleaseOK /\ Good(ready(mb))
      /\ s \in Seq(Events)
  BY <1>1 DEF Inv, TypeOK, Call, CallOK, BoxOK, Box
<1>3. /\ call.after = "socket" /\ call.todo \in Seq(Events) /\ call.left <= Len(s)
      /\ \A i \in 1 .. Len(s) : Getting(mb, s[i].key) \/ i <= call.left
  BY <1>1, <1>2 DEF ReleaseOK
<1>4. \A i \in 1 .. Len(s) : s[i].key \in Channels
  <2>1. ready(mb).held_updates = s
    BY <1>2 DEF Box
  <2> HIDE DEF s, ready
  <2> QED BY <1>2, <2>1 DEF Good, HeldOK
<1>5. Len(s) \in Nat /\ Len(s) > 0
  BY <1>1, <1>2, <1>3, LenProperties
<1> HIDE DEF s
<1>6. /\ u = s[1] /\ u \in Events
      /\ Tail(s) \in Seq(Events) /\ Len(Tail(s)) = Len(s) - 1
      /\ \A i \in 1 .. Len(s) - 1 : Tail(s)[i] = s[i + 1]
      /\ Append(Tail(s), u) \in Seq(Events) /\ Len(Append(Tail(s), u)) = Len(s)
      /\ \A i \in 1 .. Len(s) - 1 : Append(Tail(s), u)[i] = s[i + 1]
      /\ Append(Tail(s), u)[Len(s)] = s[1]
  BY <1>2, <1>5, TurnProps
<1>7. td \in Seq(Events)
  BY <1>3, <1>6, AppendProperties
<1> HIDE DEF u, covered, td
<1>8. /\ h \in Seq(Events)
      /\ \A i \in 1 .. Len(h) : h[i].key \in Channels
      /\ \A i \in 1 .. Len(h) : Getting(mb, h[i].key) \/ i <= call.left - 1
      /\ call.left - 1 <= Len(h)
  <2>1. CASE keep
    <3>1. h = Append(Tail(s), u)
      BY <2>1
    <3> HIDE DEF h
    <3>2. /\ h \in Seq(Events) /\ Len(h) = Len(s) /\ h[Len(s)] = s[1]
          /\ \A i \in 1 .. Len(s) - 1 : h[i] = s[i + 1]
      BY <1>6, <3>1
    <3>3. Getting(mb, s[1].key)
      BY <1>6, <2>1
    <3> HIDE DEF keep
    <3>4. ASSUME NEW i \in 1 .. Len(h)
          PROVE  h[i].key \in Channels /\ (Getting(mb, h[i].key) \/ i <= call.left - 1)
      <4>1. CASE i = Len(s)
        BY <1>4, <1>5, <3>2, <3>3, <4>1
      <4>2. CASE i < Len(s)
        <5>1. i + 1 \in 1 .. Len(s) /\ h[i] = s[i + 1]
          BY <1>5, <3>2, <4>2
        <5>2. Getting(mb, s[i + 1].key) \/ i + 1 <= call.left
          BY <1>3, <5>1
        <5> QED BY <1>2, <1>4, <5>1, <5>2
      <4> QED BY <1>5, <3>2, <4>1, <4>2
    <3> QED BY <1>2, <1>3, <1>5, <3>2, <3>4
  <2>2. CASE ~keep
    <3>1. h = Tail(s)
      BY <2>2
    <3> HIDE DEF h
    <3>2. h \in Seq(Events) /\ Len(h) = Len(s) - 1 /\ \A i \in 1 .. Len(s) - 1 : h[i] = s[i + 1]
      BY <1>6, <3>1
    <3> HIDE DEF keep
    <3>3. ASSUME NEW i \in 1 .. Len(h)
          PROVE  h[i].key \in Channels /\ (Getting(mb, h[i].key) \/ i <= call.left - 1)
      <4>1. i + 1 \in 1 .. Len(s) /\ h[i] = s[i + 1]
        BY <1>5, <3>2
      <4>2. Getting(mb, s[i + 1].key) \/ i + 1 <= call.left
        BY <1>3, <4>1
      <4> QED BY <1>2, <1>4, <4>1, <4>2
    <3> QED BY <1>2, <1>3, <1>5, <3>2, <3>3
  <2> QED BY <2>1, <2>2
<1> HIDE DEF h, keep
<1>9. mb' \in Box /\ mb'.entries = mb.entries /\ mb'.held_updates = h
  BY <1>1, <1>2, <1>8 DEF Box
<1>10. ready(mb') = [ready(mb) EXCEPT !.held_updates = h] /\ ready(mb).held_release_ready
  BY <1>1, <1>2 DEF Box
<1>11. Good(ready(mb'))
  <2> HIDE DEF ready
  <2> QED BY <1>2, <1>8, <1>10, SetHeldGood
<1>12. /\ call' \in Call /\ call'.phase = "release" /\ call'.after = "socket"
       /\ call'.left = call.left - 1 /\ call'.todo = td
  <2>1. td \in Seq(Updates) /\ call.left - 1 \in Nat
    BY <1>1, <1>2, <1>7, EventsAreUpdates
  <2> QED BY <1>1, <1>2, <1>3, <2>1 DEF Call
<1>13. ReleaseOK'
  BY <1>7, <1>8, <1>9, <1>12 DEF ReleaseOK, Getting, Known
<1>14. CallOK' /\ BoxOK'
  BY <1>11, <1>12, <1>13 DEF CallOK, SortingOK, LoopOK, SiftOK, BoxOK
<1>15. QtsNeedsPrimary'
  BY <1>9 DEF Inv, QtsNeedsPrimary, Known
<1>16. TypeOK'
  BY <1>1, <1>9, <1>12, NothingType DEF Inv, TypeOK
<1> QED BY <1>14, <1>15, <1>16 DEF Inv

(* When take_released_updates has looked at every held update, none is stranded *)
LEMMA EndReleaseStep == Inv /\ EndRelease => Inv'
<1> SUFFICES ASSUME Inv, EndRelease
             PROVE  Inv'
  OBVIOUS
<1> DEFINE n == [mb EXCEPT !.held_release_ready = TRUE]
<1>1. /\ call.phase = "release" /\ call.left = 0 /\ mb' = mb
      /\ srv' = srv /\ srvSeq' = srvSeq /\ Nothing
      /\ call' = Idle \/ call' = [call EXCEPT !.phase = "loop"]
  BY DEF EndRelease
<1>2. /\ mb \in Box /\ call \in Call /\ Good(n) /\ ReleaseOK
      /\ mb.held_updates \in Seq(Events)
  BY <1>1 DEF Inv, TypeOK, CallOK, BoxOK, Box
<1>3. /\ n.entries = mb.entries /\ n.held_updates = mb.held_updates
      /\ n.getting_diff_for = mb.getting_diff_for
      /\ n.ready_diff_count = mb.ready_diff_count
  BY <1>2 DEF Box
<1> HIDE DEF n
<1>4. \A i \in 1 .. Len(mb.held_updates) : Getting(mb, mb.held_updates[i].key)
  BY <1>1, <1>2 DEF ReleaseOK
<1>5. Ready(mb) = Ready(n)
  BY <1>3 DEF Ready, Getting, Known
<1>6. Good(mb)
  <2>1. QueueIs(mb, Ready(mb))
    BY <1>2, <1>3, <1>5 DEF Good, QueueIs
  <2>2. Clean(mb)
    BY <1>2, <1>3 DEF Good, Clean, GapOf, Known
  <2>3. HeldOK(mb)
    BY <1>2, <1>3, <1>4 DEF Good, HeldOK
  <2> QED BY <1>2, <2>1, <2>2, <2>3 DEF Good
<1>7. call' \in Call /\ call'.phase # "release" /\ CallOK'
  <2>1. CASE call' = Idle
    BY <2>1, IdleType, IdleCallOK
  <2>2. CASE call' = [call EXCEPT !.phase = "loop"]
    <3>1. call.after = "socket"
      BY <1>1, <1>2 DEF ReleaseOK
    <3>2. call' \in Call /\ call'.phase = "loop" /\ call'.after = "socket"
      BY <1>2, <2>2, <3>1 DEF Call, Phases
    <3> QED BY <3>2, PlainLoopOK
  <2> QED BY <1>1, <2>1, <2>2
<1>8. /\ srv' \in [Keys -> Nat] /\ srvSeq' \in Nat
      /\ base' \in [Keys -> Nat] /\ delivered' \in [Counted -> Nat]
  BY <1>1, NothingType DEF Inv, TypeOK
<1>9. QtsNeedsPrimary' /\ Good(mb')
  BY <1>1, <1>6 DEF Inv, QtsNeedsPrimary
<1> QED BY <1>7, <1>8, <1>9, CallStep

(* One iteration of check_deadlines keeps the invariant *)
LEMMA CheckNextEntryStep ==
    ASSUME NEW k \in call.keys, Inv, CheckNextEntry(k)
    PROVE  Inv'
<1>1. /\ call.phase = "deadlines" /\ mb' = CheckDeadline(mb, k)
      /\ srv' = srv /\ srvSeq' = srvSeq /\ Nothing
      /\ call' = [call EXCEPT !.keys = @ \ {k}]
  BY DEF CheckNextEntry
<1>2. Good(mb) /\ call \in Call /\ k \in Keys
  BY <1>1, IdleGood DEF Inv, TypeOK, Call
<1>3. Good(mb') /\ \A j \in Keys : Known(mb', j) <=> Known(mb, j)
  BY <1>1, <1>2, CheckDeadlineGood
<1>4. call' \in Call /\ call'.phase = "deadlines"
  BY <1>1, <1>2 DEF Call
<1>5. /\ srv' \in [Keys -> Nat] /\ srvSeq' \in Nat
      /\ base' \in [Keys -> Nat] /\ delivered' \in [Counted -> Nat]
  BY <1>1, NothingType DEF Inv, TypeOK
<1>6. QtsNeedsPrimary'
  BY <1>3, SameKnown DEF Inv
<1> QED BY <1>3, <1>4, <1>5, <1>6, IdleCallOK, CallStep

(* The recomputed deadline is an instant *)
LEMMA NextDeadlineNat ==
    ASSUME NEW m \in Box
    PROVE  NextDeadline(m) \in Nat
<1> DEFINE waiting == {k \in Keys : Known(m, k) /\
                          (~m.entries[k].pending \/ m.entries[k].deferred)}
           D == {EffectiveDeadline(m.entries[k]) : k \in waiting}
<1>1. NextDeadline(m) = IF waiting = {} THEN NoUpdatesTimeout ELSE Least(D)
  BY DEF NextDeadline
<1>2. \A k \in waiting : EffectiveDeadline(m.entries[k]) \in Nat
  BY KnownEntry, EffectiveDeadlineNat
<1> HIDE DEF waiting
<1>3. D \in SUBSET Nat /\ (waiting # {} => D # {})
  BY <1>2
<1> HIDE DEF D
<1>4. waiting # {} => Least(D) \in Nat
  BY <1>3, LeastNat
<1> QED BY <1>1, <1>4, BoundsNat

(* The end of check_deadlines recomputes the cached deadline *)
LEMMA EndDeadlinesStep == Inv /\ EndDeadlines => Inv'
<1> SUFFICES ASSUME Inv, EndDeadlines
             PROVE  Inv'
  OBVIOUS
<1> DEFINE t == NextDeadline(mb)
<1>1. /\ call.phase = "deadlines" /\ mb' = [mb EXCEPT !.next_deadline = t]
      /\ srv' = srv /\ srvSeq' = srvSeq /\ Nothing /\ call' = Idle
  BY DEF EndDeadlines
<1>2. Good(mb) /\ t \in Nat
  BY <1>1, IdleGood, NextDeadlineNat
<1> HIDE DEF t
<1>3. Good(mb') /\ mb'.entries = mb.entries
  BY <1>1, <1>2, SetDeadlineGood
<1>4. /\ srv' \in [Keys -> Nat] /\ srvSeq' \in Nat
      /\ base' \in [Keys -> Nat] /\ delivered' \in [Counted -> Nat]
  BY <1>1, NothingType DEF Inv, TypeOK
<1>5. QtsNeedsPrimary'
  BY <1>3 DEF Inv, QtsNeedsPrimary, Known
<1> QED BY <1>1, <1>3, <1>4, <1>5, IdleType, IdleCallOK, CallStep

(* What the steps on a channel's held updates start from *)
LEMMA SiftProps ==
    ASSUME Inv, call.phase \in {"extract", "sift"}
    PROVE  /\ Good(mb) /\ mb \in Box /\ call \in Call
           /\ call.chan \in Channels /\ call.chan \in Keys
           /\ Known(mb, call.chan) /\ ~Getting(mb, call.chan) /\ mb.held_release_ready
           /\ call.todo \in Seq(Events) /\ KeysAre(call.todo, call.chan)
           /\ call.built \in Seq(Events) /\ KeysAre(call.built, call.chan)
           /\ call.left \in Nat /\ call.at \in Nat /\ call.failures \in Nat
           /\ mb.held_updates \in Seq(Events) /\ Len(mb.held_updates) \in Nat
           /\ \A i \in 1 .. Len(mb.held_updates) : mb.held_updates[i].key \in Channels
           /\ call.phase = "extract" => call.left <= Len(mb.held_updates)
<1>1. Good(mb) /\ mb \in Box /\ call \in Call /\ SiftOK
  BY IdleGood DEF Inv, TypeOK, CallOK
<1>2. call.built \in Seq(Events) /\ call.left \in Nat /\ call.at \in Nat /\ call.failures \in Nat
  BY <1>1 DEF Call
<1>3. mb.held_updates \in Seq(Events) /\ Len(mb.held_updates) \in Nat
  BY <1>1, LenProperties DEF Box
<1>4. \A i \in 1 .. Len(mb.held_updates) : mb.held_updates[i].key \in Channels
  BY <1>1 DEF Good, HeldOK
<1> QED BY <1>1, <1>2, <1>3, <1>4, ChannelsAreKeys DEF SiftOK

(* The conclusion of such a step *)
LEMMA SiftStep ==
    ASSUME Inv, call.phase \in {"extract", "sift"}, Nothing, srv' = srv, srvSeq' = srvSeq,
           NEW h \in Seq(Events), \A i \in 1 .. Len(h) : h[i].key \in Channels,
           mb' = [mb EXCEPT !.held_updates = h],
           call' \in Call, call'.phase \in {"extract", "sift"}, call'.chan = call.chan,
           call'.todo \in Seq(Events), KeysAre(call'.todo, call.chan),
           KeysAre(call'.built, call.chan),
           call'.phase = "extract" => call'.left <= Len(h)
    PROVE  Inv'
<1>1. /\ Good(mb) /\ mb.held_release_ready /\ call.chan \in Channels
      /\ Known(mb, call.chan) /\ ~Getting(mb, call.chan)
  BY SiftProps
<1>2. Good(mb') /\ mb'.entries = mb.entries /\ mb'.held_release_ready /\ mb'.held_updates = h
  BY <1>1, SetHeldGood
<1>3. SiftOK'
  BY <1>1, <1>2 DEF SiftOK, Known, Getting, KeysAre
<1>4. CallOK'
  BY <1>3 DEF CallOK, SortingOK, LoopOK, ReleaseOK
<1>5. QtsNeedsPrimary'
  BY <1>2 DEF Inv, QtsNeedsPrimary, Known
<1>6. /\ srv' \in [Keys -> Nat] /\ srvSeq' \in Nat
      /\ base' \in [Keys -> Nat] /\ delivered' \in [Counted -> Nat]
  BY NothingType DEF Inv, TypeOK
<1> QED BY <1>2, <1>4, <1>5, <1>6, CallStep

(* Held updates of the channel are taken out, the others stay *)
LEMMA ExtractNextStep == Inv /\ ExtractNext => Inv'
<1> SUFFICES ASSUME Inv, ExtractNext
             PROVE  Inv'
  OBVIOUS
<1> DEFINE s == mb.held_updates
           u == Head(s)
           own == u.key = call.chan
           h == IF own THEN Tail(s) ELSE Append(Tail(s), u)
           td == IF own THEN Append(call.todo, u) ELSE call.todo
<1>1. /\ call.phase = "extract" /\ call.left > 0
      /\ srv' = srv /\ srvSeq' = srvSeq /\ Nothing
      /\ mb' = [mb EXCEPT !.held_updates = h]
      /\ call' = [call EXCEPT !.left = @ - 1, !.todo = td]
  BY DEF ExtractNext
<1>2. /\ call \in Call /\ call.todo \in Seq(Events) /\ KeysAre(call.todo, call.chan)
      /\ KeysAre(call.built, call.chan) /\ call.left \in Nat /\ call.left <= Len(s)
      /\ s \in Seq(Events) /\ Len(s) \in Nat
      /\ \A i \in 1 .. Len(s) : s[i].key \in Channels
  BY <1>1, SiftProps
<1>3. Len(s) > 0
  BY <1>1, <1>2
<1> HIDE DEF s
<1>4. /\ u = s[1] /\ u \in Events
      /\ Tail(s) \in Seq(Events) /\ Len(Tail(s)) = Len(s) - 1
      /\ \A i \in 1 .. Len(s) - 1 : Tail(s)[i] = s[i + 1]
      /\ Append(Tail(s), u) \in Seq(Events) /\ Len(Append(Tail(s), u)) = Len(s)
      /\ \A i \in 1 .. Len(s) - 1 : Append(Tail(s), u)[i] = s[i + 1]
      /\ Append(Tail(s), u)[Len(s)] = s[1]
  BY <1>2, <1>3, TurnProps
<1> HIDE DEF u
<1>5. td \in Seq(Events) /\ KeysAre(td, call.chan)
  BY <1>2, <1>4, AppendKeys
<1> HIDE DEF td
<1>6. /\ h \in Seq(Events) /\ call.left - 1 <= Len(h)
      /\ \A i \in 1 .. Len(h) : h[i].key \in Channels
  <2>1. CASE own
    <3>1. h = Tail(s)
      BY <2>1
    <3> HIDE DEF h
    <3>2. h \in Seq(Events) /\ Len(h) = Len(s) - 1 /\ \A i \in 1 .. Len(s) - 1 : h[i] = s[i + 1]
      BY <1>4, <3>1
    <3>3. ASSUME NEW i \in 1 .. Len(h)
          PROVE  h[i].key \in Channels
      <4>1. i + 1 \in 1 .. Len(s) /\ h[i] = s[i + 1]
        BY <1>2, <1>3, <3>2
      <4> QED BY <1>2, <4>1
    <3> QED BY <1>2, <1>3, <3>2, <3>3
  <2>2. CASE ~own
    <3>1. h = Append(Tail(s), u)
      BY <2>2
    <3> HIDE DEF h
    <3>2. /\ h \in Seq(Events) /\ Len(h) = Len(s) /\ h[Len(s)] = s[1]
          /\ \A i \in 1 .. Len(s) - 1 : h[i] = s[i + 1]
      BY <1>4, <3>1
    <3>3. ASSUME NEW i \in 1 .. Len(h)
          PROVE  h[i].key \in Channels
      <4>1. CASE i = Len(s)
        BY <1>2, <1>3, <3>2, <4>1
      <4>2. CASE i # Len(s)
        BY <1>2, <1>3, <3>2, <4>2
      <4> QED BY <4>1, <4>2
    <3> QED BY <1>2, <1>3, <3>2, <3>3
  <2> QED BY <2>1, <2>2
<1> HIDE DEF h
<1>7. /\ call' \in Call /\ call'.phase = "extract" /\ call'.chan = call.chan
      /\ call'.todo = td /\ call'.built = call.built /\ call'.left = call.left - 1
  <2>1. td \in Seq(Updates) /\ call.left - 1 \in Nat
    BY <1>1, <1>2, <1>5, EventsAreUpdates
  <2> QED BY <1>1, <1>2, <2>1 DEF Call
<1> QED BY <1>1, <1>2, <1>5, <1>6, <1>7, SiftStep

(* The extracted updates all belong to the channel *)
LEMMA EndExtractStep == Inv /\ EndExtract => Inv'
<1> SUFFICES ASSUME Inv, EndExtract
             PROVE  Inv'
  OBVIOUS
<1>1. /\ call.phase = "extract" /\ mb' = mb
      /\ srv' = srv /\ srvSeq' = srvSeq /\ Nothing
      /\ call' = [call EXCEPT !.phase = "sift"]
  BY DEF EndExtract
<1>2. /\ call \in Call /\ call.todo \in Seq(Events) /\ KeysAre(call.todo, call.chan)
      /\ KeysAre(call.built, call.chan) /\ mb \in Box
      /\ mb.held_updates \in Seq(Events)
      /\ \A i \in 1 .. Len(mb.held_updates) : mb.held_updates[i].key \in Channels
  BY <1>1, SiftProps
<1>3. mb' = [mb EXCEPT !.held_updates = mb.held_updates]
  BY <1>1, <1>2 DEF Box
<1>4. /\ call' \in Call /\ call'.phase = "sift" /\ call'.chan = call.chan
      /\ call'.todo = call.todo /\ call'.built = call.built
  BY <1>1, <1>2 DEF Call, Phases
<1> DEFINE h == mb.held_updates
<1>5. mb' = [mb EXCEPT !.held_updates = h] /\ h \in Seq(Events)
      /\ \A i \in 1 .. Len(h) : h[i].key \in Channels
  BY <1>2, <1>3
<1> HIDE DEF h
<1>6. call'.phase \in {"extract", "sift"} /\ (call'.phase = "extract" => call'.left <= Len(h))
      /\ call'.todo \in Seq(Events) /\ KeysAre(call'.todo, call.chan)
      /\ KeysAre(call'.built, call.chan)
  BY <1>2, <1>4
<1>7. /\ call.phase \in {"extract", "sift"} /\ srv' = srv /\ srvSeq' = srvSeq /\ Nothing
      /\ call' \in Call /\ call'.chan = call.chan
  BY <1>1, <1>4
<1> QED BY <1>5, <1>6, <1>7, SiftStep

(* An extracted update is held again, dropped, or goes beyond the position *)
LEMMA SiftNextStep ==
    ASSUME NEW i \in DOMAIN call.todo, Inv, SiftNext(i)
    PROVE  Inv'
<1> DEFINE u == call.todo[i]
           next == call.at + u.count
           follows == call.built = <<>> /\ next = u.pts
           beyond == call.built # <<>> \/ next < u.pts
           h == IF follows THEN Append(mb.held_updates, u) ELSE mb.held_updates
           b == IF beyond THEN Append(call.built, u) ELSE call.built
           at == IF follows THEN u.pts ELSE call.at
<1>1. /\ call.phase = "sift" /\ srv' = srv /\ srvSeq' = srvSeq /\ Nothing
      /\ mb' = IF follows THEN [mb EXCEPT !.held_updates = Append(@, u)] ELSE mb
      /\ call' = [call EXCEPT !.todo = Rest(i), !.at = at, !.built = b]
  BY DEF SiftNext
<1>2. /\ call \in Call /\ call.todo \in Seq(Events) /\ KeysAre(call.todo, call.chan)
      /\ call.built \in Seq(Events) /\ KeysAre(call.built, call.chan) /\ mb \in Box
      /\ mb.held_updates \in Seq(Events) /\ Len(mb.held_updates) \in Nat
      /\ call.chan \in Channels /\ call.at \in Nat
      /\ \A j \in 1 .. Len(mb.held_updates) : mb.held_updates[j].key \in Channels
  BY <1>1, SiftProps
<1>3. /\ u \in Events /\ u.key = call.chan
      /\ Rest(i) \in Seq(Events) /\ KeysAre(Rest(i), call.chan) /\ Rest(i) \in Seq(Updates)
  BY <1>2, RestProps
<1>4. u.pts \in Nat
  BY <1>3, EventProps
<1>5. mb' = [mb EXCEPT !.held_updates = h]
  BY <1>1, <1>2 DEF Box
<1> HIDE DEF u, follows, beyond
<1>6. b \in Seq(Events) /\ KeysAre(b, call.chan) /\ at \in Nat
  BY <1>2, <1>3, <1>4, AppendKeys
<1>7. h \in Seq(Events) /\ \A j \in 1 .. Len(h) : h[j].key \in Channels
  <2>1. CASE follows
    <3> DEFINE s == mb.held_updates
    <3>1. h = Append(s, u)
      BY <2>1
    <3>2. s \in Seq(Events) /\ Len(s) \in Nat /\ \A j \in 1 .. Len(s) : s[j].key \in Channels
      BY <1>2
    <3> HIDE DEF h, s
    <3>3. h \in Seq(Events) /\ Len(h) = Len(s) + 1 /\ h[Len(s) + 1] = u
          /\ \A j \in 1 .. Len(s) : h[j] = s[j]
      BY <1>3, <3>1, <3>2, AppendProperties
    <3>4. ASSUME NEW j \in 1 .. Len(h)
          PROVE  h[j].key \in Channels
      <4>1. CASE j = Len(s) + 1
        BY <1>2, <1>3, <3>3, <4>1
      <4>2. CASE j # Len(s) + 1
        <5>1. j \in 1 .. Len(s)
          BY <3>2, <3>3, <4>2
        <5> QED BY <3>2, <3>3, <5>1
      <4> QED BY <4>1, <4>2
    <3> QED BY <3>3, <3>4
  <2>2. CASE ~follows
    BY <1>2, <2>2
  <2> QED BY <2>1, <2>2
<1> HIDE DEF h, b, at
<1>8. /\ call' \in Call /\ call'.phase = "sift" /\ call'.chan = call.chan
      /\ call'.todo = Rest(i) /\ call'.built = b
  BY <1>1, <1>2, <1>3, <1>6 DEF Call
<1>9. call'.phase \in {"extract", "sift"} /\ (call'.phase = "extract" => call'.left <= Len(h))
      /\ call'.todo \in Seq(Events) /\ KeysAre(call'.todo, call.chan)
      /\ KeysAre(call'.built, call.chan)
  BY <1>3, <1>6, <1>8
<1> QED BY <1>1, <1>5, <1>7, <1>8, <1>9, SiftStep

(* What is beyond the position becomes the gap of the channel, which has no pending recovery *)
LEMMA EndSiftStep == Inv /\ EndSift => Inv'
<1> SUFFICES ASSUME Inv, EndSift
             PROVE  Inv'
  OBVIOUS
<1> DEFINE n == ScheduleChannelRetry(mb, call.chan, call.failures, call.built)
<1>1. /\ call.phase = "sift"
      /\ mb' = n \/ mb' = mb
      /\ srv' = srv /\ srvSeq' = srvSeq /\ Nothing /\ call' = Idle
  BY DEF EndSift
<1>2. /\ Good(mb) /\ call.chan \in Keys /\ Known(mb, call.chan) /\ ~Getting(mb, call.chan)
      /\ call.built \in Seq(Events) /\ KeysAre(call.built, call.chan) /\ call.failures \in Nat
  BY <1>1, SiftProps
<1>3. Good(n) /\ \A j \in Keys : Known(n, j) <=> Known(mb, j)
  BY <1>2, ScheduleGood DEF KeysAre
<1> HIDE DEF n
<1>4. Good(mb') /\ \A j \in Keys : Known(mb', j) <=> Known(mb, j)
  BY <1>1, <1>2, <1>3
<1>5. /\ srv' \in [Keys -> Nat] /\ srvSeq' \in Nat
      /\ base' \in [Keys -> Nat] /\ delivered' \in [Counted -> Nat]
  BY <1>1, NothingType DEF Inv, TypeOK
<1>6. QtsNeedsPrimary'
  BY <1>4, SameKnown DEF Inv
<1> QED BY <1>1, <1>4, <1>5, <1>6, IdleType, IdleCallOK, CallStep

-----------------------------------------------------------------------------

(* The state load() builds from a saved session *)
LEMMA LoadedGood ==
    ASSUME NEW K \in Sessions, NEW q \in [1 .. Cardinality(K) -> K],
           \A k \in K : \E i \in DOMAIN q : q[i] = k,
           \A i, j \in DOMAIN q : i < j => q[i] < q[j]
    PROVE  LET m == Loaded(K, q)
           IN  Good(m) /\ (Known(m, Secondary) => Known(m, Common))
<1> DEFINE m == Loaded(K, q)
           e == [NewEntry(Start) EXCEPT !.pending = TRUE]
           es == [k \in Keys |-> IF k \in K THEN e ELSE NoEntry]
<1>1. K \subseteq Keys /\ (Secondary \in K => Common \in K)
  <2>1. PICK S \in Saved : K = Repaired(S)
    BY DEF Sessions
  <2> QED BY <2>1, SavedAssumption DEF Repaired, Common, Secondary
<1>2. IsFiniteSet(Keys)
  <2>1. IsFiniteSet({Common, Secondary})
    <3>1. IsFiniteSet({}) /\ {Common, Secondary} = ({} \cup {Common}) \cup {Secondary}
      BY FS_EmptySet
    <3> QED BY <3>1, FS_AddElement, ZenonT(40)
  <2> QED BY <2>1, KeysAssumption, FS_Union DEF Keys
<1>3. Cardinality(K) \in Nat
  BY <1>1, <1>2, FS_Subset, FS_CardinalityType
<1>4. q \in Seq(Keys) /\ Len(q) = Cardinality(K) /\ DOMAIN q = 1 .. Len(q)
  BY <1>1, <1>3
<1>5. e \in Entry /\ e.pending /\ ~e.deferred /\ e.gap = <<>>
  <2>1. Start \in Nat
    BY EventsAssumption
  <2>2. NewEntry(Start) \in Entry /\ ~NewEntry(Start).deferred /\ NewEntry(Start).gap = <<>>
    BY <2>1, NewEntryProps
  <2>3. PICK x : x = NewEntry(Start)
    OBVIOUS
  <2>4. e = [x EXCEPT !.pending = TRUE]
    BY <2>3
  <2> HIDE DEF e
  <2> QED BY <2>2, <2>3, <2>4 DEF Entry
<1> HIDE DEF e
<1>6. es \in [Keys -> Entry \cup {NoEntry}]
  BY <1>5
<1>7. PICK z \in Seq(Events) : z = <<>>
  BY EmptySeq
<1>8. m = [entries |-> es, getting_diff_for |-> q, ready_diff_count |-> Len(q),
           exhausted_channels |-> {}, held_updates |-> z, held_release_ready |-> FALSE,
           held_overflowed |-> FALSE, next_deadline |-> NoUpdatesTimeout, seq |-> 0]
  BY <1>7 DEF Loaded, e
<1> HIDE DEF m
<1>9. m \in Box
  <2>1. Len(q) \in Nat /\ NoUpdatesTimeout \in Nat
    BY <1>3, <1>4, BoundsNat
  <2> HIDE DEF es
  <2> QED BY <1>4, <1>6, <1>7, <1>8, <2>1 DEF Box
<1>10. m.entries = es /\ m.getting_diff_for = q /\ m.ready_diff_count = Len(q)
       /\ m.held_updates = z
  BY <1>8
<1>11. \A k \in Keys : (Known(m, k) <=> k \in K) /\ (k \in K => m.entries[k] = e)
  <2>1. e # NoEntry
    BY <1>5, <1>9, KnownEntry, ChannelsAreKeys
  <2> QED BY <1>10, <2>1 DEF Known
<1> HIDE DEF es
<1>12. Ready(m) = K
  BY <1>1, <1>5, <1>11 DEF Ready, Getting
<1>13. QueueIs(m, K)
  <2>1. \A i, j \in 1 .. Len(q) : q[i] = q[j] => i = j
    <3>1. ASSUME NEW i \in 1 .. Len(q), NEW j \in 1 .. Len(q), i < j
          PROVE  q[i] # q[j]
      <4>1. q[i] < q[j] /\ q[i] \in Keys /\ q[j] \in Keys
        BY <1>4, <3>1, ElementOfSeq
      <4>2. Keys \subseteq Nat
        BY KeysAssumption DEF Keys, Common, Secondary
      <4>3. PICK x \in Nat, y \in Nat : x = q[i] /\ y = q[j] /\ x < y
        BY <4>1, <4>2
      <4>4. x # y
        BY <4>3
      <4> QED BY <4>3, <4>4
    <3>2. ASSUME NEW i \in 1 .. Len(q), NEW j \in 1 .. Len(q), q[i] = q[j]
          PROVE  i = j
      <4>1. ~(i < j) /\ ~(j < i)
        BY <3>1, <3>2
      <4> QED BY <4>1
    <3> QED BY <3>2
  <2>2. \A k \in Keys : (\E i \in 1 .. Len(q) : q[i] = k) <=> k \in K
    BY <1>4
  <2> QED BY <1>10, <2>1, <2>2 DEF QueueIs
<1>14. Clean(m)
  BY <1>5, <1>11, EmptySeq DEF Clean, GapOf
<1>15. HeldOK(m)
  BY <1>7, <1>10, EmptySeq DEF HeldOK
<1>16. Good(m)
  BY <1>9, <1>12, <1>13, <1>14, <1>15 DEF Good
<1> QED BY <1>1, <1>11, <1>16, ChannelsAreKeys DEF m

(* new() and load() give a consistent struct *)
LEMMA InitInv == Init => Inv
<1> SUFFICES ASSUME Init
             PROVE  Inv
  OBVIOUS
<1>1. PICK K \in Sessions : \E q \in [1 .. Cardinality(K) -> K] :
          /\ \A k \in K : \E i \in DOMAIN q : q[i] = k
          /\ \A i, j \in DOMAIN q : i < j => q[i] < q[j]
          /\ mb = Loaded(K, q)
          /\ base = [k \in Keys |-> IF k \in K THEN Start ELSE 0]
  BY DEF Init
<1>2. PICK q \in [1 .. Cardinality(K) -> K] :
          /\ \A k \in K : \E i \in DOMAIN q : q[i] = k
          /\ \A i, j \in DOMAIN q : i < j => q[i] < q[j]
          /\ mb = Loaded(K, q)
          /\ base = [k \in Keys |-> IF k \in K THEN Start ELSE 0]
  BY <1>1
<1>3. Good(mb) /\ QtsNeedsPrimary
  BY <1>2, LoadedGood DEF QtsNeedsPrimary
<1>4. Start \in Nat
  BY EventsAssumption
<1>5. call = Idle /\ srv = [k \in Keys |-> Start] /\ srvSeq = 0
      /\ delivered = [e \in Counted |-> 0]
  BY DEF Init
<1>6. TypeOK
  <2>1. base \in [Keys -> Nat]
    BY <1>2, <1>4
  <2> QED BY <1>3, <1>4, <1>5, <2>1, IdleType DEF TypeOK, Good
<1>7. BoxOK
  BY <1>3, <1>5, IdleType DEF BoxOK
<1>8. CallOK
  BY <1>5, IdleType DEF CallOK, SortingOK, LoopOK, SiftOK, ReleaseOK
<1> QED BY <1>3, <1>6, <1>7, <1>8 DEF Inv

(* A container is a sequence of updates *)
LEMMA BatchesProps ==
    ASSUME NEW S \in SUBSET Updates, NEW n \in Nat, NEW b \in Batches(S, n)
    PROVE  b \in Seq(Updates)
<1>1. PICK i \in 0 .. n : b \in [1 .. i -> S]
  BY DEF Batches
<1>2. b \in Seq(S)
  BY <1>1
<1> QED BY <1>2

(* What Telegram may send can be processed *)
LEMMA OfferedUpdates ==
    ASSUME TypeOK
    PROVE  Offered \subseteq Updates
<1>1. \A c \in Channels : srv[c] \in Nat
  BY ChannelsAreKeys DEF TypeOK
<1>2. \A c \in Channels, p \in Nat : TooLong(c, p) \in Updates
  BY DEF TooLong, Update, Updates
<1>3. ASSUME NEW u \in Offered
      PROVE  u \in Updates
  <2>1. CASE u \in Events \/ u = FreeUpdate
    BY <2>1 DEF Updates
  <2>2. CASE ~(u \in Events \/ u = FreeUpdate)
    <3>1. PICK c \in Channels : \E p \in {0, srv[c]} : u = TooLong(c, p)
      BY <2>2 DEF Offered
    <3> QED BY <1>1, <1>2, <3>1
  <2> QED BY <2>1, <2>2
<1> QED BY <1>3

(* Every iteration of every loop preserves the invariant *)
LEMMA ContinueStep == Inv /\ Continue => Inv'
<1> SUFFICES ASSUME Inv, Continue
             PROVE  Inv'
  OBVIOUS
<1>1. CASE \E i \in DOMAIN call.todo :
             \/ LoopTooLong(i) \/ LoopUnordered(i) \/ LoopForced(i) \/ LoopHeld(i)
             \/ LoopOrdered(i) \/ SiftNext(i)
  BY <1>1, LoopTooLongStep, LoopUnorderedStep, LoopForcedStep, LoopHeldStep,
     LoopOrderedStep, SiftNextStep
<1>2. CASE (\E i \in 1 .. MaxHeld : SortNext(i)) \/ EndSort \/ LoopDrain
  BY <1>2, SortNextStep, EndSortStep, LoopDrainStep
<1>3. CASE EndSocket \/ EndAccount \/ EndChannel \/ ReleaseNext \/ EndRelease
  BY <1>3, EndSocketStep, EndAccountStep, EndChannelStep, ReleaseNextStep, EndReleaseStep
<1>4. CASE (\E k \in call.keys : CheckNextEntry(k)) \/ EndDeadlines
  BY <1>4, CheckNextEntryStep, EndDeadlinesStep
<1>5. CASE ExtractNext \/ EndExtract \/ EndSift
  BY <1>5, ExtractNextStep, EndExtractStep, EndSiftStep
<1> QED BY <1>1, <1>2, <1>3, <1>4, <1>5 DEF Continue

(* Starting to process socket updates preserves the invariant *)
LEMMA SocketStep == Inv /\ Socket => Inv'
<1> SUFFICES ASSUME Inv, Socket
             PROVE  Inv'
  OBVIOUS
<1>1. CASE ProcessGap
  BY <1>1, ProcessGapStep
<1>2. CASE \E us \in Batches(Offered, MaxBatch), seq \in 0 .. srvSeq :
             \E seqStart \in 0 .. seq : ProcessUpdates(us, seqStart, seq, TRUE)
  <2>1. PICK us \in Batches(Offered, MaxBatch), seq \in 0 .. srvSeq :
             \E seqStart \in 0 .. seq : ProcessUpdates(us, seqStart, seq, TRUE)
    BY <1>2
  <2>2. us \in Seq(Updates)
    BY OfferedUpdates, BatchesProps, BoundsNat DEF Inv
  <2>3. seq \in Nat /\ \A seqStart \in 0 .. seq : seqStart \in Nat
    BY DEF Inv, TypeOK
  <2> QED BY <2>1, <2>2, <2>3, ProcessUpdatesStep
<1>3. CASE ProcessUpdates(<<>>, 0, 0, FALSE)
  <2>1. <<>> \in Seq(Updates)
    BY EmptySeq
  <2> QED BY <1>3, <2>1, ProcessUpdatesStep
<1> QED BY <1>1, <1>2, <1>3 DEF Socket

(* Every answer to an account difference preserves the invariant *)
LEMMA AccountAnswerStep == Inv /\ AccountAnswer => Inv'
<1> SUFFICES ASSUME Inv, AccountAnswer
             PROVE  Inv'
  OBVIOUS
<1>1. TypeOK /\ srv[Common] \in Nat
      /\ (\A p \in Reachable(Common, PtsOf(Common)) : p \in Nat)
      /\ (\A p \in Reachable(Secondary, PtsOf(Secondary)) : p \in Nat)
  BY PositionsNat, ChannelsAreKeys DEF Inv
<1>2. CASE EmptyDifference
  BY <1>2, EmptyDifferenceStep
<1>3. CASE DifferenceTooLong(srv[Common])
  BY <1>1, <1>3, DifferenceTooLongStep
<1>4. CASE ~EmptyDifference /\ ~DifferenceTooLong(srv[Common])
  <2>1. PICK pts \in Reachable(Common, PtsOf(Common)),
             qts \in Reachable(Secondary, PtsOf(Secondary)),
             extra \in Batches({u \in Offered : u.key \in Channels}, MaxExtra),
             final \in BOOLEAN :
             \E others : Difference(pts, qts, others, extra, final)
    BY <1>4 DEF AccountAnswer
  <2>2. extra \in Seq(Updates)
    <3>1. {u \in Offered : u.key \in Channels} \in SUBSET Updates /\ MaxExtra \in Nat
      BY <1>1, OfferedUpdates, BoundsNat
    <3> QED BY <3>1, BatchesProps
  <2> QED BY <1>1, <2>1, <2>2, DifferenceStep
<1> QED BY <1>2, <1>3, <1>4

(* Every answer to a channel difference preserves the invariant *)
LEMMA ChannelAnswerStep ==
    ASSUME NEW c \in Channels, Inv, ChannelAnswer(c)
    PROVE  Inv'
<1>1. srv[c] \in Nat /\ \A p \in Reachable(c, PtsOf(c)) : p \in Nat
  BY PositionsNat, ChannelsAreKeys DEF Inv
<1>2. PICK timeout \in Timeouts, final \in BOOLEAN :
        \/ \E p \in Reachable(c, PtsOf(c)) :
              \E others \in Orderings({e \in Between(c, PtsOf(c), p) : ~e.msg}) :
                  ChannelDifference(c, p, others, final, timeout)
        \/ ChannelDifferenceTooLong(c, srv[c], final, timeout)
  BY DEF ChannelAnswer
<1>3. timeout \in Nat
  BY BoundsNat
<1> QED BY <1>1, <1>2, <1>3, ChannelDifferenceStep, ChannelDifferenceTooLongStep

(* Every other call of the receiver preserves the invariant *)
LEMMA ReceiverStep == Inv /\ Receiver => Inv'
<1> SUFFICES ASSUME Inv, Receiver
             PROVE  Inv'
  OBVIOUS
<1>1. CASE CheckDeadlines \/ TakeReleasedUpdates \/ SetAccountState \/ DiscardAccount
  BY <1>1, CheckDeadlinesStep, TakeReleasedUpdatesStep, SetAccountStateStep,
     DiscardAccountStep
<1>2. ASSUME NEW c \in Channels,
             \/ TrySetChannelState(c) \/ RetryChannelWithoutDelay(c)
             \/ EndTemporarily(c) \/ EndBanned(c)
             \/ DeferChannelDifference(c) \/ TryExhaustChannelGrace(c)
             \/ ChannelDifferenceAccessible(c)
      PROVE  Inv'
  BY <1>2, TrySetChannelStateStep, RetryChannelWithoutDelayStep, EndTemporarilyStep,
     EndBannedStep, DeferChannelDifferenceStep, TryExhaustChannelGraceStep,
     ChannelDifferenceAccessibleStep
<1> QED BY <1>1, <1>2 DEF Receiver

(* The invariant is inductive *)
LEMMA NextInv == Inv /\ [Next]_vars => Inv'
<1> SUFFICES ASSUME Inv, [Next]_vars
             PROVE  Inv'
  OBVIOUS
<1>1. CASE Continue \/ Socket \/ Receiver
  BY <1>1, ContinueStep, SocketStep, ReceiverStep
<1>2. CASE Telegram \/ Tick
  BY <1>2, NumberContainerStep, PublishStep, TickStep DEF Telegram
<1>3. CASE AccountAnswer \/ \E c \in Channels : ChannelAnswer(c)
  BY <1>3, AccountAnswerStep, ChannelAnswerStep
<1>4. CASE UNCHANGED vars
  <2>1. /\ mb' = mb /\ call' = call /\ srv' = srv /\ srvSeq' = srvSeq
        /\ base' = base /\ delivered' = delivered
    BY <1>4 DEF vars
  <2>2. TypeOK' /\ BoxOK' /\ QtsNeedsPrimary'
    BY <2>1 DEF Inv, TypeOK, BoxOK, QtsNeedsPrimary
  <2>3. CallOK'
    BY <2>1 DEF Inv, CallOK, SortingOK, LoopOK, SiftOK, ReleaseOK, KeysAre
  <2> QED BY <2>2, <2>3 DEF Inv
<1> QED BY <1>1, <1>2, <1>3, <1>4 DEF Next

(* Whatever the containers, answers and failures, and for any number of
   channels and updates, the inductive invariant holds *)
THEOREM Invariance == Spec => []Inv
BY InitInv, NextInv, PTL DEF Spec

(* Every field of MessageBoxes and of the call in progress keeps its type *)
THEOREM TypeCorrect == Spec => []TypeOK
<1>1. Inv => TypeOK
  BY DEF Inv
<1> QED BY <1>1, Invariance, PTL

(* The parts of Good that do not look at the held updates *)
LEMMA InvQueue == Inv => QueueIs(mb, Ready(mb)) /\ Clean(mb) /\ mb \in Box
<1> SUFFICES ASSUME Inv
             PROVE  QueueIs(mb, Ready(mb)) /\ Clean(mb) /\ mb \in Box
  OBVIOUS
<1>1. CASE call.phase # "release"
  BY <1>1, IdleGood DEF Good
<1>2. CASE call.phase = "release"
  <2> DEFINE n == [mb EXCEPT !.held_release_ready = TRUE]
  <2>1. mb \in Box /\ Good(n)
    BY <1>2 DEF Inv, TypeOK, BoxOK
  <2>2. n.entries = mb.entries /\ n.getting_diff_for = mb.getting_diff_for
        /\ n.ready_diff_count = mb.ready_diff_count
    BY <2>1 DEF Box
  <2> HIDE DEF n
  <2>3. Ready(mb) = Ready(n)
    BY <2>2 DEF Ready, Getting, Known
  <2>4. QueueIs(mb, Ready(mb))
    BY <2>1, <2>2, <2>3 DEF Good, QueueIs
  <2>5. Clean(mb)
    BY <2>1, <2>2 DEF Good, Clean, GapOf, Known
  <2> QED BY <2>1, <2>4, <2>5
<1> QED BY <1>1, <1>2

(* getting_diff_for holds exactly the pending recoveries that are not deferred,
   each once: try_end_get_diff always finds what it removes *)
THEOREM RecoveryQueueCorrect == Spec => []RecoveryQueue
<1>1. Inv => RecoveryQueue
  <2> SUFFICES ASSUME Inv
               PROVE  RecoveryQueue
    OBVIOUS
  <2>1. QueueIs(mb, Ready(mb)) /\ mb \in Box
    BY InvQueue
  <2>2. DOMAIN mb.getting_diff_for = 1 .. Len(mb.getting_diff_for)
    BY <2>1, LenProperties DEF Box
  <2> QED BY <2>1, <2>2 DEF QueueIs, Ready, RecoveryQueue
<1> QED BY <1>1, Invariance, PTL

(* The debug_assert of try_end_get_diff never fails *)
THEOREM NoGapWhilePendingCorrect == Spec => []NoGapWhilePending
<1>1. Inv => NoGapWhilePending
  BY InvQueue DEF Clean, NoGapWhilePending
<1> QED BY <1>1, Invariance, PTL

(* No held update is forgotten between two calls *)
THEOREM HeldNotStrandedCorrect == Spec => []HeldNotStranded
<1>1. Inv => HeldNotStranded
  <2> SUFFICES ASSUME Inv, call.phase = "idle"
               PROVE  \A i \in DOMAIN mb.held_updates :
                        Getting(mb, mb.held_updates[i].key) \/ mb.held_release_ready
    BY DEF HeldNotStranded
  <2>1. Good(mb) /\ DOMAIN mb.held_updates = 1 .. Len(mb.held_updates)
    BY IdleGood, LenProperties DEF Box
  <2> QED BY <2>1 DEF Good, HeldOK
<1> QED BY <1>1, Invariance, PTL

(* The account's qts is known only together with its pts, so get_difference
   can always form its request *)
THEOREM QtsNeedsPrimaryCorrect == Spec => []QtsNeedsPrimary
<1>1. Inv => QtsNeedsPrimary
  BY DEF Inv
<1> QED BY <1>1, Invariance, PTL

(* The struct agrees with itself between any two steps of its methods: no expect
   and no assertion of the recovery code can fail *)
THEOREM ConsistentCorrect == Spec => []Consistent
BY RecoveryQueueCorrect, NoGapWhilePendingCorrect, HeldNotStrandedCorrect,
   QtsNeedsPrimaryCorrect, PTL DEF Consistent
=============================================================================
