----------------------------- MODULE MessageBox -----------------------------
(***************************************************************************)
(* grammers-session/src/message_box: the update state of one account.      *)
(*                                                                         *)
(* Telegram numbers the updates of every sequence (the account's pts, its  *)
(* qts, one pts per channel).  `MessageBoxes` delivers them in order,      *)
(* notices gaps, decides when a difference must be fetched, and holds back *)
(* socket updates of a sequence while its difference is pending.           *)
(*                                                                         *)
(* `mb` is the struct; its methods are operators from a struct to a        *)
(* struct.  A method with a loop runs as one step per iteration: `call`    *)
(* is the call in progress, and no other method starts before it returns   *)
(* (the code owns the struct through `&mut self`).                         *)
(*                                                                         *)
(* An instant is modelled by the time left until it, 0 once it has passed; *)
(* Tick lets time pass.  `Option<Instant>` retry_not_before is 0 when it   *)
(* is None: the code treats an instant in the past and None alike.  An     *)
(* absent possible_gap is the empty sequence: the code never keeps an      *)
(* empty one.  `date` follows `seq` everywhere and is left out.            *)
(***************************************************************************)
EXTENDS Integers, Sequences, FiniteSets

CONSTANTS
    Channels,       \* channel identifiers, greater than Secondary
    Events,         \* what Telegram will publish: updates that carry a pts
    Start,          \* Telegram's position in every sequence at the start
    Saved,          \* the sets of sequences a stored session may know
    LogIn,          \* whether the caller ever fetches the account's state
    MaxSeq,         \* bound on the `seq` of Telegram's containers
    MaxBatch,       \* bound on the updates of one container
    MaxExtra,       \* bound on the channel updates of one account difference
    Timeouts,       \* `timeout` values of channel differences
    GapTimeout,     \* POSSIBLE_GAP_TIMEOUT
    NoUpdatesTimeout,
    RetryDelayLimit,\* CHANNEL_RETRY_DELAY_LIMIT
    DeferDelay,     \* retry_after of defer_channel_difference
    MaxHeld,        \* MAX_HELD_UPDATES
    MaxDeferrals,   \* MAX_CHANNEL_DEFERRALS
    MaxFailures     \* where recovery_failures saturates (u8::MAX)

VARIABLES
    mb,         \* the MessageBoxes struct
    call,       \* the method call in progress
    srv,        \* Telegram's position in every sequence
    srvSeq,     \* Telegram's seq
    base,       \* where the current position of a sequence was established
    delivered   \* how often each event was handed out since then

vars == <<mb, call, srv, srvSeq, base, delivered>>

Common == 0
Secondary == 1
Keys == {Common, Secondary} \cup Channels
NoEntry == [pts |-> -1]

(* Updates that carry a pts, updates that carry none, updateChannelTooLong *)
Update(kind, key, pts, count) ==
    [kind |-> kind, key |-> key, pts |-> pts, count |-> count, msg |-> FALSE]
FreeUpdate == Update("free", Common, 0, 0)
TooLong(c, p) == Update("tooLong", c, p, 0)

ASSUME KeysAssumption ==
    Channels \subseteq Nat \ {Common, Secondary} /\ IsFiniteSet(Channels)
ASSUME SavedAssumption ==
    /\ Saved \subseteq SUBSET Keys
    /\ LogIn \in BOOLEAN
ASSUME EventsAssumption ==
    /\ Events \subseteq [kind : {"pts"}, key : Keys, pts : Nat \ {0},
                         count : Nat, msg : BOOLEAN]
    /\ IsFiniteSet(Events)
    /\ \A e \in Events : e.pts - e.count >= Start
    /\ Start \in Nat \ {0}
(* Telegram gives an event that counts a part of its sequence of its own *)
Counted == {e \in Events : e.count > 0}
ASSUME NumberingAssumption ==
    \A e, f \in Counted : e.key = f.key /\ e # f => e.pts <= f.pts - f.count \/ f.pts <= e.pts - e.count
ASSUME BoundsAssumption ==
    /\ {GapTimeout, NoUpdatesTimeout, RetryDelayLimit, DeferDelay,
        MaxHeld} \subseteq Nat \ {0}
    /\ {MaxSeq, MaxBatch, MaxExtra, MaxDeferrals, MaxFailures} \subseteq Nat
    /\ Timeouts \subseteq Nat
    /\ {DeferDelay, RetryDelayLimit} \subseteq 0 .. NoUpdatesTimeout

Min2(a, b) == IF a <= b THEN a ELSE b
Max2(a, b) == IF a >= b THEN a ELSE b
Least(S) == CHOOSE x \in S : \A y \in S : x <= y
RemoveIndex(s, i) == SubSeq(s, 1, i - 1) \o SubSeq(s, i + 1, Len(s))

-----------------------------------------------------------------------------
(* Querying the struct *)

Known(m, k) == m.entries[k] # NoEntry
(* A faulty is_getting_diff that overlooks deferred recoveries *)
FaultyGetting(m, k) == Known(m, k) /\ m.entries[k].pending /\ ~m.entries[k].deferred
Getting(m, k) == Known(m, k) /\ m.entries[k].pending

NewEntry(pts) ==
    [pts |-> pts, deadline |-> NoUpdatesTimeout, deferred |-> FALSE,
     pending |-> FALSE, deferrals |-> 0, failures |-> 0, notBefore |-> 0,
     gapDeadline |-> 0, gap |-> <<>>]

SortKey(u) == u.pts - u.count

(* A faulty effective_deadline that ignores retry_not_before *)
FaultyEffectiveDeadline(e) ==
    IF e.gap = <<>> THEN e.deadline ELSE Min2(e.gapDeadline, e.deadline)
EffectiveDeadline(e) ==
    Max2(IF e.gap = <<>> THEN e.deadline ELSE Min2(e.gapDeadline, e.deadline),
         e.notBefore)

(* 1, 2, 4 ... seconds: one shifted by the failures before the last one *)
RetryDelay(failures) ==
    Min2(<<1, 2, 4, 8, 16, 32, 64>>[Min2(Max2(failures - 1, 0), 6) + 1], RetryDelayLimit)

(* channel_in_diff: the first ready channel *)
IsChannelInDiff(m, c) ==
    \E i \in DOMAIN m.getting_diff_for :
        /\ m.getting_diff_for[i] = c
        /\ c \in Channels
        /\ \A j \in 1 .. i - 1 : m.getting_diff_for[j] \notin Channels

-----------------------------------------------------------------------------
(* Methods that change the struct *)

HoldUpdates(m, us) ==
    LET all == m.held_updates \o us
        excess == Max2(0, Len(all) - MaxHeld)
    IN  [m EXCEPT !.held_updates = SubSeq(all, excess + 1, Len(all)),
                  !.held_overflowed = @ \/ excess > 0]

SetEntry(m, k, e) == [m EXCEPT !.entries[k] = e]
PopEntry(m, k) == SetEntry(m, k, NoEntry)

SetPts(m, k, pts) ==
    SetEntry(m, k, IF Known(m, k) THEN [m.entries[k] EXCEPT !.pts = pts]
                                  ELSE NewEntry(pts))

(* A faulty queue whose counter is forgotten *)
FaultyEnqueue(m, k) == [m EXCEPT !.getting_diff_for = Append(@, k)]
Enqueue(m, k) ==
    [m EXCEPT !.getting_diff_for = Append(@, k), !.ready_diff_count = @ + 1]

Dequeue(m, k) ==
    LET q == m.getting_diff_for
        i == CHOOSE i \in DOMAIN q : q[i] = k /\ \A j \in 1 .. i - 1 : q[j] # k
    IN  [m EXCEPT !.getting_diff_for = RemoveIndex(q, i), !.ready_diff_count = @ - 1]

(* A faulty reset_deadline that leaves the cached deadline alone *)
FaultyResetDeadline(m, k, deadline) ==
    IF Known(m, k) THEN [m EXCEPT !.entries[k].deadline = deadline] ELSE m

(* Deadlines that have passed are all 0 here and compare equal; the code's may
   differ, but then its cached one has passed too and stays so until
   check_deadlines computes it afresh *)
ResetDeadline(m, k, deadline) ==
    LET old == IF Known(m, k) THEN m.entries[k].deadline ELSE m.next_deadline
        es == IF Known(m, k) THEN [m.entries EXCEPT ![k].deadline = deadline]
                             ELSE m.entries
        all == {deadline} \cup
               {EffectiveDeadline(es[j]) : j \in {i \in Keys : es[i] # NoEntry}}
    IN  [m EXCEPT !.entries = es,
                  !.next_deadline = IF @ = old THEN Least(all)
                                               ELSE Min2(@, deadline)]

(* A faulty try_begin_get_diff that keeps the entry's gap *)
FaultyTryBeginGetDiff(m, k) ==
    IF Known(m, k) /\ ~Getting(m, k)
    THEN Enqueue([m EXCEPT !.entries[k].pending = TRUE], k)
    ELSE m

TryBeginGetDiff(m, k) ==
    IF Known(m, k) /\ ~Getting(m, k)
    THEN LET e == m.entries[k]
             wait == e.notBefore > 0
             begun == [e EXCEPT !.pending = TRUE, !.deferred = wait, !.deferrals = 0,
                                !.gap = <<>>, !.gapDeadline = 0,
                                !.deadline = IF wait THEN e.notBefore ELSE @]
             m1 == SetEntry(IF k \in Channels THEN HoldUpdates(m, e.gap) ELSE m,
                            k, begun)
         IN  IF wait THEN [m1 EXCEPT !.next_deadline = Min2(@, e.notBefore)]
                     ELSE Enqueue(m1, k)
    ELSE m

TryEndGetDiff(m, k) ==
    IF Getting(m, k)
    THEN LET e == m.entries[k]
             m1 == IF e.deferred THEN m ELSE Dequeue(m, k)
             m2 == SetEntry(m1, k, [e EXCEPT !.pending = FALSE, !.deferred = FALSE,
                                             !.deferrals = 0])
             m3 == ResetDeadline(m2, k, NoUpdatesTimeout)
         IN  [m3 EXCEPT !.held_release_ready = @ \/ k \in Channels]
    ELSE m

(* A faulty discard_account_state that forgets the qts *)
FaultyDiscardAccountState(m) == PopEntry(TryEndGetDiff(m, Common), Common)

DiscardAccountState(m) ==
    LET drop(x, k) == PopEntry(TryEndGetDiff(x, k), k)
    IN  drop(drop(m, Common), Secondary)

SetState(m, pts, qts, seq) ==
    LET m1 == SetEntry(SetEntry(m, Common, NewEntry(pts)), Secondary, NewEntry(qts))
    IN  [m1 EXCEPT !.seq = seq, !.next_deadline = Min2(@, NoUpdatesTimeout)]

(* Faulty check_deadlines: one never wakes deferred recoveries, the other
   nothing else *)
FaultyCheckDeadline(m, k) ==
    IF Known(m, k) /\ ~Getting(m, k) /\ EffectiveDeadline(m.entries[k]) = 0
    THEN TryBeginGetDiff(m, k)
    ELSE m

(* One entry of the loop of check_deadlines *)
CheckDeadline(m, k) ==
    LET e == m.entries[k]
        due == Known(m, k) /\ e.deferred /\ e.deadline = 0
        start == Known(m, k) /\ ~e.pending /\ EffectiveDeadline(e) = 0
        begun == [e EXCEPT !.gap = <<>>, !.gapDeadline = 0, !.deferred = FALSE,
                           !.pending = TRUE, !.deferrals = 0]
    IN  IF due THEN Enqueue(SetEntry(m, k, [e EXCEPT !.deferred = FALSE]), k)
        ELSE IF start
        THEN Enqueue(SetEntry(IF k \in Channels THEN HoldUpdates(m, e.gap) ELSE m,
                              k, begun), k)
        ELSE m

(* A faulty closest deadline that overlooks possible gaps *)
FaultyNextDeadline(m) ==
    LET waiting == {k \in Keys : Known(m, k) /\
                       (~m.entries[k].pending \/ m.entries[k].deferred)}
    IN  Least({NoUpdatesTimeout} \cup {m.entries[k].deadline : k \in waiting})
NextDeadline(m) ==
    LET waiting == {k \in Keys : Known(m, k) /\
                       (~m.entries[k].pending \/ m.entries[k].deferred)}
    IN  IF waiting = {} THEN NoUpdatesTimeout
        ELSE Least({EffectiveDeadline(m.entries[k]) : k \in waiting})

ScheduleChannelRetry(m, c, failures, beyond) ==
    LET at == RetryDelay(failures)
        e == [m.entries[c] EXCEPT !.failures = failures, !.notBefore = at]
    IN  IF beyond = <<>> THEN SetEntry(m, c, e)
        ELSE [SetEntry(m, c, [e EXCEPT !.gap = beyond, !.gapDeadline = at])
                EXCEPT !.next_deadline = Min2(@, at)]

-----------------------------------------------------------------------------
(* The call in progress, and what it hands out *)

Idle == [phase |-> "idle", todo |-> <<>>, built |-> <<>>, left |-> 0,
         force |-> {}, got |-> FALSE, gaps |-> FALSE, seq |-> 0, key |-> Common,
         after |-> "socket", chan |-> Common, final |-> FALSE, timeout |-> 0,
         failures |-> 0, msgs |-> {}, at |-> 0, keys |-> {}]

Deliver(S) == delivered' = [e \in Counted |-> IF e \in S THEN delivered[e] + 1
                                                        ELSE delivered[e]]
(* The positions of the sequences K become known at p or are given up: what
   was handed out before no longer counts *)
Establish(K, p) ==
    /\ base' = [k \in Keys |-> IF k \in K THEN p[k] ELSE base[k]]
    /\ delivered' = [e \in Counted |-> IF e.key \in K THEN 0 ELSE delivered[e]]

Handed(S) == Deliver(S) /\ UNCHANGED base
Nothing == UNCHANGED <<base, delivered>>

(* Where the stable sort of s by SortKey, ascending or descending, finds its
   first element *)
IsFirst(s, i) == \A j \in DOMAIN s :
    SortKey(s[i]) < SortKey(s[j]) \/ (SortKey(s[i]) = SortKey(s[j]) /\ i <= j)
IsFirstDescending(s, i) == \A j \in DOMAIN s :
    SortKey(s[i]) > SortKey(s[j]) \/ (SortKey(s[i]) = SortKey(s[j]) /\ i <= j)

-----------------------------------------------------------------------------
(* process_updates_inner: the checks of a container, then its loop *)

BeginLoop(todo, force, seq) ==
    [Idle EXCEPT !.phase = "loop", !.todo = todo, !.force = force, !.seq = seq]

(* updatesTooLong, a reconnection or malformed updates *)
ProcessGap ==
    /\ call.phase = "idle"
    /\ mb' = TryBeginGetDiff(mb, Common)
    /\ Nothing
    /\ UNCHANGED <<call, srv, srvSeq>>

ProcessUpdates(us, seqStart, seq, valid) ==
    LET accountPending == Getting(mb, Common) \/ Getting(mb, Secondary)
        newSeq == IF seq = 0 \/ accountPending THEN mb.seq ELSE seq
        checked == seqStart # 0 /\ ~accountPending
        stale == checked /\ mb.seq + 1 > seqStart
        gap == ~stale /\ ((checked /\ mb.seq + 1 < seqStart) \/ ~valid)
    IN  /\ call.phase = "idle"
        /\ mb' = IF gap THEN TryBeginGetDiff(mb, Common) ELSE mb
        /\ call' = IF stale \/ gap THEN Idle ELSE BeginLoop(us, {}, newSeq)
        /\ Nothing
        /\ UNCHANGED <<srv, srvSeq>>

(* The loop is at the i-th update; exactly one of the actions below takes it *)
AtUpdate(i) == call.phase = "loop" /\ i \in DOMAIN call.todo /\ IsFirst(call.todo, i)
Rest(i) == RemoveIndex(call.todo, i)

LoopTooLong(i) == LET u == call.todo[i] IN
    /\ AtUpdate(i)
    /\ u.kind = "tooLong"
    /\ LET fresh == u.pts > 0 /\ ~Known(mb, u.key)
           m1 == IF fresh THEN SetEntry(mb, u.key, NewEntry(u.pts)) ELSE mb
       IN  /\ mb' = TryBeginGetDiff(m1, u.key)
           /\ IF fresh THEN Establish({u.key}, [k \in {u.key} |-> u.pts]) ELSE Nothing
    /\ call' = [call EXCEPT !.todo = Rest(i)]
    /\ UNCHANGED <<srv, srvSeq>>

LoopUnordered(i) == LET u == call.todo[i] IN
    /\ AtUpdate(i)
    /\ \/ u.kind = "free"
       \/ /\ u.kind = "pts"
          /\ u.key = Secondary /\ u.key \notin call.force
          /\ ~Getting(mb, Secondary) /\ ~Known(mb, Common)
    /\ call' = [call EXCEPT !.todo = Rest(i), !.got = TRUE]
    /\ Nothing
    /\ UNCHANGED <<mb, srv, srvSeq>>

LoopForced(i) == LET u == call.todo[i] IN
    /\ AtUpdate(i)
    /\ u.kind = "pts" /\ u.key \in call.force
    /\ mb' = ResetDeadline(mb, u.key, NoUpdatesTimeout)
    /\ call' = [call EXCEPT !.todo = Rest(i), !.got = TRUE]
    /\ Handed({u})
    /\ UNCHANGED <<srv, srvSeq>>

LoopHeld(i) == LET u == call.todo[i] IN
    /\ AtUpdate(i)
    /\ u.kind = "pts" /\ u.key \notin call.force /\ Getting(mb, u.key)
    /\ mb' = IF u.key \in Channels THEN HoldUpdates(mb, <<u>>) ELSE mb
    /\ call' = [call EXCEPT !.todo = Rest(i), !.gaps = TRUE]
    /\ Nothing
    /\ UNCHANGED <<srv, srvSeq>>

(* The entry an update is compared with: an unknown sequence starts just
   before its first update *)
EntryFor(u) == IF Known(mb, u.key) THEN mb.entries[u.key] ELSE NewEntry(SortKey(u))
(* A faulty comparison that applies what was already handled *)
FaultyApplies(e, u) == e.pts + u.count >= u.pts
Applies(e, u) == e.pts + u.count = u.pts
LeavesGap(e, u) == e.pts + u.count < u.pts

AfterUpdate(e, u) ==
    CASE Applies(e, u) -> [e EXCEPT !.pts = u.pts, !.deadline = NoUpdatesTimeout]
      [] LeavesGap(e, u) ->
            [e EXCEPT !.gapDeadline = IF e.gap = <<>> THEN GapTimeout ELSE @,
                      !.gap = IF Len(@) < MaxHeld THEN Append(@, u) ELSE @]
      [] OTHER -> e

LoopOrdered(i) ==
    LET u == call.todo[i]
        k == u.key
        applies == Applies(EntryFor(u), u)
        e1 == AfterUpdate(EntryFor(u), u)
        m1 == SetEntry(mb, k, e1)
    IN  /\ AtUpdate(i)
        /\ u.kind = "pts" /\ k \notin call.force /\ ~Getting(mb, k)
        /\ k = Secondary => Known(mb, Common)
        /\ IF e1.gap = <<>>
           THEN /\ mb' = [m1 EXCEPT !.next_deadline = Min2(@, NoUpdatesTimeout)]
                /\ call' = [call EXCEPT !.todo = Rest(i), !.got = @ \/ applies]
           ELSE /\ mb' = m1
                /\ call' = [call EXCEPT !.todo = Rest(i), !.got = @ \/ applies,
                                        !.phase = "sort", !.built = <<>>, !.key = k]
        /\ Deliver(IF applies THEN {u} ELSE {})
        /\ base' = IF Known(mb, k) THEN base ELSE [base EXCEPT ![k] = SortKey(u)]
        /\ UNCHANGED <<srv, srvSeq>>

(* The sort of an entry's possible gap by descending key, element by element *)
SortNext(i) ==
    LET g == mb.entries[call.key].gap
    IN  /\ call.phase = "sort"
        /\ i \in DOMAIN g /\ IsFirstDescending(g, i)
        /\ mb' = [mb EXCEPT !.entries[call.key].gap = RemoveIndex(g, i)]
        /\ call' = [call EXCEPT !.built = Append(@, g[i])]
        /\ Nothing
        /\ UNCHANGED <<srv, srvSeq>>

EndSort ==
    /\ call.phase = "sort"
    /\ mb.entries[call.key].gap = <<>>
    /\ mb' = [mb EXCEPT !.entries[call.key].gap = call.built]
    /\ call' = [call EXCEPT !.phase = "drain", !.built = <<>>]
    /\ Nothing
    /\ UNCHANGED <<srv, srvSeq>>

(* A faulty drain that hands a gap update out and keeps the position *)
FaultyAfterPop(e, u) ==
    LET left == SubSeq(e.gap, 1, Len(e.gap) - 1)
    IN  [e EXCEPT !.gap = left, !.gapDeadline = IF left = <<>> THEN 0 ELSE @]

(* The entry after its last gap update was popped and did not leave a gap *)
AfterPop(e, u) ==
    LET left == SubSeq(e.gap, 1, Len(e.gap) - 1)
    IN  [e EXCEPT !.pts = IF Applies(e, u) THEN u.pts ELSE @, !.gap = left,
                  !.gapDeadline = IF left = <<>> THEN 0 ELSE @]

(* One iteration of the loop that pops updates from the end of the gap *)
LoopDrain ==
    LET e == mb.entries[call.key]
        u == e.gap[Len(e.gap)]
        e1 == AfterPop(e, u)
        empty == e1.gap = <<>>
    IN  /\ call.phase = "drain"
        /\ IF LeavesGap(e, u)
           THEN /\ mb' = [mb EXCEPT !.next_deadline = Min2(@, e.gapDeadline)]
                /\ call' = [call EXCEPT !.phase = "loop", !.gaps = TRUE]
           ELSE /\ mb' = [SetEntry(mb, call.key, e1) EXCEPT !.next_deadline =
                            IF empty THEN Min2(@, NoUpdatesTimeout) ELSE @]
                /\ call' = [call EXCEPT !.phase = IF empty THEN "loop" ELSE "drain",
                                        !.got = @ \/ Applies(e, u)]
        /\ Handed(IF Applies(e, u) THEN {u} ELSE {})
        /\ UNCHANGED <<srv, srvSeq>>

(* The end of the loop: seq follows only when everything was applied *)
Applied == IF call.got /\ ~call.gaps THEN [mb EXCEPT !.seq = call.seq] ELSE mb
LoopEnds(after) == call.phase = "loop" /\ call.todo = <<>> /\ call.after = after

EndSocket ==
    /\ LoopEnds("socket")
    /\ mb' = Applied
    /\ call' = Idle
    /\ Nothing
    /\ UNCHANGED <<srv, srvSeq>>

(* take_released_updates: held updates of recovered channels are processed
   like socket updates, unless the channel's position already covers them *)
TakeReleasedUpdates ==
    /\ call.phase = "idle"
    /\ mb.held_release_ready
    /\ mb' = [mb EXCEPT !.held_release_ready = FALSE, !.held_overflowed = FALSE]
    /\ call' = [BeginLoop(<<>>, {}, mb.seq) EXCEPT !.phase = "release",
                                                   !.left = Len(mb.held_updates)]
    /\ Nothing
    /\ UNCHANGED <<srv, srvSeq>>

ReleaseNext ==
    LET u == Head(mb.held_updates)
        covered == Known(mb, u.key) /\ mb.entries[u.key].pts + u.count > u.pts
        keep == Getting(mb, u.key)
    IN  /\ call.phase = "release"
        /\ call.left > 0
        /\ mb' = [mb EXCEPT !.held_updates = IF keep THEN Append(Tail(@), u) ELSE Tail(@)]
        /\ call' = [call EXCEPT !.left = @ - 1,
                                !.todo = IF keep \/ covered THEN @ ELSE Append(@, u)]
        /\ Nothing
        /\ UNCHANGED <<srv, srvSeq>>

EndRelease ==
    /\ call.phase = "release"
    /\ call.left = 0
    /\ call' = IF call.todo = <<>> THEN Idle ELSE [call EXCEPT !.phase = "loop"]
    /\ Nothing
    /\ UNCHANGED <<mb, srv, srvSeq>>

-----------------------------------------------------------------------------
(* check_deadlines *)

CheckDeadlines ==
    /\ call.phase = "idle"
    /\ mb.next_deadline = 0
    /\ call' = [Idle EXCEPT !.phase = "deadlines", !.keys = Keys]
    /\ Nothing
    /\ UNCHANGED <<mb, srv, srvSeq>>

CheckNextEntry(k) ==
    /\ call.phase = "deadlines"
    /\ k \in call.keys /\ \A j \in call.keys : k <= j
    /\ mb' = CheckDeadline(mb, k)
    /\ call' = [call EXCEPT !.keys = @ \ {k}]
    /\ Nothing
    /\ UNCHANGED <<srv, srvSeq>>

EndDeadlines ==
    /\ call.phase = "deadlines"
    /\ call.keys = {}
    /\ mb' = [mb EXCEPT !.next_deadline = NextDeadline(mb)]
    /\ call' = Idle
    /\ Nothing
    /\ UNCHANGED <<srv, srvSeq>>

-----------------------------------------------------------------------------
(* Account state and account differences *)

(* get_difference asks for something only while the account's pts is known *)
AccountDiffWanted ==
    /\ call.phase = "idle"
    /\ Getting(mb, Common) \/ Getting(mb, Secondary)
    /\ Known(mb, Common)

(* Telegram's events of sequence k after position from, up to position to *)
Between(k, from, to) == {e \in Counted : e.key = k /\ from < e.pts /\ e.pts <= to}
(* Positions a difference for k may end at *)
Reachable(k, from) ==
    {p \in {from, srv[k]} \cup {e.pts : e \in {x \in Counted : x.key = k}} :
        from <= p /\ p <= srv[k]}
PtsOf(k) == IF Known(mb, k) THEN mb.entries[k].pts ELSE Start
Orderings(S) == {s \in [1 .. Cardinality(S) -> S] :
                    \A i, j \in 1 .. Cardinality(S) : s[i] = s[j] => i = j}

EmptyDifference ==
    /\ AccountDiffWanted
    /\ mb' = TryEndGetDiff(TryEndGetDiff([mb EXCEPT !.seq = srvSeq], Common), Secondary)
    /\ Nothing
    /\ UNCHANGED <<call, srv, srvSeq>>

DifferenceTooLong(p) ==
    /\ AccountDiffWanted
    /\ mb' = TryEndGetDiff(TryEndGetDiff(SetPts(mb, Common, p), Common), Secondary)
    /\ Establish({Common}, [k \in {Common} |-> p])
    /\ UNCHANGED <<call, srv, srvSeq>>

(* difference and differenceSlice: new messages and other updates up to pts and
   qts, and updates of channels, dropped where their difference is pending *)
Difference(pts, qts, others, extra, final) ==
    LET gained == Between(Common, PtsOf(Common), pts)
                  \cup Between(Secondary, PtsOf(Secondary), qts)
    IN  /\ AccountDiffWanted
        /\ others \in Orderings({e \in gained : ~e.msg})
        /\ \A i \in DOMAIN extra : ~Getting(mb, extra[i].key)
        /\ mb' = [SetPts(SetPts(mb, Common, pts), Secondary, qts) EXCEPT !.seq = srvSeq]
        /\ call' = [BeginLoop(others \o extra, {Common, Secondary}, srvSeq)
                      EXCEPT !.after = "account", !.final = final,
                             !.msgs = {e \in gained : e.msg}]
        /\ IF Known(mb, Secondary) THEN Nothing
           ELSE Establish({Secondary}, [k \in {Secondary} |-> Start])
        /\ UNCHANGED <<srv, srvSeq>>

EndAccount ==
    /\ LoopEnds("account")
    /\ mb' = IF call.final THEN TryEndGetDiff(TryEndGetDiff(Applied, Common), Secondary)
                           ELSE Applied
    /\ call' = Idle
    /\ Handed(call.msgs)
    /\ UNCHANGED <<srv, srvSeq>>

(* set_state, for callers that have no account state *)
SetAccountState ==
    /\ call.phase = "idle"
    /\ LogIn
    /\ ~Known(mb, Common)
    /\ mb' = SetState(mb, srv[Common], srv[Secondary], srvSeq)
    /\ Establish({Common, Secondary}, srv)
    /\ UNCHANGED <<call, srv, srvSeq>>

DiscardAccount ==
    /\ call.phase = "idle"
    /\ mb' = DiscardAccountState(mb)
    /\ Establish({Common, Secondary}, [k \in Keys |-> 0])
    /\ UNCHANGED <<call, srv, srvSeq>>

-----------------------------------------------------------------------------
(* Channel differences: every method works on the first ready channel *)

ChannelReady(c) == call.phase = "idle" /\ IsChannelInDiff(mb, c)

TrySetChannelState(c) ==
    /\ call.phase = "idle"
    /\ ~Known(mb, c)
    /\ mb' = SetEntry(mb, c, NewEntry(srv[c]))
    /\ Establish({c}, srv)
    /\ UNCHANGED <<call, srv, srvSeq>>

(* apply_channel_difference, up to its loop *)
ApplyChannel(c, p, others, msgs, final, timeout) ==
    LET e == mb.entries[c]
        cleared == [e EXCEPT !.gap = <<>>, !.gapDeadline = 0, !.deferred = FALSE,
                             !.deferrals = 0, !.failures = 0, !.notBefore = 0]
        m1 == SetEntry([mb EXCEPT !.exhausted_channels = @ \ {c}], c, cleared)
    IN  /\ ChannelReady(c)
        /\ mb' = SetPts(IF final THEN TryEndGetDiff(m1, c) ELSE m1, c, p)
        /\ call' = [BeginLoop(others, {c}, mb.seq)
                      EXCEPT !.after = "channel", !.chan = c, !.final = final,
                             !.timeout = timeout, !.msgs = msgs, !.at = p,
                             !.failures = Min2(e.failures + 1, MaxFailures)]
        /\ UNCHANGED <<srv, srvSeq>>

(* channelDifference and channelDifferenceEmpty *)
ChannelDifference(c, p, others, final, timeout) ==
    LET gained == Between(c, PtsOf(c), p)
    IN  /\ others \in Orderings({e \in gained : ~e.msg})
        /\ ApplyChannel(c, p, others, {e \in gained : e.msg}, final, timeout)
        /\ Nothing

ChannelDifferenceTooLong(c, p, final, timeout) ==
    /\ ApplyChannel(c, p, <<>>, {}, final, timeout)
    /\ Establish({c}, [k \in Keys |-> p])

(* A faulty rotation that forgets to count the channel again *)
FaultyRotateToBack(m, c) == [Dequeue(m, c) EXCEPT !.getting_diff_for = Append(@, c)]

RotateToBack(m, c) ==
    [Dequeue(m, c) EXCEPT !.getting_diff_for = Append(@, c), !.ready_diff_count = @ + 1]

(* What apply_channel_difference does after its loop *)
EndChannel ==
    LET c == call.chan
        m1 == ResetDeadline(Applied, c, call.timeout)
    IN  /\ LoopEnds("channel")
        /\ mb' = IF call.final THEN m1 ELSE RotateToBack(m1, c)
        /\ call' = IF call.final
                   THEN [call EXCEPT !.phase = "extract", !.left = Len(mb.held_updates)]
                   ELSE Idle
        /\ Handed(call.msgs)
        /\ UNCHANGED <<srv, srvSeq>>

(* retain_contiguous_held_updates: take the channel's held updates out ... *)
ExtractNext ==
    LET u == Head(mb.held_updates)
        own == u.key = call.chan
    IN  /\ call.phase = "extract"
        /\ call.left > 0
        /\ mb' = [mb EXCEPT !.held_updates = IF own THEN Tail(@) ELSE Append(Tail(@), u)]
        /\ call' = [call EXCEPT !.left = @ - 1, !.todo = IF own THEN Append(@, u) ELSE @]
        /\ Nothing
        /\ UNCHANGED <<srv, srvSeq>>

EndExtract ==
    /\ call.phase = "extract"
    /\ call.left = 0
    /\ call' = [call EXCEPT !.phase = "sift"]
    /\ Nothing
    /\ UNCHANGED <<mb, srv, srvSeq>>

(* ... then keep those that directly follow its position *)
SiftNext(i) ==
    LET u == call.todo[i]
        next == call.at + u.count
        follows == call.built = <<>> /\ next = u.pts
        beyond == call.built # <<>> \/ next < u.pts
    IN  /\ call.phase = "sift"
        /\ i \in DOMAIN call.todo /\ IsFirst(call.todo, i)
        /\ mb' = IF follows THEN [mb EXCEPT !.held_updates = Append(@, u)] ELSE mb
        /\ call' = [call EXCEPT !.todo = Rest(i), !.at = IF follows THEN u.pts ELSE @,
                                !.built = IF beyond THEN Append(@, u) ELSE @]
        /\ Nothing
        /\ UNCHANGED <<srv, srvSeq>>

EndSift ==
    /\ call.phase = "sift"
    /\ call.todo = <<>>
    /\ mb' = IF call.built # <<>> \/ call.after = "temporary"
             THEN ScheduleChannelRetry(mb, call.chan, call.failures, call.built)
             ELSE mb
    /\ call' = Idle
    /\ Nothing
    /\ UNCHANGED <<srv, srvSeq>>

(* end_channel_difference(TemporaryServerIssues) *)
EndTemporarily(c) ==
    LET e == mb.entries[c]
        m1 == SetEntry(mb, c, [e EXCEPT !.gap = <<>>, !.gapDeadline = 0])
    IN  /\ ChannelReady(c)
        /\ mb' = TryEndGetDiff(m1, c)
        /\ call' = [Idle EXCEPT !.phase = "extract", !.left = Len(mb.held_updates),
                                !.chan = c, !.after = "temporary", !.at = e.pts,
                                !.failures = Min2(e.failures + 1, MaxFailures)]
        /\ Nothing
        /\ UNCHANGED <<srv, srvSeq>>

(* A faulty end_channel_difference that drops the entry of a banned channel
   without ending its recovery *)
FaultyEndBanned(c) ==
    /\ ChannelReady(c)
    /\ mb' = PopEntry(Dequeue(mb, c), c)
    /\ Establish({c}, [k \in Keys |-> 0])
    /\ UNCHANGED <<call, srv, srvSeq>>

(* end_channel_difference(Banned) *)
EndBanned(c) ==
    LET m1 == SetEntry(mb, c, [mb.entries[c] EXCEPT !.gap = <<>>, !.gapDeadline = 0])
    IN  /\ ChannelReady(c)
        /\ mb' = PopEntry(TryEndGetDiff(m1, c), c)
        /\ Establish({c}, [k \in Keys |-> 0])
        /\ UNCHANGED <<call, srv, srvSeq>>

(* Callers use it right after end_channel_difference *)
RetryChannelWithoutDelay(c) ==
    LET e == mb.entries[c]
        e1 == [e EXCEPT !.failures = Max2(@ - 1, 0), !.notBefore = 0, !.gapDeadline = 0]
    IN  /\ call.phase = "idle"
        /\ Known(mb, c) /\ ~Getting(mb, c)
        /\ mb' = [SetEntry(mb, c, e1) EXCEPT !.next_deadline =
                     IF e.gap = <<>> THEN @ ELSE 0]
        /\ Nothing
        /\ UNCHANGED <<call, srv, srvSeq>>

GraceSpent(c) ==
    c \in mb.exhausted_channels \/ mb.entries[c].deferrals >= MaxDeferrals

DeferChannelDifference(c) ==
    LET e == mb.entries[c]
        deferred == [e EXCEPT !.deferred = TRUE, !.deferrals = @ + 1,
                              !.deadline = DeferDelay]
    IN  /\ ChannelReady(c)
        /\ IF GraceSpent(c)
           THEN /\ mb' = PopEntry(TryEndGetDiff(
                            [mb EXCEPT !.exhausted_channels = @ \cup {c}], c), c)
                /\ Establish({c}, [k \in Keys |-> 0])
           ELSE /\ mb' = [SetEntry(Dequeue(mb, c), c, deferred)
                            EXCEPT !.next_deadline = Min2(@, DeferDelay)]
                /\ Nothing
        /\ UNCHANGED <<call, srv, srvSeq>>

TryExhaustChannelGrace(c) ==
    /\ ChannelReady(c)
    /\ GraceSpent(c)
    /\ mb' = [mb EXCEPT !.exhausted_channels = @ \cup {c}]
    /\ Nothing
    /\ UNCHANGED <<call, srv, srvSeq>>

ChannelDifferenceAccessible(c) ==
    /\ ChannelReady(c)
    /\ mb' = [mb EXCEPT !.exhausted_channels = @ \ {c}, !.entries[c].deferrals = 0]
    /\ Nothing
    /\ UNCHANGED <<call, srv, srvSeq>>

-----------------------------------------------------------------------------
(* Telegram, the clock, and the specification *)

Publish(e) ==
    /\ call.phase = "idle"
    /\ e.count > 0
    /\ srv[e.key] = SortKey(e)
    /\ srv' = [srv EXCEPT ![e.key] = e.pts]
    /\ UNCHANGED <<mb, call, srvSeq, base, delivered>>

NumberContainer ==
    /\ call.phase = "idle"
    /\ srvSeq < MaxSeq
    /\ srvSeq' = srvSeq + 1
    /\ UNCHANGED <<mb, call, srv, base, delivered>>

Tick ==
    LET dec(t) == Max2(t - 1, 0)
        older(e) == [e EXCEPT !.deadline = dec(@), !.notBefore = dec(@),
                              !.gapDeadline = dec(@)]
        m1 == [mb EXCEPT !.next_deadline = dec(@),
                         !.entries = [k \in Keys |-> IF Known(mb, k) THEN older(@[k])
                                                                    ELSE NoEntry]]
    IN  /\ call.phase = "idle"
        /\ m1 # mb
        /\ mb' = m1
        /\ Nothing
        /\ UNCHANGED <<call, srv, srvSeq>>

(* Updates a container may hold: anything published, however often it was
   sent and however late it comes, and updateChannelTooLong, with or without pts *)
Offered ==
    {e \in Events : e.pts <= srv[e.key]} \cup {FreeUpdate}
    \cup UNION {{TooLong(c, p) : p \in {0, srv[c]}} : c \in Channels}
Batches(S, n) == UNION {[1 .. i -> S] : i \in 0 .. n}

(* What load() keeps of a stored session: its positive counters, but no qts
   without a pts, with which no getDifference can be formed *)
Repaired(S) == IF Common \in S THEN S ELSE S \ {Secondary}
Sessions == {Repaired(S) : S \in Saved}

(* load() makes the kept positions K pending, in key order; new() has none *)
Loaded(K, q) ==
    [entries |-> [k \in Keys |-> IF k \in K THEN [NewEntry(Start) EXCEPT !.pending = TRUE]
                                             ELSE NoEntry],
     getting_diff_for |-> q, ready_diff_count |-> Len(q), exhausted_channels |-> {},
     held_updates |-> <<>>, held_release_ready |-> FALSE, held_overflowed |-> FALSE,
     next_deadline |-> NoUpdatesTimeout, seq |-> 0]

Init ==
    /\ \E K \in Sessions : \E q \in [1 .. Cardinality(K) -> K] :
          /\ \A k \in K : \E i \in DOMAIN q : q[i] = k
          /\ \A i, j \in DOMAIN q : i < j => q[i] < q[j]
          /\ mb = Loaded(K, q)
          /\ base = [k \in Keys |-> IF k \in K THEN Start ELSE 0]
    /\ call = Idle
    /\ srv = [k \in Keys |-> Start]
    /\ srvSeq = 0
    /\ delivered = [e \in Counted |-> 0]

(* The steps of a call in progress *)
Continue ==
    \/ \E i \in DOMAIN call.todo :
          \/ LoopTooLong(i) \/ LoopUnordered(i) \/ LoopForced(i) \/ LoopHeld(i)
          \/ LoopOrdered(i) \/ SiftNext(i)
    \/ (\E i \in 1 .. MaxHeld : SortNext(i)) \/ EndSort \/ LoopDrain
    \/ EndSocket \/ EndAccount \/ EndChannel
    \/ ReleaseNext \/ EndRelease
    \/ (\E k \in call.keys : CheckNextEntry(k)) \/ EndDeadlines
    \/ ExtractNext \/ EndExtract \/ EndSift

Socket ==
    \/ ProcessGap
    \/ \E us \in Batches(Offered, MaxBatch), seq \in 0 .. srvSeq :
          \E seqStart \in 0 .. seq : ProcessUpdates(us, seqStart, seq, TRUE)
    \/ ProcessUpdates(<<>>, 0, 0, FALSE)

AccountAnswer ==
    \/ EmptyDifference
    \/ DifferenceTooLong(srv[Common])
    \/ \E pts \in Reachable(Common, PtsOf(Common)),
          qts \in Reachable(Secondary, PtsOf(Secondary)),
          extra \in Batches({u \in Offered : u.key \in Channels}, MaxExtra),
          final \in BOOLEAN :
          \E others \in Orderings({e \in Between(Common, PtsOf(Common), pts)
                        \cup Between(Secondary, PtsOf(Secondary), qts) : ~e.msg}) :
              Difference(pts, qts, others, extra, final)

ChannelAnswer(c) ==
    \E timeout \in Timeouts, final \in BOOLEAN :
        \/ \E p \in Reachable(c, PtsOf(c)) :
              \E others \in Orderings({e \in Between(c, PtsOf(c), p) : ~e.msg}) :
                  ChannelDifference(c, p, others, final, timeout)
        \/ ChannelDifferenceTooLong(c, srv[c], final, timeout)

Receiver ==
    \/ CheckDeadlines \/ TakeReleasedUpdates
    \/ SetAccountState \/ DiscardAccount
    \/ \E c \in Channels :
          \/ TrySetChannelState(c) \/ RetryChannelWithoutDelay(c)
          \/ EndTemporarily(c) \/ EndBanned(c)
          \/ DeferChannelDifference(c) \/ TryExhaustChannelGrace(c)
          \/ ChannelDifferenceAccessible(c)

Telegram == NumberContainer \/ \E e \in Events : Publish(e)

Next == \/ Continue \/ Socket \/ Receiver \/ Telegram \/ Tick
        \/ AccountAnswer \/ \E c \in Channels : ChannelAnswer(c)

Spec == Init /\ [][Next]_vars

(* An answer that brings a channel up to date *)
ChannelCaughtUp(c) ==
    \E timeout \in Timeouts :
        \E others \in Orderings({e \in Between(c, PtsOf(c), srv[c]) : ~e.msg}) :
            ChannelDifference(c, srv[c], others, TRUE, timeout)

-----------------------------------------------------------------------------
(* Properties *)

Entry == [pts : Nat, deadline : Nat, deferred : BOOLEAN, pending : BOOLEAN,
          deferrals : Nat, failures : Nat, notBefore : Nat, gapDeadline : Nat,
          gap : Seq(Events)]
Box == [entries : [Keys -> Entry \cup {NoEntry}], getting_diff_for : Seq(Keys),
        ready_diff_count : Nat, exhausted_channels : SUBSET Channels,
        held_updates : Seq(Events), held_release_ready : BOOLEAN,
        held_overflowed : BOOLEAN, next_deadline : Nat, seq : Nat]
Updates == Events \cup {FreeUpdate}
    \cup [kind : {"tooLong"}, key : Channels, pts : Nat, count : {0}, msg : {FALSE}]
Phases == {"idle", "loop", "sort", "drain", "release", "deadlines", "extract", "sift"}
Call == [phase : Phases, todo : Seq(Updates), built : Seq(Events), left : Nat,
         force : SUBSET Keys, got : BOOLEAN, gaps : BOOLEAN, seq : Nat, key : Keys,
         after : {"socket", "account", "channel", "temporary"}, chan : Keys,
         final : BOOLEAN, timeout : Nat, failures : Nat, msgs : SUBSET Events,
         at : Nat, keys : SUBSET Keys]

(* Every field of the struct and of the call in progress has its type *)
TypeOK ==
    /\ mb \in Box
    /\ call \in Call
    /\ srv \in [Keys -> Nat]
    /\ srvSeq \in Nat
    /\ base \in [Keys -> Nat]
    /\ delivered \in [Counted -> Nat]

(* The queue of ready recoveries holds every sequence whose recovery is pending
   and not deferred exactly once, and nothing else; ready_diff_count is its
   length (try_end_get_diff: "ready recovery must be queued") *)
RecoveryQueue ==
    LET q == mb.getting_diff_for
    IN  /\ \A i, j \in DOMAIN q : q[i] = q[j] => i = j
        /\ \A k \in Keys : (\E i \in DOMAIN q : q[i] = k)
                            <=> Getting(mb, k) /\ ~mb.entries[k].deferred
        /\ mb.ready_diff_count = Len(q)

(* A pending recovery has no possible gap (the debug_assert of
   try_end_get_diff: "gaps shouldn't be created while getting difference"), and
   only a pending recovery is deferred *)
NoGapWhilePending ==
    \A k \in Keys : Known(mb, k) =>
        /\ mb.entries[k].pending => mb.entries[k].gap = <<>>
        /\ mb.entries[k].deferred => mb.entries[k].pending

(* A postponed channel update is never stranded: its channel is still being
   recovered, or the next take_released_updates will look at it *)
HeldNotStranded ==
    call.phase = "idle" => \A i \in DOMAIN mb.held_updates :
        Getting(mb, mb.held_updates[i].key) \/ mb.held_release_ready

(* get_difference always can form its request: the qts is known only
   together with the pts *)
QtsNeedsPrimary == Known(mb, Secondary) => Known(mb, Common)

(* Between any two steps of its methods the struct agrees with itself: flags, queue
   and counter of recoveries, gaps, held updates and the account's two entries *)
Consistent == RecoveryQueue /\ NoGapWhilePending /\ HeldNotStranded /\ QtsNeedsPrimary

(* The cached deadline never lets the receiver sleep past an entry's deadline *)
WakesInTime ==
    call.phase = "idle" => \A k \in Keys :
        Known(mb, k) /\ (~mb.entries[k].pending \/ mb.entries[k].deferred)
            => mb.next_deadline <= EffectiveDeadline(mb.entries[k])

(* The struct is sound when the receiver looks at it *)
Sound == Consistent /\ WakesInTime

(* Every event between the place where a position was established and the
   position itself was handed out exactly once, every other one never *)
ExactlyOnce ==
    call.phase = "idle" => \A e \in Counted :
        delivered[e] = IF Known(mb, e.key) /\ base[e.key] < e.pts
                          /\ e.pts <= mb.entries[e.key].pts THEN 1 ELSE 0

(* The position of a sequence never runs backwards while it is known *)
Forward ==
    \A k \in Keys : Known(mb, k) /\ Known(mb', k) => mb'.entries[k].pts >= mb.entries[k].pts

(* While the recovery of a sequence is pending, deferred or not, only its own
   answer moves the position: socket updates "cannot advance or deliver a
   sequence whose backlog is being fetched" (process_updates_inner) *)
Frozen ==
    \A k \in Keys :
        /\ Known(mb, k) /\ mb.entries[k].pending
        /\ Known(mb', k) /\ mb'.entries[k].pending
        /\ mb'.entries[k].pts # mb.entries[k].pts
        => call.phase = "idle" /\ k \in call'.force

(* Both hold of every step: nothing but the answer to its recovery, and nothing at
   all backwards, moves a position whose recovery is pending *)
PositionsHold == [][Forward /\ Frozen]_vars

(* A channel whose last recovery was put off is not asked about again before
   its delay is over *)
RetryPaced ==
    \A i \in DOMAIN mb.getting_diff_for :
        mb.entries[mb.getting_diff_for[i]].notBefore = 0

(* A sequence that the client knows is where Telegram is.  Under fairness this holds
   again and again. *)
CaughtUp(k) == Known(mb, k) => mb.entries[k].pts = srv[k]
=============================================================================
